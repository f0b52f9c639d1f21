----------------------------- MODULE EntryTypes -----------------------------
(***************************************************************************)
(* pkg/types: the kinds of entries behind one interface.  A proposed entry *)
(* is [kind, apiVersion, spec]; an entry object is [kind, version, impl],  *)
(* in which impl is the object of the versioned type.                      *)
(***************************************************************************)
EXTENDS EntryBase

Alpine == INSTANCE AlpineEntry
Cose == INSTANCE CoseEntry
Dsse == INSTANCE DsseEntry
HashedRekord == INSTANCE HashedRekordEntry
Helm == INSTANCE HelmEntry
IntotoV001 == INSTANCE IntotoV001Entry
IntotoV002 == INSTANCE IntotoV002Entry
Jar == INSTANCE JarEntry
Rekord == INSTANCE RekordEntry
Rfc3161 == INSTANCE Rfc3161Entry
Rpm == INSTANCE RpmEntry
Tuf == INSTANCE TufEntry

Kinds == {"alpine", "cose", "dsse", "hashedrekord", "helm", "intoto", "jar",
          "rekord", "rfc3161", "rpm", "tuf"}

---------------------------------------------------------------------------
(* Proposed entries in JSON.                                               *)

\* The base kind has no type behind it and is refused later.
unmarshalProposedEntry(doc) ==
  CASE doc.kind = "ProposedEntry" -> {doc}
    [] doc.kind = "alpine"        -> Alpine!UnmarshalJSON(doc)
    [] doc.kind = "cose"          -> Cose!UnmarshalJSON(doc)
    [] doc.kind = "dsse"          -> Dsse!UnmarshalJSON(doc)
    [] doc.kind = "hashedrekord"  -> HashedRekord!UnmarshalJSON(doc)
    [] doc.kind = "helm"          -> Helm!UnmarshalJSON(doc)
    [] doc.kind = "intoto"        -> IntotoV002!UnmarshalJSON(doc)
    [] doc.kind = "jar"           -> Jar!UnmarshalJSON(doc)
    [] doc.kind = "rekord"        -> Rekord!UnmarshalJSON(doc)
    [] doc.kind = "rfc3161"       -> Rfc3161!UnmarshalJSON(doc)
    [] doc.kind = "rpm"           -> Rpm!UnmarshalJSON(doc)
    [] doc.kind = "tuf"           -> Tuf!UnmarshalJSON(doc)
    [] OTHER                      -> {}

ValidateProposedEntry(pe) ==
  CASE pe.kind = "ProposedEntry" -> TRUE
    [] pe.kind = "alpine"        -> Alpine!ValidateProposed(pe)
    [] pe.kind = "cose"          -> Cose!ValidateProposed(pe)
    [] pe.kind = "dsse"          -> Dsse!ValidateProposed(pe)
    [] pe.kind = "hashedrekord"  -> HashedRekord!ValidateProposed(pe)
    [] pe.kind = "helm"          -> Helm!ValidateProposed(pe)
    [] pe.kind = "intoto"        -> IntotoV002!ValidateProposed(pe)
    [] pe.kind = "jar"           -> Jar!ValidateProposed(pe)
    [] pe.kind = "rekord"        -> Rekord!ValidateProposed(pe)
    [] pe.kind = "rfc3161"       -> Rfc3161!ValidateProposed(pe)
    [] pe.kind = "rpm"           -> Rpm!ValidateProposed(pe)
    [] pe.kind = "tuf"           -> Tuf!ValidateProposed(pe)

---------------------------------------------------------------------------
(* The intoto type, which has two versions.                                *)

IntotoVersions == <<"0.0.2", "0.0.1">>

\* The versions are tried as semantic version ranges.
IntotoUnmarshalEntry(pe) ==
  IF pe.kind # "intoto" \/ pe.apiVersion = Nil THEN {}
  ELSE IF SemVerMatches("0.0.2", pe.apiVersion)
       THEN {[kind |-> "intoto", version |-> "0.0.2", impl |-> v] : v \in IntotoV002!Unmarshal(pe)}
       ELSE IF SemVerMatches("0.0.1", pe.apiVersion)
       THEN {[kind |-> "intoto", version |-> "0.0.1", impl |-> v] : v \in IntotoV001!Unmarshal(pe)}
       ELSE {}

\* Without a version, a list: the default first, which must succeed, then the
\* other version unless it fails.
IntotoCreateProposedEntry(version, props, now) ==
  CASE version = "0.0.2"    -> {<<pe>> : pe \in IntotoV002!CreateFromArtifactProperties(props, now)}
    [] version = "0.0.1"    -> {<<pe>> : pe \in IntotoV001!CreateFromArtifactProperties(props, now)}
    [] version = AnyVersion ->
         LET others == IntotoV001!CreateFromArtifactProperties(props, now)
         IN {IF others = {} THEN <<pe>> ELSE <<pe, CHOOSE o \in others : TRUE>> :
               pe \in IntotoV002!CreateFromArtifactProperties(props, now)}
    [] OTHER                -> {}

---------------------------------------------------------------------------
(* The interface.                                                          *)

SupportedVersions(kind) == IF kind = "intoto" THEN {"0.0.1", "0.0.2"} ELSE {"0.0.1"}

UnmarshalEntry(pe) ==
  LET V001(S) == {[kind |-> pe.kind, version |-> "0.0.1", impl |-> v] : v \in S}
  IN CASE pe.kind = "alpine"       -> V001(Alpine!UnmarshalEntry(pe))
       [] pe.kind = "cose"         -> V001(Cose!UnmarshalEntry(pe))
       [] pe.kind = "dsse"         -> V001(Dsse!UnmarshalEntry(pe))
       [] pe.kind = "hashedrekord" -> V001(HashedRekord!UnmarshalEntry(pe))
       [] pe.kind = "helm"         -> V001(Helm!UnmarshalEntry(pe))
       [] pe.kind = "intoto"       -> IntotoUnmarshalEntry(pe)
       [] pe.kind = "jar"          -> V001(Jar!UnmarshalEntry(pe))
       [] pe.kind = "rekord"       -> V001(Rekord!UnmarshalEntry(pe))
       [] pe.kind = "rfc3161"      -> V001(Rfc3161!UnmarshalEntry(pe))
       [] pe.kind = "rpm"          -> V001(Rpm!UnmarshalEntry(pe))
       [] pe.kind = "tuf"          -> V001(Tuf!UnmarshalEntry(pe))
       [] OTHER                    -> {}

Insertable(e) ==
  CASE e.kind = "alpine"       -> Alpine!Insertable(e.impl)
    [] e.kind = "cose"         -> Cose!Insertable(e.impl)
    [] e.kind = "dsse"         -> Dsse!Insertable(e.impl)
    [] e.kind = "hashedrekord" -> HashedRekord!Insertable(e.impl)
    [] e.kind = "helm"         -> Helm!Insertable(e.impl)
    [] e.kind = "intoto" /\ e.version = "0.0.1" -> IntotoV001!Insertable(e.impl)
    [] e.kind = "intoto" /\ e.version = "0.0.2" -> IntotoV002!Insertable(e.impl)
    [] e.kind = "jar"          -> Jar!Insertable(e.impl)
    [] e.kind = "rekord"       -> Rekord!Insertable(e.impl)
    [] e.kind = "rfc3161"      -> Rfc3161!Insertable(e.impl)
    [] e.kind = "rpm"          -> Rpm!Insertable(e.impl)
    [] e.kind = "tuf"          -> Tuf!Insertable(e.impl)

\* On the insertion flow.  kinds are the kinds that this server accepts.
CreateVersionedEntry(pe, kinds) ==
  {e \in UnmarshalEntry(pe) :
     /\ pe.kind \in kinds
     /\ e.version \in SupportedVersions(pe.kind)
     /\ Insertable(e)}

\* The leaf, and the entry object as Canonicalize leaves it.
CanonicalizeEntry(e, now) ==
  LET Forms(S) == {[leaf |-> c.leaf, entry |-> [kind |-> e.kind, version |-> e.version, impl |-> c.entry]] : c \in S}
  IN CASE e.kind = "alpine"       -> Forms(Alpine!Canonicalize(e.impl, now))
       [] e.kind = "cose"         -> Forms(Cose!Canonicalize(e.impl, now))
       [] e.kind = "dsse"         -> Forms(Dsse!Canonicalize(e.impl, now))
       [] e.kind = "hashedrekord" -> Forms(HashedRekord!Canonicalize(e.impl, now))
       [] e.kind = "helm"         -> Forms(Helm!Canonicalize(e.impl, now))
       [] e.kind = "intoto" /\ e.version = "0.0.1" -> Forms(IntotoV001!Canonicalize(e.impl, now))
       [] e.kind = "intoto" /\ e.version = "0.0.2" -> Forms(IntotoV002!Canonicalize(e.impl, now))
       [] e.kind = "jar"          -> Forms(Jar!Canonicalize(e.impl, now))
       [] e.kind = "rekord"       -> Forms(Rekord!Canonicalize(e.impl, now))
       [] e.kind = "rfc3161"      -> Forms(Rfc3161!Canonicalize(e.impl, now))
       [] e.kind = "rpm"          -> Forms(Rpm!Canonicalize(e.impl, now))
       [] e.kind = "tuf"          -> Forms(Tuf!Canonicalize(e.impl, now))

IndexKeys(e, now) ==
  CASE e.kind = "alpine"       -> Alpine!IndexKeys(e.impl, now)
    [] e.kind = "cose"         -> Cose!IndexKeys(e.impl, now)
    [] e.kind = "dsse"         -> Dsse!IndexKeys(e.impl, now)
    [] e.kind = "hashedrekord" -> HashedRekord!IndexKeys(e.impl, now)
    [] e.kind = "helm"         -> Helm!IndexKeys(e.impl, now)
    [] e.kind = "intoto" /\ e.version = "0.0.1" -> IntotoV001!IndexKeys(e.impl, now)
    [] e.kind = "intoto" /\ e.version = "0.0.2" -> IntotoV002!IndexKeys(e.impl, now)
    [] e.kind = "jar"          -> Jar!IndexKeys(e.impl, now)
    [] e.kind = "rekord"       -> Rekord!IndexKeys(e.impl, now)
    [] e.kind = "rfc3161"      -> Rfc3161!IndexKeys(e.impl, now)
    [] e.kind = "rpm"          -> Rpm!IndexKeys(e.impl, now)
    [] e.kind = "tuf"          -> Tuf!IndexKeys(e.impl, now)

Verifiers(e, now) ==
  CASE e.kind = "alpine"       -> Alpine!Verifiers(e.impl, now)
    [] e.kind = "cose"         -> Cose!Verifiers(e.impl, now)
    [] e.kind = "dsse"         -> Dsse!Verifiers(e.impl, now)
    [] e.kind = "hashedrekord" -> HashedRekord!Verifiers(e.impl, now)
    [] e.kind = "helm"         -> Helm!Verifiers(e.impl, now)
    [] e.kind = "intoto" /\ e.version = "0.0.1" -> IntotoV001!Verifiers(e.impl, now)
    [] e.kind = "intoto" /\ e.version = "0.0.2" -> IntotoV002!Verifiers(e.impl, now)
    [] e.kind = "jar"          -> Jar!Verifiers(e.impl, now)
    [] e.kind = "rekord"       -> Rekord!Verifiers(e.impl, now)
    [] e.kind = "rfc3161"      -> Rfc3161!Verifiers(e.impl, now)
    [] e.kind = "rpm"          -> Rpm!Verifiers(e.impl, now)
    [] e.kind = "tuf"          -> Tuf!Verifiers(e.impl, now)

ArtifactHash(e) ==
  CASE e.kind = "alpine"       -> Alpine!ArtifactHash(e.impl)
    [] e.kind = "cose"         -> Cose!ArtifactHash(e.impl)
    [] e.kind = "dsse"         -> Dsse!ArtifactHash(e.impl)
    [] e.kind = "hashedrekord" -> HashedRekord!ArtifactHash(e.impl)
    [] e.kind = "helm"         -> Helm!ArtifactHash(e.impl)
    [] e.kind = "intoto" /\ e.version = "0.0.1" -> IntotoV001!ArtifactHash(e.impl)
    [] e.kind = "intoto" /\ e.version = "0.0.2" -> IntotoV002!ArtifactHash(e.impl)
    [] e.kind = "jar"          -> Jar!ArtifactHash(e.impl)
    [] e.kind = "rekord"       -> Rekord!ArtifactHash(e.impl)
    [] e.kind = "rfc3161"      -> Rfc3161!ArtifactHash(e.impl)
    [] e.kind = "rpm"          -> Rpm!ArtifactHash(e.impl)
    [] e.kind = "tuf"          -> Tuf!ArtifactHash(e.impl)

\* EntryWithAttestationImpl: cose and intoto.
HasAttestation(e) == e.kind \in {"cose", "intoto"}

AttestationKey(e) ==
  CASE e.kind = "cose" -> Cose!AttestationKey(e.impl)
    [] e.kind = "intoto" /\ e.version = "0.0.1" -> IntotoV001!AttestationKey(e.impl)
    [] e.kind = "intoto" /\ e.version = "0.0.2" -> IntotoV002!AttestationKey(e.impl)

AttestationKeyValue(e) ==
  CASE e.kind = "cose" -> Cose!AttestationKeyValue(e.impl)
    [] e.kind = "intoto" /\ e.version = "0.0.1" -> IntotoV001!AttestationKeyValue(e.impl)
    [] e.kind = "intoto" /\ e.version = "0.0.2" -> IntotoV002!AttestationKeyValue(e.impl)

\* The proposed entries that a client makes of an artifact, to be tried in order.
NewProposedEntry(kind, version, props, now) ==
  LET One(S) == {<<pe>> : pe \in S}
  IN CASE kind = "alpine"       -> One(Alpine!CreateProposedEntry(version, props, now))
       [] kind = "cose"         -> One(Cose!CreateProposedEntry(version, props, now))
       [] kind = "dsse"         -> One(Dsse!CreateProposedEntry(version, props, now))
       [] kind = "hashedrekord" -> One(HashedRekord!CreateProposedEntry(version, props, now))
       [] kind = "helm"         -> One(Helm!CreateProposedEntry(version, props, now))
       [] kind = "intoto"       -> IntotoCreateProposedEntry(version, props, now)
       [] kind = "jar"          -> One(Jar!CreateProposedEntry(version, props, now))
       [] kind = "rekord"       -> One(Rekord!CreateProposedEntry(version, props, now))
       [] kind = "rfc3161"      -> One(Rfc3161!CreateProposedEntry(version, props, now))
       [] kind = "rpm"          -> One(Rpm!CreateProposedEntry(version, props, now))
       [] kind = "tuf"          -> One(Tuf!CreateProposedEntry(version, props, now))
       [] OTHER                 -> {}
=============================================================================
