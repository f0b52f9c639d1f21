----------------------------- MODULE HelmEntry -----------------------------
(* The helm type, v0.0.1: a chart's provenance file, clear-signed with PGP.*)
(* A provenance document has the text that is signed, in which are the     *)
(* checksums of the chart's files, and the PGP signature.                  *)
EXTENDS EntryBase

---------------------------------------------------------------------------
(* The proposed entry that carries the schema object as its spec.          *)

UnmarshalJSON(doc) ==
  IF doc.kind = "helm" THEN {[kind |-> "helm", apiVersion |-> doc.apiVersion, spec |-> doc.spec]} ELSE {}

MarshalJSON(apiVersion, spec) == [kind |-> "helm", apiVersion |-> apiVersion, spec |-> spec]

ValidateProposed(pe) == pe.apiVersion \in SemVers /\ pe.spec # Nil

---------------------------------------------------------------------------
(* The schema.                                                             *)

ValidHash(h) == h.algorithm = "sha256" /\ h.value # Nil

ValidProvenanceSignature(s) == s.content # Nil

ValidProvenance(p) == Optional(p.signature, ValidProvenanceSignature)

ValidChart(c) == Optional(c.hash, ValidHash) /\ Required(c.provenance, ValidProvenance)

ValidPublicKey(k) == k.content # Nil

ValidSchema(v) == Required(v.chart, ValidChart) /\ Required(v.publicKey, ValidPublicKey)

---------------------------------------------------------------------------
(* Provenance files.                                                       *)

\* A clear-signed block of two parts; parts says whether it has them.
UnmarshalProvenance(d) ==
  IF d # Nil /\ d.fmt = "provenance" /\ d.parts THEN {d} ELSE {}

\* The checksum of some file: the files are in a map.
GetChartAlgorithmHash(p) ==
  {[algorithm |-> h.alg, value |-> h] : h \in {h \in p.text.files : IsHex(h)}}

---------------------------------------------------------------------------
(* The entry.                                                              *)

DecodeEntry(spec) ==
  LET Key(k) == {[content |-> c] : c \in DecodeBytes(k.content)}
      Sig(s) == {[content |-> c] : c \in DecodeBytes(s.content)}
      Provenance(p) == {[content |-> c, signature |-> s] :
                          c \in DecodeBytes(p.content), s \in Member(p.signature, Sig)}
      Chart(c) == {[hash |-> c.hash, provenance |-> p] : p \in Member(c.provenance, Provenance)}
  IN {[publicKey |-> k, chart |-> c] :
        k \in Member(spec.publicKey, Key), c \in Member(spec.chart, Chart)}

validate(v) ==
  /\ v.publicKey # Nil /\ v.publicKey.content # Nil
  /\ v.chart # Nil /\ v.chart.provenance # Nil
  /\ \/ v.chart.provenance.signature # Nil /\ v.chart.provenance.signature.content # Nil
     \/ v.chart.provenance.content # Nil

Unmarshal(pe) == {v \in DecodeEntry(pe.spec) : ValidSchema(v) /\ validate(v)}

Insertable(v) ==
  /\ v.publicKey # Nil /\ v.publicKey.content # Nil
  /\ v.chart # Nil /\ v.chart.provenance # Nil /\ v.chart.provenance.content # Nil

fetchExternalEntities(v, now) ==
  LET ps == UnmarshalProvenance(v.chart.provenance.content)
      Entities(p) == {[provenance |-> p, key |-> k, sig |-> s] :
                        k \in PgpNewPublicKey(v.publicKey.content), s \in PgpNewSignature(p.signature)}
  IN {e \in UNION {Entities(p) : p \in ps} : validate(v) /\ PgpVerify(e.sig, e.provenance.text, e.key)}

\* The checksum is what the file says, whatever its algorithm.  The entry is
\* left as it was proposed.
Canonicalize(v, now) ==
  LET Forms(e) == {[publicKey |-> [content |-> k],
                    chart |-> [hash |-> h,
                               provenance |-> [content |-> Nil, signature |-> [content |-> s]]]] :
                     k \in PgpKeyCanonicalValue(e.key), s \in PgpSigCanonicalValue(e.sig),
                     h \in GetChartAlgorithmHash(e.provenance)}
  IN {[leaf |-> MarshalJSON("0.0.1", c), entry |-> v] :
        c \in UNION {Forms(e) : e \in fetchExternalEntities(v, now)}}

\* The provenance file is needed, which an entry of the log does not have.
IndexKeys(v, now) ==
  LET Hash(p) == IF GetChartAlgorithmHash(p) = {} THEN {{}}
                 ELSE {{HashKey(h.algorithm, h.value)} : h \in GetChartAlgorithmHash(p)}
      Keys(k, p) == {{BytesKey(c)} \cup NameKeys(PgpSubjects(k)) \cup h :
                       c \in PgpKeyCanonicalValue(k), h \in Hash(p)}
  IN UNION {UNION {Keys(k, p) : p \in UnmarshalProvenance(v.chart.provenance.content)} :
              k \in PgpNewPublicKey(v.publicKey.content)}

Verifiers(v, now) == PgpNewPublicKey(v.publicKey.content)

ArtifactHash(v) ==
  IF v.chart.hash = Nil THEN {} ELSE {HashKey(v.chart.hash.algorithm, v.chart.hash.value)}

CreateFromArtifactProperties(props, now) ==
  IF props.artifact = Nil \/ Len(props.publicKeys) # 1 THEN {}
  ELSE LET v == [publicKey |-> [content |-> props.publicKeys[1]],
                 chart |-> [hash |-> Nil,
                            provenance |-> [content |-> props.artifact, signature |-> Nil]]]
       IN {[kind |-> "helm", apiVersion |-> "0.0.1", spec |-> v] :
             e \in fetchExternalEntities(v, now)}

---------------------------------------------------------------------------
(* The type.                                                               *)

UnmarshalEntry(pe) ==
  IF pe.kind = "helm" /\ pe.apiVersion # Nil /\ SemVerMatches("0.0.1", pe.apiVersion)
  THEN Unmarshal(pe) ELSE {}

CreateProposedEntry(version, props, now) ==
  IF version = AnyVersion \/ SemVerMatches("0.0.1", version)
  THEN CreateFromArtifactProperties(props, now) ELSE {}
=============================================================================
