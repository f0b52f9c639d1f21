---------------------------- MODULE SignedNotes ----------------------------
(***************************************************************************)
(* Checkpoints, the signed notes they are sent in, and the checks that     *)
(* clients make of an entry (pkg/util and pkg/verify).  A note is a text,  *)
(* here a sequence of lines, and is parsed again by everyone who uses it.  *)
(* A tree is known by the sequence of its leaf hashes, which stands for    *)
(* its root; a signature is a record of who signed what.                   *)
(***************************************************************************)
EXTENDS Integers, Sequences, SequencesExt

Signature(k, m) == [by |-> k, over |-> m]

\* Four bytes of the digest of the key, which tell the keys of a log apart.
getPublicKeyHash(k) == <<"hint", k>>
LogID(k) == <<"logID", k>>
----------------------------------------------------------------------------
(* Lines of a note.  Parsers have the empty set for what they reject.       *)

Blank == <<"blank">>
SignatureLine(s) == <<"signature", s>>

MarshalCheckpoint(c) ==
    <<<<"origin", c.origin>>, <<"size", c.size>>, <<"hash", c.hash>>>> \o c.other

\* What follows the first empty line is left out.
UnmarshalCheckpoint(text) ==
    LET end == SelectInSeq(text, LAMBDA l : l = Blank)
        other == SubSeq(text, 4, IF end = 0 THEN Len(text) ELSE end - 1)
    IN  IF Len(text) < 3 \/ \E i \in 1 .. 3 : text[i][1] # <<"origin", "size", "hash">>[i] THEN {}
        ELSE {[origin |-> text[1][2], size |-> text[2][2], hash |-> text[3][2], other |-> other]}

MarshalText(s) ==
    s.note \o <<Blank>> \o [i \in DOMAIN s.signatures |-> SignatureLine(s.signatures[i])]

\* The note is all that is before the last empty line.
UnmarshalText(lines) ==
    LET split == SelectLastInSeq(lines, LAMBDA l : l = Blank)
        sigs == SubSeq(lines, split + 1, Len(lines))
    IN  IF split = 0 \/ sigs = << >> \/ \E i \in DOMAIN sigs : sigs[i][1] # "signature" THEN {}
        ELSE {[note |-> SubSeq(lines, 1, split - 1),
               signatures |-> [i \in DOMAIN sigs |-> sigs[i][2]]]}

\* SignedCheckpoint.UnmarshalText
UnmarshalSignedCheckpoint(lines) ==
    UNION {{[checkpoint |-> c, signed |-> s] : c \in UnmarshalCheckpoint(s.note)} :
             s \in UnmarshalText(lines)}
----------------------------------------------------------------------------
Sign(s, identity, k) ==
    [note |-> s.note,
     signatures |-> Append(s.signatures, [name |-> identity, hash |-> getPublicKeyHash(k),
                                          sig |-> Signature(k, s.note)])]

\* The first signature with the hint of the key decides.
Verify(s, k) ==
    LET i == SelectInSeq(s.signatures, LAMBDA sig : sig.hash = getPublicKeyHash(k))
    IN  i # 0 /\ s.signatures[i].sig = Signature(k, s.note)

VerifyAll(s, keys) == keys # << >> /\ \A i \in DOMAIN keys : Verify(s, keys[i])

CreateSignedCheckpoint(c) == [note |-> MarshalCheckpoint(c), signatures |-> << >>]

\* The text of a checkpoint that every signer has signed.
CreateAndSignCheckpointMultiple(hostname, treeID, root, keys) ==
    LET c == [origin |-> <<hostname, treeID>>, size |-> Len(root), hash |-> root, other |-> << >>]
        signed[i \in 0 .. Len(keys)] ==
            IF i = 0 THEN CreateSignedCheckpoint(c) ELSE Sign(signed[i - 1], hostname, keys[i])
    IN  MarshalText(signed[Len(keys)])
----------------------------------------------------------------------------
(* Entries and their verification.                                          *)

\* What a signed entry timestamp is a signature of.
Bundle(e) == [body |-> e.body, logIndex |-> e.logIndex, logID |-> e.logID]

signEntryMultiple(keys, e) == [i \in DOMAIN keys |-> Signature(keys[i], Bundle(e))]

\* The hashes of an inclusion proof are those of everything but the leaf.
VerifyMerkle(index, size, leaf, hashes, root) ==
    /\ index < size /\ size = Len(hashes)
    /\ [hashes EXCEPT ![index + 1] = leaf] = root

VerifyInclusion(e) ==
    LET p == e.inclusionProof
    IN  VerifyMerkle(p.logIndex, p.treeSize, e.body, p.hashes, p.rootHash)

VerifyCheckpointSignature(e, k) ==
    \E sth \in UnmarshalSignedCheckpoint(e.inclusionProof.checkpoint) :
        Verify(sth.signed, k) /\ sth.checkpoint.hash = e.inclusionProof.rootHash

VerifySignedEntryTimestamp(e, k) == e.signedEntryTimestamp = Signature(k, Bundle(e))

VerifyLogEntry(e, k) ==
    VerifyInclusion(e) /\ VerifyCheckpointSignature(e, k) /\ VerifySignedEntryTimestamp(e, k)
=============================================================================
