------------------------ MODULE IndexMigrationProofs ------------------------
(***************************************************************************)
(* What is lost when the index moves, and that nothing else is, for any    *)
(* servers, keys, IDs, sizes of batches, copies and cleanups.              *)
(***************************************************************************)
EXTENDS IndexMigration, TLAPS

InMySQL(e) == e[2] \in LookupMySQL(e[1])

\* Every variable the argument is about has its type.
Types ==
  /\ redis \in [Keys -> SUBSET IDs]
  /\ written \subseteq Keys \X IDs
  /\ pending \subseteq written /\ settled \subseteq written
  /\ cursorEnd \in BOOLEAN
  /\ copier \in {"off", "scan", "range", "insert"}
  /\ cleaner \in {"off", "rows"}

\* An entry that no cleanup has exposed is in one of the stores, and in MySQL after a
\* complete copy.
Stored ==
  \A e \in written \ exposed : /\ InMySQL(e) \/ e[2] \in redis[Lower[e[1]]]
                               /\ e \in settled => InMySQL(e)

\* What cleanup-index is about to delete under the key of such an entry, it may.
Covered ==
  /\ cleaner = "off" => rows = {}
  /\ \A e \in written \ exposed : (\E l \in rows : SameKey(e[1], l)) => InMySQL(e)

\* What copy-index still has to insert of an entry: its list is yet to be returned by
\* SCAN or to be read, or the entry is in the part of the list that was read.
Ahead(e) ==
  \/ Lower[e[1]] \in unseen
  \/ Lower[e[1]] \in batch
  \/ copier = "insert" /\ key = Lower[e[1]] /\ e[2] \in uuids

\* While it runs, an entry indexed before it began is in MySQL or ahead of it.
OnTheWay ==
  /\ copier # "off" => \A e \in pending \ exposed : InMySQL(e) \/ Ahead(e)
  /\ cursorEnd /\ copier \in {"range", "insert"} => unseen = {}

\* The local variables of copy-index: a batch is read to its end before the next SCAN.
Local ==
  /\ batch \subseteq Keys /\ uuids \subseteq IDs
  /\ copier \in {"off", "scan"} => batch = {}
  /\ copier = "insert" => key \in Keys

IndInv == Types /\ Stored /\ Covered /\ OnTheWay /\ Local

\* An insertion keeps every row, and its ID is found under every key that differs from
\* the inserted one in case only.
LEMMA InsertIgnoreFound ==
  ASSUME NEW k \in Keys, NEW id \in IDs, mysql' = InsertIgnore(mysql, k, id)
  PROVE  /\ \A e \in Keys \X IDs : InMySQL(e) => InMySQL(e)'
         /\ \A l \in Keys : SameKey(k, l) => id \in LookupMySQL(l)'
<1>1. mysql \subseteq mysql'
  BY DEF InsertIgnore
<1>2. \E row \in mysql' : SameKey(row[1], k) /\ row[2] = id
  <2>1. CASE \E row \in mysql : SameKey(row[1], k) /\ row[2] = id
    BY <1>1, <2>1
  <2>2. CASE ~\E row \in mysql : SameKey(row[1], k) /\ row[2] = id
    <3>1. <<k, id>> \in mysql'
      BY <2>2 DEF InsertIgnore
    <3> QED
      BY <3>1 DEF SameKey
  <2> QED
    BY <2>1, <2>2
<1>3. \A l \in Keys : LookupMySQL(l) \subseteq LookupMySQL(l)'
  BY <1>1 DEF LookupMySQL
<1>4. \A l \in Keys : SameKey(k, l) => id \in LookupMySQL(l)'
  BY <1>2 DEF LookupMySQL, SameKey
<1> QED
  BY <1>3, <1>4 DEF InMySQL

\* Before the copy everything written is in Redis only.
LEMMA InitInv == Init => IndInv
<1> SUFFICES ASSUME Init PROVE IndInv
  OBVIOUS
<1>1. Types
  BY DEF Init, Types
<1>2. Stored
  BY DEF Init, Stored
<1>3. Covered /\ OnTheWay /\ Local
  BY DEF Init, Covered, OnTheWay, Local
<1> QED
  BY <1>1, <1>2, <1>3 DEF IndInv

\* A server writes to Redis, also while the tools run.
LEMMA WriteInv ==
  ASSUME IndInv, NEW s \in Servers, NEW k \in Keys, NEW id \in IDs, WriteIndex(s, k, id)
  PROVE  IndInv'
<1>1. /\ written' = written \cup {<<k, id>>} /\ UNCHANGED <<provider, copy, cleaner, rows>>
      /\ <<k, id>> \notin written
  BY DEF WriteIndex
<1>2. Lower[k] \in Keys
  BY LowerAssumption
<1>3. CASE provider[s] = "redis"
  <2>1. /\ redis' = [redis EXCEPT ![Lower[k]] = @ \cup {id}] /\ mysql' = mysql
        /\ exposed' = exposed \cup Threatened({<<k, id>>}, rows)
    BY <1>3 DEF WriteIndex
  <2>2. \A e : InMySQL(e)' = InMySQL(e)
    BY <2>1 DEF InMySQL, LookupMySQL
  <2>3. \A l \in Keys : redis[l] \subseteq redis'[l]
    BY <2>1 DEF IndInv, Types
  <2>4. id \in redis'[Lower[k]]
    BY <1>2, <2>1 DEF IndInv, Types
  <2>5. Types'
    <3>1. redis' \in [Keys -> SUBSET IDs]
      <4>1. redis[Lower[k]] \cup {id} \in SUBSET IDs
        BY <1>2 DEF IndInv, Types
      <4> QED
        BY <2>1, <4>1 DEF IndInv, Types
    <3> QED
      BY <1>1, <3>1 DEF IndInv, Types, copy
  <2>6. \A e \in written' \ exposed' : e \in written \ exposed \/ e = <<k, id>>
    BY <1>1, <2>1
  <2>7. Stored'
    <3> SUFFICES ASSUME NEW e \in written' \ exposed'
                 PROVE  /\ InMySQL(e) \/ e[2] \in redis'[Lower[e[1]]]
                        /\ e \in settled => InMySQL(e)
      BY <1>1, <2>2 DEF Stored, copy
    <3>1. CASE e \in written \ exposed
      BY <2>3, <3>1, LowerAssumption DEF IndInv, Types, Stored
    <3>2. CASE e = <<k, id>>
      BY <1>1, <2>4, <3>2 DEF IndInv, Types
    <3> QED
      BY <2>6, <3>1, <3>2
  <2>8. Covered'
    <3>1. <<k, id>> \in written' \ exposed' => ~\E l \in rows : SameKey(k, l)
      BY <2>1 DEF Threatened
    <3> QED
      BY <1>1, <2>2, <2>6, <3>1 DEF IndInv, Covered
  <2>9. OnTheWay'
    BY <1>1, <2>1, <2>2 DEF IndInv, OnTheWay, Ahead, copy
  <2> QED
    BY <1>1, <2>5, <2>7, <2>8, <2>9 DEF IndInv, Local, copy
<1>4. CASE provider[s] # "redis"
  <2>1. mysql' = InsertIgnore(mysql, k, id) /\ redis' = redis /\ exposed' = exposed
    BY <1>4 DEF WriteIndex
  <2>2. \A e \in written : InMySQL(e) => InMySQL(e)'
    BY <2>1, InsertIgnoreFound DEF IndInv, Types
  <2>3. InMySQL(<<k, id>>)'
    BY <2>1, InsertIgnoreFound DEF InMySQL, SameKey
  <2>4. \A e \in written' \ exposed' : InMySQL(e)' \/ (e \in written \ exposed /\ ~InMySQL(e))
    BY <1>1, <2>1, <2>2, <2>3
  <2>5. Types'
    BY <1>1, <2>1 DEF IndInv, Types, copy
  <2>6. Stored'
    BY <1>1, <2>1, <2>4 DEF IndInv, Stored, copy
  <2>7. Covered'
    BY <1>1, <2>1, <2>4 DEF IndInv, Covered
  <2>8. OnTheWay'
    BY <1>1, <2>1, <2>2 DEF IndInv, Types, OnTheWay, Ahead, copy
  <2> QED
    BY <1>1, <2>5, <2>6, <2>7, <2>8 DEF IndInv, Local, copy
<1> QED
  BY <1>3, <1>4

\* A step that leaves the table alone loses no entry of it.
LEMMA SameMySQL ==
  ASSUME UNCHANGED mysql
  PROVE  \A e : InMySQL(e)' = InMySQL(e)
BY DEF InMySQL, LookupMySQL

\* The steps of copy-index, one lemma for each.
LEMMA StartCopyInv ==
  ASSUME IndInv, StartCopy
  PROVE  IndInv'
<1> USE DEF copy, cleanup
<1>1. \A e : InMySQL(e)' = InMySQL(e)
  BY SameMySQL DEF StartCopy
<1>2. \A e \in written \ exposed : InMySQL(e) \/ Lower[e[1]] \in unseen'
  BY LowerAssumption DEF StartCopy, IndInv, Types, Stored, Lists
<1>3. Types' /\ Stored' /\ Covered' /\ Local'
  BY <1>1 DEF StartCopy, IndInv, Types, Stored, Covered, Local
<1>4. OnTheWay'
  BY <1>1, <1>2 DEF StartCopy, OnTheWay, Ahead
<1> QED
  BY <1>3, <1>4 DEF IndInv

\* A page of SCAN takes keys that are still to be read.
LEMMA ScanInv ==
  ASSUME IndInv, getIndexKeys
  PROVE  IndInv'
<1> USE DEF copy, cleanup
<1>1. \A e : InMySQL(e)' = InMySQL(e)
  BY SameMySQL DEF getIndexKeys
<1>2. Types'
  BY DEF getIndexKeys, IndInv, Types
<1>3. Stored' /\ Covered'
  BY <1>1 DEF getIndexKeys, IndInv, Stored, Covered
<1>4. Local'
  BY DEF getIndexKeys, IndInv, Local, Lists
<1>5. \A e \in pending : Ahead(e) => Ahead(e)'
  <2>1. unseen \subseteq unseen' \cup batch'
    BY DEF getIndexKeys
  <2>2. batch = {} /\ copier = "scan"
    BY DEF getIndexKeys, IndInv, Local
  <2> QED
    BY <2>1, <2>2 DEF Ahead
<1>6. OnTheWay'
  BY <1>1, <1>5 DEF getIndexKeys, IndInv, OnTheWay
<1> QED
  BY <1>2, <1>3, <1>4, <1>6 DEF IndInv

\* LRANGE: the list of a key is read as it is; after the last one the next SCAN, or
\* the end, and then everything indexed before the copy is in MySQL.
LEMMA RangeInv ==
  ASSUME IndInv, getUUIDsForKey
  PROVE  IndInv'
<1> USE DEF copy, cleanup
<1>1. \A e : InMySQL(e)' = InMySQL(e)
  BY SameMySQL DEF getUUIDsForKey
<1>2. copier = "range" /\ UNCHANGED <<redis, mysql, provider, written, cleanup>>
  BY DEF getUUIDsForKey
<1>3. ASSUME NEW k \in batch, key' = k, batch' = batch \ {k}, uuids' = redis[k],
             copier' = "insert", UNCHANGED <<pending, settled, cursorEnd, unseen>>
      PROVE  IndInv'
  <2>1. Types' /\ Stored' /\ Covered' /\ Local'
    BY <1>1, <1>2, <1>3 DEF IndInv, Types, Stored, Covered, Local
  <2>2. \A e \in pending \ exposed : Ahead(e) => InMySQL(e) \/ Ahead(e)'
    BY <1>2, <1>3 DEF IndInv, Types, Stored, Ahead
  <2>3. OnTheWay'
    BY <1>1, <1>2, <1>3, <2>2 DEF IndInv, OnTheWay
  <2> QED
    BY <2>1, <2>3 DEF IndInv
<1>4. ASSUME batch = {}, ~cursorEnd, copier' = "scan",
             UNCHANGED <<pending, settled, cursorEnd, unseen, key, batch, uuids>>
      PROVE  IndInv'
  <2>1. Types' /\ Stored' /\ Covered' /\ Local'
    BY <1>1, <1>2, <1>4 DEF IndInv, Types, Stored, Covered, Local
  <2>2. OnTheWay'
    BY <1>1, <1>2, <1>4 DEF IndInv, OnTheWay, Ahead
  <2> QED
    BY <2>1, <2>2 DEF IndInv
<1>5. ASSUME batch = {}, cursorEnd, settled' = settled \cup pending, Exit
      PROVE  IndInv'
  <2>1. \A e \in pending \ exposed : InMySQL(e)
    BY <1>2, <1>5 DEF IndInv, OnTheWay, Ahead
  <2>2. Types' /\ Covered' /\ Local'
    BY <1>1, <1>2, <1>5 DEF IndInv, Types, Covered, Local, Exit
  <2>3. Stored'
    BY <1>1, <1>2, <1>5, <2>1 DEF IndInv, Stored
  <2>4. OnTheWay'
    BY <1>5 DEF OnTheWay, Exit
  <2> QED
    BY <2>2, <2>3, <2>4 DEF IndInv
<1> QED
  BY <1>3, <1>4, <1>5 DEF getUUIDsForKey

\* A list is in MySQL before its key counts as copied.
LEMMA InsertInv ==
  ASSUME IndInv, idempotentAddToIndex
  PROVE  IndInv'
<1> USE DEF copy, cleanup
<1>1. /\ copier = "insert"
      /\ UNCHANGED <<redis, provider, written, pending, settled, cursorEnd, unseen, batch, cleanup>>
  BY DEF idempotentAddToIndex
<1>2. key \in Keys /\ uuids \subseteq IDs
  BY <1>1 DEF IndInv, Local
<1>3. ASSUME NEW id \in uuids, mysql' = InsertIgnore(mysql, key, id),
             uuids' = uuids \ {id}, UNCHANGED <<copier, key>>
      PROVE  IndInv'
  <2>1. \A e \in written : InMySQL(e) => InMySQL(e)'
    BY <1>2, <1>3, InsertIgnoreFound DEF IndInv, Types
  <2>2. \A e \in written : key = Lower[e[1]] /\ e[2] = id => InMySQL(e)'
    <3>1. \A l \in Keys : SameKey(key, l) => id \in LookupMySQL(l)'
      BY <1>2, <1>3, InsertIgnoreFound
    <3>2. \A e \in written : key = Lower[e[1]] => e[1] \in Keys /\ SameKey(key, e[1])
      BY LowerAssumption DEF IndInv, Types, SameKey
    <3> QED
      BY <3>1, <3>2 DEF InMySQL
  <2>3. Types' /\ Stored' /\ Local'
    BY <1>1, <1>3, <2>1 DEF IndInv, Types, Stored, Local
  <2>4. Covered'
    BY <1>1, <2>1 DEF IndInv, Covered
  <2>5. \A e \in pending : e \in written /\ (Ahead(e) => InMySQL(e)' \/ Ahead(e)')
    BY <1>1, <1>3, <2>2 DEF IndInv, Types, Ahead
  <2>6. OnTheWay'
    BY <1>1, <1>3, <2>1, <2>5 DEF IndInv, OnTheWay
  <2> QED
    BY <2>3, <2>4, <2>6 DEF IndInv
<1>4. ASSUME uuids = {}, copier' = "range", UNCHANGED <<mysql, uuids>>
      PROVE  IndInv'
  <2>1. \A e : InMySQL(e)' = InMySQL(e)
    BY <1>4, SameMySQL
  <2>2. Types' /\ Stored' /\ Covered' /\ Local'
    BY <1>1, <1>4, <2>1 DEF IndInv, Types, Stored, Covered, Local
  <2>3. OnTheWay'
    BY <1>1, <1>4, <2>1 DEF IndInv, OnTheWay, Ahead
  <2> QED
    BY <2>2, <2>3 DEF IndInv
<1> QED
  BY <1>3, <1>4 DEF idempotentAddToIndex

\* A copy that stops leaves Redis as it was.
LEMMA CopyFailsInv ==
  ASSUME IndInv, CopyFails
  PROVE  IndInv'
<1> USE DEF copy, cleanup
<1>1. \A e : InMySQL(e)' = InMySQL(e)
  BY SameMySQL DEF CopyFails
<1>2. Types' /\ Stored' /\ Covered' /\ Local'
  BY <1>1 DEF CopyFails, Exit, IndInv, Types, Stored, Covered, Local
<1>3. OnTheWay'
  BY DEF CopyFails, Exit, OnTheWay
<1> QED
  BY <1>2, <1>3 DEF IndInv

\* The steps of cleanup-index: what it deletes is in MySQL or exposed.
LEMMA CleanupInv ==
  ASSUME IndInv, StartCleanup \/ removeFromRedis \/ EndCleanup
  PROVE  IndInv'
<1> USE DEF copy, cleanup
<1>1. \A e : InMySQL(e)' = InMySQL(e)
  BY SameMySQL DEF StartCleanup, removeFromRedis, EndCleanup
<1>2. CASE StartCleanup
  <2>1. /\ UNCHANGED <<redis, mysql, provider, written, copy>> /\ exposed \subseteq exposed'
        /\ exposed' = exposed \cup Threatened(written \ settled, rows') /\ cleaner' = "rows"
    BY <1>2 DEF StartCleanup
  <2>2. Types' /\ Stored' /\ Local'
    BY <1>1, <2>1 DEF IndInv, Types, Stored, Local
  <2>3. Covered'
    <3> SUFFICES ASSUME NEW e \in written \ exposed', NEW l \in rows', SameKey(e[1], l)
                 PROVE  InMySQL(e)
      BY <1>1, <2>1 DEF Covered
    <3>1. e \in settled
      BY <2>1 DEF Threatened
    <3> QED
      BY <2>1, <3>1 DEF IndInv, Stored
  <2>4. OnTheWay'
    BY <1>1, <2>1 DEF IndInv, OnTheWay, Ahead
  <2> QED
    BY <2>2, <2>3, <2>4 DEF IndInv
<1>3. CASE removeFromRedis
  <2>1. UNCHANGED <<mysql, provider, written, pending, settled, exposed, copier, cursorEnd,
                    batch, key, uuids, cleaner>>
    BY <1>3 DEF removeFromRedis
  <2>2. PICK ks \in SUBSET rows :
          /\ redis' = [k \in Keys |-> IF \E l \in ks : k = Lower[l] THEN {} ELSE redis[k]]
          /\ unseen' = {k \in unseen : redis'[k] # {}}
          /\ rows' = rows \ ks
    BY <1>3 DEF removeFromRedis
  <2>3. ASSUME NEW e \in written \ exposed, ~InMySQL(e)
        PROVE  redis'[Lower[e[1]]] = redis[Lower[e[1]]] /\ Lower[e[1]] \in Keys
    <3>1. ~\E l \in ks : Lower[e[1]] = Lower[l]
      BY <2>3 DEF IndInv, Covered, SameKey
    <3> QED
      BY <2>2, <3>1, LowerAssumption DEF IndInv, Types
  <2>4. Types' /\ Local'
    BY <2>1, <2>2 DEF IndInv, Types, Local
  <2>5. Stored'
    BY <1>1, <2>1, <2>3 DEF IndInv, Stored
  <2>6. Covered'
    BY <1>1, <1>3, <2>1, <2>2 DEF removeFromRedis, IndInv, Covered
  <2>7. OnTheWay'
    <3>1. \A e \in pending \ exposed : Ahead(e) => InMySQL(e) \/ Ahead(e)'
      <4> SUFFICES ASSUME NEW e \in pending \ exposed, Ahead(e), ~InMySQL(e) PROVE Ahead(e)'
        OBVIOUS
      <4>1. e \in written \ exposed /\ e[2] \in redis[Lower[e[1]]]
        BY DEF IndInv, Types, Stored
      <4>2. redis'[Lower[e[1]]] # {}
        BY <2>3, <4>1
      <4> QED
        BY <2>1, <2>2, <4>2 DEF Ahead
    <3>2. unseen' \subseteq unseen
      BY <2>2
    <3> QED
      BY <1>1, <2>1, <3>1, <3>2 DEF IndInv, OnTheWay
  <2> QED
    BY <2>4, <2>5, <2>6, <2>7 DEF IndInv
<1>4. CASE EndCleanup
  <2>1. /\ UNCHANGED <<redis, mysql, provider, written, exposed, copy>>
        /\ cleaner' = "off" /\ rows' = {}
    BY <1>4 DEF EndCleanup
  <2>2. Types' /\ Stored' /\ Covered' /\ Local'
    BY <1>1, <2>1 DEF IndInv, Types, Stored, Covered, Local
  <2>3. OnTheWay'
    BY <1>1, <2>1 DEF IndInv, OnTheWay, Ahead
  <2> QED
    BY <2>2, <2>3 DEF IndInv
<1> QED
  BY <1>2, <1>3, <1>4

\* A step that touches neither the stores nor the tools, such as the restart of a
\* server with MySQL.
LEMMA FrameInv ==
  ASSUME IndInv, UNCHANGED <<redis, mysql, written, copy, cleanup>>
  PROVE  IndInv'
<1> USE DEF copy, cleanup
<1>1. \A e : InMySQL(e)' = InMySQL(e)
  BY SameMySQL
<1>2. Types' /\ Stored' /\ Local'
  BY <1>1 DEF IndInv, Types, Stored, Local
<1>3. Covered'
  BY <1>1 DEF IndInv, Covered
<1>4. OnTheWay'
  BY <1>1 DEF IndInv, OnTheWay, Ahead
<1> QED
  BY <1>2, <1>3, <1>4 DEF IndInv

\* The inductive invariant holds for every set of servers, keys and IDs.
THEOREM Invariance == Spec => []IndInv
<1>1. IndInv /\ [Next]_vars => IndInv'
  <2> SUFFICES ASSUME IndInv, [Next]_vars PROVE IndInv'
    OBVIOUS
  <2>1. CASE \E s \in Servers : Reconfigure(s) \/ \E k \in Keys, id \in IDs : WriteIndex(s, k, id)
    BY <2>1, WriteInv, FrameInv DEF Reconfigure
  <2>2. CASE StartCopy \/ getIndexKeys \/ getUUIDsForKey \/ idempotentAddToIndex \/ CopyFails
    BY <2>2, StartCopyInv, ScanInv, RangeInv, InsertInv, CopyFailsInv
  <2>3. CASE StartCleanup \/ removeFromRedis \/ EndCleanup
    BY <2>3, CleanupInv
  <2>4. CASE UNCHANGED vars
    BY <2>4, FrameInv DEF vars
  <2> QED
    BY <2>1, <2>2, <2>3, <2>4 DEF Next
<1> QED
  BY InitInv, <1>1, PTL DEF Spec

\* An indexed entry is found through every interleaving of writes, copies that are
\* interrupted or see a list twice, and cleanups that end halfway, unless a cleanup has
\* taken its key before a complete copy covered it (doCopy of copy-index,
\* batchQueryAndDelete of cleanup-index).
THEOREM NothingLostHolds == Spec => []NothingLost
<1>1. IndInv => NothingLost
  BY DEF IndInv, Stored, NothingLost, InMySQL, LookupRedis
<1> QED
  BY Invariance, <1>1, PTL
=============================================================================
