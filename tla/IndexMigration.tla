--------------------------- MODULE IndexMigration ---------------------------
(***************************************************************************)
(* Moving the search index from Redis to MySQL: copy-index reads all lists *)
(* of Redis and inserts their entries into the table, cleanup-index reads  *)
(* the keys of the table and deletes them from Redis.  Servers write and   *)
(* look up the index in the provider they are configured with.  Nothing    *)
(* keeps an operator from running the two tools in any order, side by side *)
(* and while servers still write to Redis.                                 *)
(*                                                                         *)
(* Keys are compared without case by MySQL's default collation; Redis      *)
(* compares bytes, and its provider lowers them.                           *)
(***************************************************************************)
EXTENDS Naturals, FiniteSets

CONSTANTS Servers,
          Keys,      \* index keys
          Lower,     \* strings.ToLower on them
          IDs,       \* entry IDs
          BatchSize  \* keys that cleanup-index deletes at once

ASSUME LowerAssumption ==
  Lower \in [Keys -> Keys] /\ \A k \in Keys : Lower[Lower[k]] = Lower[k]
ASSUME BatchAssumption == BatchSize \in Nat \ {0}

VARIABLES
  redis,     \* redis[k]: the IDs in the list of k
  mysql,     \* rows <<k, id>> of EntryIndex
  provider,  \* provider[s]: "redis" or "mysql"
  written,   \* history: <<k, id>> that servers have indexed
  pending,   \* history: those indexed when copy-index was started
  settled,   \* history: those indexed before a copy-index that has completed
  exposed,   \* history: those that were not settled when a cleanup-index that
             \*   was to delete their key had read the table
  copier,    \* where copy-index is: "off", "scan", "range", "insert"
  cursorEnd, \* the last SCAN returned cursor 0
  unseen,    \* external: keys that SCAN has to return before its end
  batch,     \* keys of the last SCAN that are still to be copied
  key,       \* the key that is copied
  uuids,     \* the IDs of it that are still to be inserted
  cleaner,   \* where cleanup-index is: "off", "rows"
  rows       \* keys of the table that are still to be deleted from Redis

copy == <<pending, settled, copier, cursorEnd, unseen, batch, key, uuids>>
cleanup == <<exposed, cleaner, rows>>
vars == <<redis, mysql, provider, written, copy, cleanup>>

---------------------------------------------------------------------------
(* Servers.                                                                *)

SameKey(k, l) == Lower[k] = Lower[l]

\* A row with an equal key and ID is ignored.
InsertIgnore(table, k, id) ==
  IF \E row \in table : SameKey(row[1], k) /\ row[2] = id THEN table ELSE table \cup {<<k, id>>}

LookupRedis(k) == redis[Lower[k]]
LookupMySQL(k) == {row[2] : row \in {row \in mysql : SameKey(row[1], k)}}

\* Entries whose key is among those that cleanup-index is about to delete.
Threatened(entries, ks) == {e \in entries : \E l \in ks : SameKey(e[1], l)}

WriteIndex(s, k, id) ==
  /\ <<k, id>> \notin written
  /\ written' = written \cup {<<k, id>>}
  /\ IF provider[s] = "redis"
     THEN /\ redis' = [redis EXCEPT ![Lower[k]] = @ \cup {id}]
          /\ exposed' = exposed \cup Threatened({<<k, id>>}, rows)
          /\ UNCHANGED mysql
     ELSE mysql' = InsertIgnore(mysql, k, id) /\ UNCHANGED <<redis, exposed>>
  /\ UNCHANGED <<provider, copy, cleaner, rows>>

\* The server is restarted with the other provider.
Reconfigure(s) ==
  /\ provider[s] = "redis"
  /\ provider' = [provider EXCEPT ![s] = "mysql"]
  /\ UNCHANGED <<redis, mysql, written, copy, cleanup>>

---------------------------------------------------------------------------
(* copy-index.  A list without elements does not exist in Redis.           *)

Lists == {k \in Keys : redis[k] # {}}

SomeKey == CHOOSE k \in Keys : Lower[k] = k

\* The process is gone.
Exit ==
  /\ copier' = "off" /\ cursorEnd' = FALSE
  /\ pending' = {} /\ unseen' = {} /\ batch' = {} /\ uuids' = {} /\ key' = SomeKey

StartCopy ==
  /\ copier = "off"
  /\ copier' = "scan"
  /\ pending' = written
  /\ unseen' = Lists
  /\ cursorEnd' = FALSE
  /\ UNCHANGED <<redis, mysql, provider, written, settled, batch, key, uuids, cleanup>>

\* Mutant: an empty batch is taken for the end of the scan.
getIndexKeysUntilEmpty ==
  /\ copier = "scan"
  /\ batch' \in SUBSET Lists
  /\ unseen' = unseen \ batch'
  /\ cursorEnd' = (batch' = {})
  /\ copier' = "range"
  /\ UNCHANGED <<redis, mysql, provider, written, pending, settled, key, uuids, cleanup>>

\* SCAN returns some lists, none perhaps, or one again; it ends only when it has
\* returned every list that was there all the time.
getIndexKeys ==
  /\ copier = "scan"
  /\ batch' \in SUBSET Lists
  /\ unseen' = unseen \ batch'
  /\ cursorEnd' \in (IF unseen' = {} THEN BOOLEAN ELSE {FALSE})
  /\ copier' = "range"
  /\ UNCHANGED <<redis, mysql, provider, written, pending, settled, key, uuids, cleanup>>

\* LRANGE of the next key; after the last, the next SCAN or the end.
getUUIDsForKey ==
  /\ copier = "range"
  /\ \/ \E k \in batch :
          /\ key' = k
          /\ batch' = batch \ {k}
          /\ uuids' = redis[k]
          /\ copier' = "insert"
          /\ UNCHANGED <<pending, settled, cursorEnd, unseen>>
     \/ /\ batch = {} /\ ~cursorEnd
        /\ copier' = "scan"
        /\ UNCHANGED <<pending, settled, cursorEnd, unseen, key, batch, uuids>>
     \/ /\ batch = {} /\ cursorEnd
        /\ settled' = settled \cup pending
        /\ Exit
  /\ UNCHANGED <<redis, mysql, provider, written, cleanup>>

\* One INSERT IGNORE for each ID.
idempotentAddToIndex ==
  /\ copier = "insert"
  /\ \/ \E id \in uuids :
          /\ mysql' = InsertIgnore(mysql, key, id)
          /\ uuids' = uuids \ {id}
          /\ UNCHANGED <<copier, key>>
     \/ uuids = {} /\ copier' = "range" /\ key' = SomeKey /\ UNCHANGED <<mysql, uuids>>
  /\ UNCHANGED <<redis, provider, written, pending, settled, cursorEnd, unseen, batch, cleanup>>

\* An error or an interrupt anywhere; the operator may start it again.
CopyFails ==
  /\ copier # "off"
  /\ Exit
  /\ UNCHANGED <<redis, mysql, provider, written, settled, cleanup>>

---------------------------------------------------------------------------
(* cleanup-index.                                                          *)

\* SELECT DISTINCT.  The keys are deleted whether or not all their entries are
\* in the table.
StartCleanup ==
  /\ cleaner = "off"
  /\ cleaner' = "rows"
  /\ rows' = {row[1] : row \in mysql}
  /\ exposed' = exposed \cup Threatened(written \ settled, rows')
  /\ UNCHANGED <<redis, mysql, provider, written, copy>>

\* A full batch of rows is deleted from Redis in one DEL, and so is the rest.
removeFromRedis ==
  /\ cleaner = "rows" /\ rows # {}
  /\ \E ks \in SUBSET rows :
       /\ Cardinality(ks) = IF Cardinality(rows) < BatchSize THEN Cardinality(rows) ELSE BatchSize
       /\ redis' = [k \in Keys |-> IF \E l \in ks : k = Lower[l] THEN {} ELSE redis[k]]
       /\ unseen' = {k \in unseen : redis'[k] # {}}
       /\ rows' = rows \ ks
  /\ UNCHANGED <<mysql, provider, written, pending, settled, exposed, copier, cursorEnd, batch,
                 key, uuids, cleaner>>

\* The end, or an error or an interrupt.
EndCleanup ==
  /\ cleaner = "rows"
  /\ cleaner' = "off"
  /\ rows' = {}
  /\ UNCHANGED <<redis, mysql, provider, written, exposed, copy>>

---------------------------------------------------------------------------
\* Redis has what servers wrote; the backfill also writes keys with capitals.
Init ==
  /\ redis \in [Keys -> SUBSET IDs]
  /\ mysql = {} /\ provider = [s \in Servers |-> "redis"]
  /\ written = {e \in Keys \X IDs : e[2] \in redis[e[1]] /\ Lower[e[1]] = e[1]}
  /\ pending = {} /\ settled = {} /\ exposed = {} /\ copier = "off" /\ cursorEnd = FALSE /\ unseen = {}
  /\ batch = {} /\ key = SomeKey /\ uuids = {}
  /\ cleaner = "off" /\ rows = {}

Next ==
  \/ \E s \in Servers : Reconfigure(s) \/ \E k \in Keys, id \in IDs : WriteIndex(s, k, id)
  \/ StartCopy \/ getIndexKeys \/ getUUIDsForKey \/ idempotentAddToIndex \/ CopyFails
  \/ StartCleanup \/ removeFromRedis \/ EndCleanup

Spec == Init /\ [][Next]_vars

---------------------------------------------------------------------------
\* What was found stays to be found: an indexed entry is in one of the stores under
\* the key that a lookup computes, and in MySQL once a copy that began after it was
\* indexed is complete; through interrupted copies, repeated SCAN results, cleanups
\* that end halfway and writes all the while (doCopy, batchQueryAndDelete).  The one
\* exception is an entry that no complete copy had covered when a cleanup took its
\* key from the table: the cleanup deletes by key.
NothingLost ==
  \A e \in written \ exposed :
    /\ e[2] \in LookupRedis(e[1]) \cup LookupMySQL(e[1])
    /\ e \in settled => e[2] \in LookupMySQL(e[1])
=============================================================================
