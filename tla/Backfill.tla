------------------------------ MODULE Backfill ------------------------------
(***************************************************************************)
(* backfill-index against Redis: the main goroutine starts a worker for    *)
(* every log index, at most Concurrency at a time; a worker fetches the    *)
(* entry, removes and pushes its ID under each of its index keys, and hands *)
(* its errors to a collector; populate then returns.  The server keeps     *)
(* writing the index for new entries meanwhile.                            *)
(***************************************************************************)
EXTENDS Naturals, FiniteSets

CONSTANTS
    Last,             \* the log indices from start to end are 1 .. Last
    Keys,             \* index keys
    Lower,            \* strings.ToLower on them
    IndexKeys,        \* IndexKeys[e]: the index keys of entry e
    Late,             \* entries whose index write by the server is to come
    Workers,          \* goroutine slots; their number is --concurrency
    MaxInsertErrors,  \* maxInsertErrors
    MaxOld,           \* bound on the copies of an ID in a list at the start
    None              \* nothing handed to the collector

Entries == 1 .. Last

ASSUME EntriesAssumption ==
    /\ Last \in Nat \ {0} /\ MaxOld \in Nat
    /\ Late \subseteq Entries
    /\ IndexKeys \in [Entries -> SUBSET Keys]
    /\ Lower \in [Keys -> Keys]
    /\ None \notin [index : Entries, parse : BOOLEAN, insert : BOOLEAN]

ASSUME BudgetAssumption == MaxInsertErrors \in Nat

VARIABLES
    list,      \* list[k][e]: how often the ID of e is in the list of key k
    writes,    \* <<key, entry>> pairs the server still has to push
    before,    \* history: list when the backfill began
    \* --- populate ----------------------------------------------------------
    next,      \* the loop variable
    canceled,  \* the context is canceled
    sigterm,   \* an interrupt canceled it
    groupErr,  \* a worker returned an error
    result,    \* what populate returned: "nil" or "err"; "none" before
    running,   \* runningInsertErrs, shared by the workers without a lock
    \* --- workers -----------------------------------------------------------
    pc, index, keys, key, parse, insert, read,
    \* --- collector ---------------------------------------------------------
    pending,   \* received, not yet appended
    parseErrs, insertErrs

redis == <<list, writes, before>>
main == <<next, canceled, sigterm, groupErr, result>>
worker == <<pc, index, keys, key, parse, insert, read>>
collector == <<pending, parseErrs, insertErrs>>
vars == <<redis, main, running, worker, collector>>

Goto(w, label) == pc' = [pc EXCEPT ![w] = label]

\* The worker's function returns err: the first error cancels the group.
Return(w, err) ==
    /\ Goto(w, "free")
    /\ groupErr' = (groupErr \/ err)
    /\ canceled' = (canceled \/ err)
-----------------------------------------------------------------------------
(* The server and the operator *)

\* WriteIndex canonicalizes the key to lower case and does not look for the ID.
WriteIndex(k, e) ==
    /\ <<k, e>> \in writes
    /\ list' = [list EXCEPT ![Lower[k]][e] = @ + 1]
    /\ writes' = writes \ {<<k, e>>}
    /\ UNCHANGED <<before, main, running, worker, collector>>

Interrupt ==
    /\ result = "none"
    /\ ~sigterm
    /\ sigterm' = TRUE
    /\ canceled' = TRUE
    /\ UNCHANGED <<redis, next, groupErr, result, running, worker, collector>>
-----------------------------------------------------------------------------
(* Workers *)

\* Mutant: the loop runs one index too far.
GoTooFar(w) ==
    /\ result = "none"
    /\ next <= Last + 1
    /\ pc[w] = "free"
    /\ Goto(w, "get")
    /\ index' = [index EXCEPT ![w] = next]
    /\ next' = next + 1
    /\ UNCHANGED <<redis, canceled, sigterm, groupErr, result, running, keys, key,
                   parse, insert, read, collector>>

\* group.Go: blocks while all slots are taken, and goes on after an error.
Go(w) ==
    /\ result = "none"
    /\ next \in Entries
    /\ pc[w] = "free"
    /\ Goto(w, "get")
    /\ index' = [index EXCEPT ![w] = next]
    /\ next' = next + 1
    /\ keys' = [keys EXCEPT ![w] = {}]
    /\ parse' = [parse EXCEPT ![w] = FALSE]
    /\ insert' = [insert EXCEPT ![w] = FALSE]
    /\ UNCHANGED <<redis, canceled, sigterm, groupErr, result, running, key,
                   read, collector>>

\* GetLogEntryByIndex returned the entry, and it may not unmarshal.  A call made
\* with a canceled context fails, here and below; one that is answered just
\* before the cancellation is a step before it.
GetEntry(w) ==
    /\ pc[w] = "get"
    /\ ~canceled
    /\ \/ keys' = [keys EXCEPT ![w] = IndexKeys[index[w]]] /\ UNCHANGED parse
       \/ parse' = [parse EXCEPT ![w] = TRUE] /\ UNCHANGED keys
    /\ Goto(w, "next")
    /\ UNCHANGED <<redis, main, running, index, key, insert, read, collector>>

\* It failed: context.Canceled is no error, anything else is.
GetFails(w) ==
    /\ pc[w] = "get"
    /\ Return(w, TRUE) \/ (canceled /\ Return(w, FALSE))
    /\ UNCHANGED <<redis, next, sigterm, result, running, index, keys, key, parse,
                   insert, read, collector>>

\* The next key of the entry, or the end of the loop.
NextKey(w) ==
    /\ pc[w] = "next"
    /\ \/ \E k \in keys[w] :
            /\ key' = [key EXCEPT ![w] = k]
            /\ keys' = [keys EXCEPT ![w] = @ \ {k}]
            /\ Goto(w, "lrem")
       \/ keys[w] = {} /\ Goto(w, "send") /\ UNCHANGED <<key, keys>>
    /\ UNCHANGED <<redis, main, running, index, parse, insert, read, collector>>

\* Mutant: the old copies of the ID are not removed.
RemovedNot(w) == list

\* idempotentAddToIndex, with the key as the entry has it: LREM, then LPUSH.
Removed(w) == [list EXCEPT ![key[w]][index[w]] = 0]
Pushed(w) == [list EXCEPT ![key[w]][index[w]] = @ + 1]

LRem(w) ==
    /\ pc[w] = "lrem"
    /\ ~canceled
    /\ list' = Removed(w)
    /\ Goto(w, "lpush")
    /\ UNCHANGED <<writes, before, main, running, index, keys, key, parse, insert,
                   read, collector>>

LPush(w) ==
    /\ pc[w] = "lpush"
    /\ ~canceled
    /\ list' = Pushed(w)
    /\ Goto(w, "next")
    /\ UNCHANGED <<writes, before, main, running, index, keys, key, parse, insert,
                   read, collector>>

\* The command under way was executed or not; its reply did not come.
NoReply(w) ==
    \/ pc[w] = "lrem" /\ list' \in {list, Removed(w)}
    \/ pc[w] = "lpush" /\ list' \in {list, Pushed(w)}

InsertFails(w) ==
    /\ NoReply(w)
    /\ insert' = [insert EXCEPT ![w] = TRUE]
    /\ Goto(w, "load")
    /\ UNCHANGED <<writes, before, main, running, index, keys, key, parse, read, collector>>

\* The context is canceled: the worker returns nil and reports nothing.
InsertCanceled(w) ==
    /\ NoReply(w)
    /\ canceled
    /\ Return(w, FALSE)
    /\ UNCHANGED <<writes, before, next, sigterm, result, running, index, keys, key,
                   parse, insert, read, collector>>

\* runningInsertErrs++ is a load and a store, and the comparison loads again.
Load(w) ==
    /\ pc[w] = "load"
    /\ read' = [read EXCEPT ![w] = running]
    /\ Goto(w, "store")
    /\ UNCHANGED <<redis, main, running, index, keys, key, parse, insert, collector>>

Store(w) ==
    /\ pc[w] = "store"
    /\ running' = read[w] + 1
    /\ Goto(w, "compare")
    /\ UNCHANGED <<redis, main, index, keys, key, parse, insert, read, collector>>

\* Mutant: the budget is exceeded by one before the worker gives up.
CompareLate(w) ==
    /\ pc[w] = "compare"
    /\ Goto(w, IF running > MaxInsertErrors + 1 THEN "abort" ELSE "next")
    /\ UNCHANGED <<redis, main, running, index, keys, key, parse, insert, read, collector>>

Compare(w) ==
    /\ pc[w] = "compare"
    /\ Goto(w, IF running > MaxInsertErrors THEN "abort" ELSE "next")
    /\ UNCHANGED <<redis, main, running, index, keys, key, parse, insert, read, collector>>

\* resultChan <- result on an unbuffered channel.
Send(w) ==
    /\ pc[w] \in {"send", "abort"}
    /\ pending = None
    /\ pending' = [index |-> index[w], parse |-> parse[w], insert |-> insert[w]]
    /\ Return(w, pc[w] = "abort")
    /\ UNCHANGED <<redis, next, sigterm, result, running, index, keys, key, parse,
                   insert, read, parseErrs, insertErrs>>
-----------------------------------------------------------------------------
(* Collector and main *)

\* Mutant: the collector leaves its loop at the first error, and nobody
\* receives any more.
CollectFirst ==
    /\ result = "none"
    /\ pending # None
    /\ ~pending.parse /\ ~pending.insert
    /\ pending' = None
    /\ UNCHANGED <<redis, main, running, worker, parseErrs, insertErrs>>

Collect ==
    /\ result = "none"
    /\ pending # None
    /\ parseErrs' = parseErrs \union (IF pending.parse THEN {pending.index} ELSE {})
    /\ insertErrs' = insertErrs \union (IF pending.insert THEN {pending.index} ELSE {})
    /\ pending' = None
    /\ UNCHANGED <<redis, main, running, worker>>

\* group.Wait returns, and the deferred function reads the collector's slices
\* without waiting for the collector.  The process then exits.
PopulateReturns ==
    /\ result = "none"
    /\ next \notin Entries
    /\ \A w \in Workers : pc[w] = "free"
    /\ result' = IF groupErr \/ parseErrs # {} \/ insertErrs # {} THEN "err" ELSE "nil"
    /\ UNCHANGED <<redis, next, canceled, sigterm, groupErr, running, worker, collector>>
-----------------------------------------------------------------------------
Init ==
    /\ list \in [Keys -> [Entries -> 0 .. MaxOld]]
    /\ \A k \in Keys, e \in Entries : list[k][e] > 0 =>
            \E j \in IndexKeys[e] : k = Lower[j] /\ e \notin Late
    /\ before = list
    /\ writes = UNION {{<<k, e>> : k \in IndexKeys[e]} : e \in Late}
    /\ next = 1
    /\ canceled = FALSE
    /\ sigterm = FALSE
    /\ groupErr = FALSE
    /\ result = "none"
    /\ running = 0
    /\ pc = [w \in Workers |-> "free"]
    /\ index = [w \in Workers |-> 1]
    /\ keys = [w \in Workers |-> {}]
    /\ \E k \in Keys : key = [w \in Workers |-> k]
    /\ parse = [w \in Workers |-> FALSE]
    /\ insert = [w \in Workers |-> FALSE]
    /\ read = [w \in Workers |-> 0]
    /\ pending = None
    /\ parseErrs = {}
    /\ insertErrs = {}

WorkerStep(w) ==
    \/ Go(w)
    \/ GetEntry(w)
    \/ GetFails(w)
    \/ NextKey(w)
    \/ LRem(w)
    \/ LPush(w)
    \/ InsertFails(w)
    \/ InsertCanceled(w)
    \/ Load(w)
    \/ Store(w)
    \/ Compare(w)
    \/ Send(w)

Exited == result # "none" /\ writes = {} /\ UNCHANGED vars

Next ==
    \/ \E k \in Keys, e \in Entries : WriteIndex(k, e)
    \/ Interrupt
    \/ \E w \in Workers : WorkerStep(w)
    \/ Collect
    \/ PopulateReturns
    \/ Exited

Spec == Init /\ [][Next]_vars

\* The goroutines are scheduled and the calls they make return, with whatever
\* outcome.  No interrupt is required.
Fairness ==
    /\ \A w \in Workers : WF_vars(WorkerStep(w))
    /\ WF_vars(Collect)
    /\ WF_vars(PopulateReturns)

FairSpec == Spec /\ Fairness
-----------------------------------------------------------------------------
(* Properties *)

\* What the search API finds under key k.
Searched(k) == {e \in Entries : list[Lower[k]][e] > 0}

Indexed == \A e \in Entries : \A k \in IndexKeys[e] : e \in Searched(k)

\* Every variable has its type.
TypeOK ==
    /\ list \in [Keys -> [Entries -> Nat]]
    /\ before \in [Keys -> [Entries -> Nat]]
    /\ writes \subseteq Keys \X Entries
    /\ next \in Nat
    /\ canceled \in BOOLEAN /\ sigterm \in BOOLEAN /\ groupErr \in BOOLEAN
    /\ result \in {"none", "nil", "err"}
    /\ running \in Nat
    /\ pc \in [Workers -> {"free", "get", "next", "lrem", "lpush", "load", "store",
                           "compare", "send", "abort"}]
    /\ index \in [Workers -> Entries]
    /\ keys \in [Workers -> SUBSET Keys]
    /\ key \in [Workers -> Keys]
    /\ parse \in [Workers -> BOOLEAN] /\ insert \in [Workers -> BOOLEAN]
    /\ read \in [Workers -> Nat]
    /\ pending = None \/ pending \in [index : Entries, parse : BOOLEAN, insert : BOOLEAN]
    /\ parseErrs \subseteq Entries /\ insertErrs \subseteq Entries

\* When populate returns nil, was not interrupted and the collector had drained
\* its channel, the search API finds every entry of the range under every key,
\* exactly once unless the server pushed it as well: two workers, the server
\* and any mix of failures do not make it lose or repeat an ID.
BackfillExact ==
    result = "nil" /\ ~sigterm /\ pending = None =>
        /\ Indexed
        /\ \A e \in Entries \ Late : \A k \in IndexKeys[e] : list[Lower[k]][e] = 1

\* The error budget is final: a worker that saw more than MaxInsertErrors
\* errors ends the run with an error, whatever increments the race lost.
BudgetEnforced ==
    running > MaxInsertErrors => result # "nil"

\* populate returns, interrupted or not: no worker is left waiting for the
\* collector, no slot is lost.
Terminates == <>(result # "none")

\* "in case of sigterm, just return to exit gracefully": what is in the index
\* before an interrupted backfill is still there when it has exited.
InterruptLosesNothing ==
    result = "nil" /\ pending = None =>
        \A k \in Keys, e \in Entries : before[k][e] > 0 => list[k][e] > 0
=============================================================================
