--------------------------- MODULE BackfillProofs ---------------------------
(***************************************************************************)
(* The backfill for any range of entries, any number of workers, any index *)
(* keys and any error budget.                                              *)
(***************************************************************************)
EXTENDS Backfill, TLAPS

-----------------------------------------------------------------------------
(* The inductive invariant *)

\* A worker holds an entry from Go to its return.
Busy(w) == pc[w] # "free"

\* Workers hold different entries, all of them given out already.
Given ==
    /\ next \in 1 .. Last + 1
    /\ \A w \in Workers : Busy(w) => index[w] < next
    /\ \A v, w \in Workers : Busy(v) /\ Busy(w) /\ index[v] = index[w] => v = w

\* The context is canceled by an interrupt or by the first error; the server pushes
\* late entries only.
Canceled == canceled = (sigterm \/ groupErr)
LateWrites == \A x \in writes : x[2] \in Late

\* The ID of e is in the list of key k, exactly once unless the server pushes it too.
Placed(k, e) == list[k][e] > 0 /\ (e \notin Late => list[k][e] = 1)

\* The collector has heard, or is about to append, that entry e had an error.
Reported(e) ==
    \/ e \in parseErrs \union insertErrs
    \/ pending # None /\ pending.index = e /\ (pending.parse \/ pending.insert)

\* The keys of its entry that a worker is through with.
Through(w) ==
    IndexKeys[index[w]] \ (keys[w] \union (IF pc[w] \in {"lrem", "lpush"} THEN {key[w]} ELSE {}))

\* A worker without an error so far has placed the ID under the keys it is through with,
\* and has removed the old copies from the list it is about to push to.
Careful(w) ==
    /\ pc[w] \in {"load", "store", "compare", "abort"} => insert[w]
    /\ pc[w] = "send" => keys[w] = {}
    /\ Busy(w) /\ pc[w] # "get" /\ ~parse[w] /\ ~insert[w] =>
           /\ \A k \in Through(w) : Placed(k, index[w])
           /\ pc[w] = "lpush" /\ index[w] \notin Late => list[key[w]][index[w]] = 0

\* An entry that was given out is in work, or reported, or placed under all its keys.
Accounted ==
    \A e \in Entries : e < next =>
        \/ \E w \in Workers : Busy(w) /\ index[w] = e
        \/ Reported(e)
        \/ \A k \in IndexKeys[e] : Placed(k, e)

\* Whoever takes the counter over the budget has not returned yet, or returned an error.
OverBudget ==
    running > MaxInsertErrors =>
        groupErr \/ \E w \in Workers : pc[w] \in {"compare", "abort"}

\* populate returns when all workers have, and then nothing but the server goes on.
Returned ==
    /\ result # "none" => next \notin Entries /\ \A w \in Workers : ~Busy(w)
    /\ result = "nil" => ~groupErr /\ parseErrs = {} /\ insertErrs = {}

IndInv ==
    /\ TypeOK /\ Given /\ Canceled /\ LateWrites /\ OverBudget /\ Returned
    /\ ~canceled => Accounted /\ \A w \in Workers : Careful(w)

-----------------------------------------------------------------------------
(* Types *)

\* The initial states have the types.
LEMMA TypeInit == Init => TypeOK
<1> SUFFICES ASSUME Init PROVE TypeOK
    OBVIOUS
<1>1. list \in [Keys -> [Entries -> Nat]] /\ before \in [Keys -> [Entries -> Nat]]
    <2>1. 0 .. MaxOld \subseteq Nat
        BY EntriesAssumption
    <2> QED
        BY <2>1 DEF Init
<1>2. writes \subseteq Keys \X Entries
    BY EntriesAssumption DEF Init
<1>3. 1 \in Entries
    BY EntriesAssumption DEF Entries
<1>4. key \in [Workers -> Keys]
    BY DEF Init
<1> QED
    BY <1>1, <1>2, <1>3, <1>4 DEF Init, TypeOK

\* What LREM and LPUSH do to the lists.
LEMMA ListType ==
    ASSUME TypeOK, NEW w \in Workers
    PROVE  /\ Removed(w) \in [Keys -> [Entries -> Nat]]
           /\ Removed(w)[key[w]][index[w]] = 0
           /\ \A j \in Keys, d \in Entries :
                  j # key[w] \/ d # index[w] => Removed(w)[j][d] = list[j][d]
           /\ Pushed(w) \in [Keys -> [Entries -> Nat]]
           /\ Pushed(w)[key[w]][index[w]] = list[key[w]][index[w]] + 1
           /\ \A j \in Keys, d \in Entries :
                  j # key[w] \/ d # index[w] => Pushed(w)[j][d] = list[j][d]
<1>1. /\ key[w] \in Keys /\ index[w] \in Entries /\ list[key[w]][index[w]] + 1 \in Nat
      /\ list \in [Keys -> [Entries -> Nat]] /\ list[key[w]] \in [Entries -> Nat]
    BY DEF TypeOK
<1>2. Removed(w) = [list EXCEPT ![key[w]] = [list[key[w]] EXCEPT ![index[w]] = 0]]
    BY <1>1 DEF Removed
<1>3. Removed(w)[key[w]] = [list[key[w]] EXCEPT ![index[w]] = 0] /\ \A j \in Keys : j # key[w] => Removed(w)[j] = list[j]
    BY <1>1, <1>2
<1>4. Removed(w) \in [Keys -> [Entries -> Nat]]
    BY <1>1, <1>2
<1>5. Pushed(w) = [list EXCEPT ![key[w]] = [list[key[w]] EXCEPT ![index[w]] = list[key[w]][index[w]] + 1]]
    BY <1>1 DEF Pushed
<1>6. Pushed(w)[key[w]] = [list[key[w]] EXCEPT ![index[w]] = list[key[w]][index[w]] + 1] /\ \A j \in Keys : j # key[w] => Pushed(w)[j] = list[j]
    BY <1>1, <1>5
<1>7. Pushed(w) \in [Keys -> [Entries -> Nat]]
    BY <1>1, <1>5
<1>8. /\ Removed(w)[key[w]][index[w]] = 0
      /\ \A j \in Keys, d \in Entries :
             j # key[w] \/ d # index[w] => Removed(w)[j][d] = list[j][d]
    BY <1>1, <1>3
<1>9. /\ Pushed(w)[key[w]][index[w]] = list[key[w]][index[w]] + 1
      /\ \A j \in Keys, d \in Entries :
             j # key[w] \/ d # index[w] => Pushed(w)[j][d] = list[j][d]
    BY <1>1, <1>6
<1> QED
    BY <1>4, <1>7, <1>8, <1>9

\* What the server's push does to them.
LEMMA WriteIndexType ==
    ASSUME TypeOK, NEW k \in Keys, NEW e \in Entries, WriteIndex(k, e)
    PROVE  /\ list' \in [Keys -> [Entries -> Nat]]
           /\ list'[Lower[k]][e] = list[Lower[k]][e] + 1
           /\ \A j \in Keys, d \in Entries :
                  j # Lower[k] \/ d # e => list'[j][d] = list[j][d]
<1>1. /\ Lower[k] \in Keys /\ list[Lower[k]][e] + 1 \in Nat
      /\ list \in [Keys -> [Entries -> Nat]] /\ list[Lower[k]] \in [Entries -> Nat]
    BY EntriesAssumption DEF TypeOK
<1>2. list' = [list EXCEPT ![Lower[k]] = [list[Lower[k]] EXCEPT ![e] = list[Lower[k]][e] + 1]]
    BY <1>1 DEF WriteIndex
<1>3. list'[Lower[k]] = [list[Lower[k]] EXCEPT ![e] = list[Lower[k]][e] + 1] /\ \A j \in Keys : j # Lower[k] => list'[j] = list[j]
    BY <1>1, <1>2
<1>4. list' \in [Keys -> [Entries -> Nat]]
    BY <1>1, <1>2
<1> QED
    BY <1>1, <1>3, <1>4

\* Every step keeps the types.
LEMMA TypeInv == TypeOK /\ [Next]_vars => TypeOK'
<1> SUFFICES ASSUME TypeOK, [Next]_vars PROVE TypeOK'
    OBVIOUS
<1> USE DEF redis, main, worker, collector, Goto, Return
<1>1. ASSUME NEW k \in Keys, NEW e \in Entries, WriteIndex(k, e) PROVE TypeOK'
    <2>1. list' \in [Keys -> [Entries -> Nat]]
        BY <1>1, WriteIndexType
    <2> QED
        BY <1>1, <2>1 DEF WriteIndex, TypeOK
<1>2. CASE Interrupt
    BY <1>2 DEF Interrupt, TypeOK
<1>3. ASSUME NEW w \in Workers, Go(w) PROVE TypeOK'
    <2>1. next + 1 \in Nat
        BY DEF TypeOK
    <2> QED
        BY <1>3, <2>1 DEF Go, TypeOK
<1>4. ASSUME NEW w \in Workers, GetEntry(w) PROVE TypeOK'
    BY <1>4, EntriesAssumption DEF GetEntry, TypeOK
<1>5. ASSUME NEW w \in Workers, GetFails(w) PROVE TypeOK'
    BY <1>5 DEF GetFails, TypeOK
<1>6. ASSUME NEW w \in Workers, NextKey(w) PROVE TypeOK'
    <2>1. CASE \E k \in keys[w] : key' = [key EXCEPT ![w] = k] /\ keys' = [keys EXCEPT ![w] = @ \ {k}]
        <3>1. PICK k \in keys[w] : key' = [key EXCEPT ![w] = k] /\ keys' = [keys EXCEPT ![w] = @ \ {k}]
            BY <2>1
        <3>2. k \in Keys /\ keys[w] \ {k} \in SUBSET Keys
            BY DEF TypeOK
        <3>3. key' \in [Workers -> Keys] /\ keys' \in [Workers -> SUBSET Keys]
            BY <3>1, <3>2 DEF TypeOK
        <3> QED
            BY <1>6, <3>3 DEF NextKey, TypeOK
    <2>2. CASE UNCHANGED <<key, keys>>
        BY <1>6, <2>2 DEF NextKey, TypeOK
    <2> QED
        BY <1>6, <2>1, <2>2 DEF NextKey
<1>7. ASSUME NEW w \in Workers, LRem(w) \/ LPush(w) PROVE TypeOK'
    <2>1. list' \in [Keys -> [Entries -> Nat]]
        BY <1>7, ListType DEF LRem, LPush
    <2> QED
        BY <1>7, <2>1 DEF LRem, LPush, TypeOK
<1>8. ASSUME NEW w \in Workers, InsertFails(w) \/ InsertCanceled(w) PROVE TypeOK'
    <2>1. list' \in [Keys -> [Entries -> Nat]]
        BY <1>8, ListType DEF InsertFails, InsertCanceled, NoReply, TypeOK
    <2> QED
        BY <1>8, <2>1 DEF InsertFails, InsertCanceled, TypeOK
<1>9. ASSUME NEW w \in Workers, Load(w) \/ Store(w) \/ Compare(w) PROVE TypeOK'
    <2>1. read[w] + 1 \in Nat
        BY DEF TypeOK
    <2>2. CASE Load(w)
        BY <2>2 DEF Load, TypeOK
    <2>3. CASE Store(w)
        BY <2>1, <2>3 DEF Store, TypeOK
    <2>4. CASE Compare(w)
        BY <2>4 DEF Compare, TypeOK
    <2> QED
        BY <1>9, <2>2, <2>3, <2>4
<1>10. ASSUME NEW w \in Workers, Send(w) PROVE TypeOK'
    BY <1>10 DEF Send, TypeOK
<1>11. CASE Collect
    BY <1>11 DEF Collect, TypeOK
<1>12. CASE PopulateReturns
    BY <1>12 DEF PopulateReturns, TypeOK
<1>13. CASE UNCHANGED vars
    BY <1>13 DEF vars, TypeOK
<1> QED
    BY <1>1, <1>2, <1>3, <1>4, <1>5, <1>6, <1>7, <1>8, <1>9, <1>10, <1>11, <1>12, <1>13
       DEF Next, WorkerStep, Exited

\* Every variable has its type; in particular the loop gives out entries of the range only.
THEOREM TypeCorrect == Spec => []TypeOK
BY TypeInit, TypeInv, PTL DEF Spec

-----------------------------------------------------------------------------
(* Steps of the workers *)

\* The steps of a worker that holds an entry.
HeldStep(w) ==
    \/ GetEntry(w) \/ GetFails(w) \/ NextKey(w) \/ LRem(w) \/ LPush(w) \/ InsertFails(w)
    \/ InsertCanceled(w) \/ Load(w) \/ Store(w) \/ Compare(w) \/ Send(w)

\* What they leave alone, and what they may do to the group.
LEMMA HeldFrame ==
    ASSUME IndInv, NEW w \in Workers, HeldStep(w)
    PROVE  /\ Busy(w) /\ result = "none"
           /\ UNCHANGED <<writes, next, sigterm, result, index, parseErrs, insertErrs>>
           /\ \A v \in Workers : v # w => pc'[v] = pc[v]
           /\ (groupErr' = groupErr /\ canceled' = canceled) \/ Return(w, TRUE) \/ Return(w, FALSE)
<1> USE DEF redis, main, worker, collector, Goto
<1>1. \E label : pc' = [pc EXCEPT ![w] = label]
    BY DEF HeldStep, GetEntry, GetFails, NextKey, LRem, LPush, InsertFails, InsertCanceled,
           Load, Store, Compare, Send, Return
<1>2. \A v \in Workers : v # w => pc'[v] = pc[v]
    BY <1>1 DEF IndInv, TypeOK
<1>3. Busy(w)
    BY DEF HeldStep, GetEntry, GetFails, NextKey, LRem, LPush, InsertFails, InsertCanceled,
           NoReply, Load, Store, Compare, Send, Busy
<1>4. UNCHANGED <<writes, next, sigterm, result, index, parseErrs, insertErrs>>
    BY DEF HeldStep, GetEntry, GetFails, NextKey, LRem, LPush, InsertFails, InsertCanceled,
           Load, Store, Compare, Send
<1>5. (groupErr' = groupErr /\ canceled' = canceled) \/ Return(w, TRUE) \/ Return(w, FALSE)
    BY DEF HeldStep, GetEntry, GetFails, NextKey, LRem, LPush, InsertFails, InsertCanceled,
           Load, Store, Compare, Send
<1>6. result = "none"
    BY <1>3 DEF IndInv, Returned
<1> QED
    BY <1>2, <1>3, <1>4, <1>5, <1>6

\* A step of a worker with its entry leaves what others have got and done.
LEMMA HeldGlobal ==
    ASSUME IndInv, NEW w \in Workers, HeldStep(w)
    PROVE  Given' /\ Canceled' /\ LateWrites' /\ Returned'
<1>1. /\ Busy(w) /\ result = "none"
      /\ UNCHANGED <<writes, next, sigterm, result, index, parseErrs, insertErrs>>
      /\ \A v \in Workers : v # w => pc'[v] = pc[v]
      /\ (groupErr' = groupErr /\ canceled' = canceled) \/ Return(w, TRUE) \/ Return(w, FALSE)
    BY HeldFrame
<1>2. Given'
    BY <1>1 DEF IndInv, Given, Busy
<1>3. LateWrites' /\ Returned'
    BY <1>1 DEF IndInv, LateWrites, Returned
<1>4. Canceled'
    <2>1. canceled = (sigterm \/ groupErr) /\ sigterm' = sigterm
        BY <1>1 DEF IndInv, Canceled
    <2>2. CASE groupErr' = groupErr /\ canceled' = canceled
        BY <2>1, <2>2, Zenon DEF Canceled
    <2>3. CASE Return(w, TRUE)
        BY <2>1, <2>3, Zenon DEF Canceled, Return
    <2>4. CASE Return(w, FALSE)
        BY <2>1, <2>4, Zenon DEF Canceled, Return
    <2> QED
        BY <1>1, <2>2, <2>3, <2>4
<1> QED
    BY <1>2, <1>3, <1>4

\* The race on the counter: a stored value over the budget is seen by the worker that
\* stored it, unless a smaller one was stored since.
LEMMA HeldBudget ==
    ASSUME IndInv, NEW w \in Workers, HeldStep(w)
    PROVE  OverBudget'
<1> USE DEF redis, main, worker, collector, Goto
<1>1. \A v \in Workers : v # w => pc'[v] = pc[v]
    BY HeldFrame
<1>2. CASE Store(w)
    BY <1>2 DEF Store, OverBudget, IndInv, TypeOK
<1>3. CASE Compare(w)
    <2>1. running > MaxInsertErrors => pc'[w] = "abort"
        BY <1>3 DEF Compare, IndInv, TypeOK
    <2> QED
        BY <1>3, <2>1 DEF Compare, OverBudget
<1>4. CASE Send(w)
    <2>1. running' = running /\ (groupErr => groupErr') /\ (pc[w] = "abort" => groupErr')
        BY <1>4 DEF Send, Return
    <2>2. pc[w] # "compare"
        BY <1>4 DEF Send
    <2> QED
        BY <1>1, <2>1, <2>2 DEF IndInv, OverBudget
<1>5. CASE ~Store(w) /\ ~Compare(w) /\ ~Send(w)
    <2>1. running' = running /\ (groupErr => groupErr')
        <3>1. running' = running
            BY <1>5 DEF HeldStep, GetEntry, GetFails, NextKey, LRem, LPush, InsertFails,
                        InsertCanceled, Load
        <3>2. groupErr => groupErr'
            BY HeldFrame DEF Return
        <3> QED
            BY <3>1, <3>2
    <2>2. pc[w] \notin {"compare", "abort"}
        BY <1>5 DEF HeldStep, GetEntry, GetFails, NextKey, LRem, LPush, InsertFails,
                    InsertCanceled, NoReply, Load
    <2> QED
        BY <1>1, <2>1, <2>2 DEF IndInv, OverBudget
<1> QED
    BY <1>2, <1>3, <1>4, <1>5

\* A step of one worker leaves the entries of the others alone: it is enough to account
\* for its own.
LEMMA OwnEntry ==
    ASSUME IndInv, ~canceled, NEW w \in Workers, Busy(w), UNCHANGED <<index, next>>,
           \A v \in Workers : v # w => /\ pc'[v] = pc[v] /\ keys'[v] = keys[v] /\ key'[v] = key[v]
                                       /\ parse'[v] = parse[v] /\ insert'[v] = insert[v],
           \A j \in Keys, d \in Entries : d # index[w] => list'[j][d] = list[j][d],
           \A e \in Entries : Reported(e) => Reported(e)',
           Careful(w)',
           \/ Busy(w)'
           \/ Reported(index[w])'
           \/ \A k \in IndexKeys[index[w]] : Placed(k, index[w])'
    PROVE  Accounted' /\ \A v \in Workers : Careful(v)'
<1>1. index \in [Workers -> Entries] /\ key \in [Workers -> Keys]
      /\ \A e \in Entries : IndexKeys[e] \subseteq Keys
    BY EntriesAssumption DEF IndInv, TypeOK
<1>2. \A e \in Entries : e # index[w] => \A k \in IndexKeys[e] : Placed(k, e) => Placed(k, e)'
    BY <1>1 DEF Placed
<1>3. ASSUME NEW v \in Workers, v # w PROVE Careful(v)'
    <2>1. Busy(v) => index[v] # index[w]
        BY <1>3 DEF IndInv, Given
    <2>2. Through(v)' = Through(v) /\ Through(v) \subseteq IndexKeys[index[v]]
        BY <1>3 DEF Through
    <2>3. Busy(v)' = Busy(v)
        BY <1>3 DEF Busy
    <2>4. Busy(v) => \A k \in Through(v) : Placed(k, index[v]) => Placed(k, index[v])'
        BY <1>1, <1>2, <2>1, <2>2
    <2>5. Busy(v) => list'[key[v]][index[v]] = list[key[v]][index[v]]
        BY <1>1, <2>1
    <2>6. Careful(v)
        BY DEF IndInv
    <2> QED
        BY <1>3, <2>2, <2>3, <2>4, <2>5, <2>6 DEF Careful
<1>4. ASSUME NEW e \in Entries, e < next
      PROVE  \/ \E v \in Workers : Busy(v)' /\ index'[v] = e
             \/ Reported(e)'
             \/ \A k \in IndexKeys[e] : Placed(k, e)'
    <2>1. CASE e = index[w]
        BY <2>1
    <2>2. CASE e # index[w]
        <3>1. \/ \E v \in Workers : Busy(v) /\ index[v] = e
              \/ Reported(e)
              \/ \A k \in IndexKeys[e] : Placed(k, e)
            BY <1>4 DEF IndInv, Accounted
        <3>2. \A v \in Workers : Busy(v) /\ index[v] = e => Busy(v)' /\ index'[v] = e
            BY <2>2 DEF Busy
        <3> QED
            BY <1>2, <2>2, <3>1, <3>2
    <2> QED
        BY <2>1, <2>2
<1> QED
    BY <1>3, <1>4 DEF Accounted

\* The entry of a worker, step by step, while nothing has canceled the group.
LEMMA HeldWork ==
    ASSUME IndInv, NEW w \in Workers, HeldStep(w), ~canceled'
    PROVE  Accounted' /\ \A v \in Workers : Careful(v)'
<1> USE DEF redis, main, worker, collector, Goto
<1>1. /\ Busy(w) /\ UNCHANGED <<index, next, parseErrs, insertErrs>>
      /\ \A v \in Workers : v # w => pc'[v] = pc[v]
      /\ (groupErr' = groupErr /\ canceled' = canceled) \/ Return(w, TRUE) \/ Return(w, FALSE)
    BY HeldFrame
<1>2. ~canceled
    BY <1>1 DEF Return
<1>3. Careful(w)
    BY <1>2 DEF IndInv
<1>4. /\ index[w] \in Entries /\ key[w] \in Keys /\ keys[w] \subseteq Keys
      /\ IndexKeys[index[w]] \subseteq Keys
    BY EntriesAssumption DEF IndInv, TypeOK
<1>5. /\ pc \in [Workers -> {"free", "get", "next", "lrem", "lpush", "load", "store",
                             "compare", "send", "abort"}]
      /\ index \in [Workers -> Entries] /\ keys \in [Workers -> SUBSET Keys]
      /\ key \in [Workers -> Keys]
      /\ parse \in [Workers -> BOOLEAN] /\ insert \in [Workers -> BOOLEAN]
      /\ list \in [Keys -> [Entries -> Nat]]
    BY DEF IndInv, TypeOK
<1>6. \A v \in Workers : v # w =>
          /\ keys'[v] = keys[v] /\ key'[v] = key[v]
          /\ parse'[v] = parse[v] /\ insert'[v] = insert[v]
    BY <1>5 DEF HeldStep, GetEntry, GetFails, NextKey, LRem, LPush, InsertFails, InsertCanceled,
           Load, Store, Compare, Send
<1>7. \A j \in Keys, d \in Entries : d # index[w] => list'[j][d] = list[j][d]
    <2>1. list' \in {list, Removed(w), Pushed(w)}
        BY DEF HeldStep, GetEntry, GetFails, NextKey, LRem, LPush, InsertFails, InsertCanceled,
               NoReply, Load, Store, Compare, Send
    <2> QED
        BY <2>1, ListType DEF IndInv
<1>8. pc[w] # "send" => Busy(w)' /\ UNCHANGED pending
    BY <1>2, <1>5 DEF HeldStep, GetEntry, GetFails, NextKey, LRem, LPush, InsertFails,
           InsertCanceled, Load, Store, Compare, Send, Return, Busy
<1>9. \A e \in Entries : Reported(e) => Reported(e)'
    <2>1. pending' = pending \/ pending = None
        BY DEF HeldStep, GetEntry, GetFails, NextKey, LRem, LPush, InsertFails,
               InsertCanceled, Load, Store, Compare, Send
    <2> QED
        BY <1>1, <2>1 DEF Reported
<1>10. /\ Careful(w)'
       /\ \/ Busy(w)'
          \/ Reported(index[w])'
          \/ \A k \in IndexKeys[index[w]] : Placed(k, index[w])'
    <2>1. CASE GetEntry(w)
        <3>1. pc'[w] = "next" /\ (keys'[w] = IndexKeys[index[w]] \/ parse'[w])
            BY <1>5, <2>1 DEF GetEntry
        <3>2. parse'[w] \/ Through(w)' = {}
            BY <1>1, <3>1 DEF Through
        <3> QED
            BY <3>1, <3>2 DEF Careful, Busy
    <2>2. CASE NextKey(w)
        <3>1. UNCHANGED <<list, parse, insert>> /\ pc[w] = "next"
            BY <2>2 DEF NextKey
        <3>2. CASE \E k \in keys[w] : /\ key' = [key EXCEPT ![w] = k]
                                      /\ keys' = [keys EXCEPT ![w] = @ \ {k}]
                                      /\ pc' = [pc EXCEPT ![w] = "lrem"]
            <4>1. pc'[w] = "lrem" /\ key'[w] \in keys[w] /\ keys'[w] = keys[w] \ {key'[w]}
                BY <1>5, <3>2
            <4>2. Through(w)' = Through(w)
                BY <1>1, <3>1, <4>1 DEF Through
            <4> QED
                BY <1>1, <1>3, <3>1, <4>1, <4>2 DEF Careful, Busy, Placed
        <3>3. CASE keys[w] = {} /\ pc' = [pc EXCEPT ![w] = "send"] /\ UNCHANGED <<key, keys>>
            <4>1. pc'[w] = "send" /\ keys'[w] = {}
                BY <1>5, <3>3
            <4>2. Through(w)' = Through(w)
                BY <1>1, <3>1, <3>3, <4>1 DEF Through
            <4> QED
                BY <1>1, <1>3, <3>1, <4>1, <4>2 DEF Careful, Busy, Placed
        <3> QED
            BY <2>2, <3>2, <3>3 DEF NextKey
    <2>3. CASE LRem(w)
        <3>1. /\ pc[w] = "lrem" /\ pc'[w] = "lpush" /\ list' = Removed(w)
              /\ UNCHANGED <<keys, key, parse, insert>>
            BY <1>5, <2>3 DEF LRem
        <3>2. Through(w)' = Through(w) /\ key[w] \notin Through(w) /\ Through(w) \subseteq Keys
            BY <1>1, <1>4, <3>1 DEF Through
        <3>3. /\ list'[key[w]][index[w]] = 0
              /\ \A k \in Through(w) : list'[k][index[w]] = list[k][index[w]]
            BY <1>4, <3>1, <3>2, ListType DEF IndInv
        <3> QED
            BY <1>1, <1>3, <3>1, <3>2, <3>3 DEF Careful, Busy, Placed
    <2>4. CASE LPush(w)
        <3>1. /\ pc[w] = "lpush" /\ pc'[w] = "next" /\ list' = Pushed(w)
              /\ UNCHANGED <<keys, key, parse, insert>>
            BY <1>5, <2>4 DEF LPush
        <3>2. /\ Through(w)' \subseteq Through(w) \union {key[w]}
              /\ key[w] \notin Through(w) /\ Through(w) \subseteq Keys
            BY <1>1, <1>4, <3>1 DEF Through
        <3>3. /\ list'[key[w]][index[w]] = list[key[w]][index[w]] + 1
              /\ \A k \in Through(w) : list'[k][index[w]] = list[k][index[w]]
            BY <1>4, <3>1, <3>2, ListType DEF IndInv
        <3>4. list[key[w]][index[w]] \in Nat
            BY <1>4, <1>5
        <3>5. ~parse[w] /\ ~insert[w] => \A k \in Through(w)' : Placed(k, index[w])'
            <4>1. ~parse[w] /\ ~insert[w] =>
                      /\ \A k \in Through(w) : Placed(k, index[w])
                      /\ index[w] \notin Late => list[key[w]][index[w]] = 0
                BY <1>3, <3>1 DEF Careful, Busy
            <4> QED
                BY <1>1, <3>2, <3>3, <3>4, <4>1 DEF Placed
        <3> QED
            BY <1>1, <3>1, <3>5 DEF Careful, Busy
    <2>5. CASE InsertFails(w)
        <3>1. pc'[w] = "load" /\ insert'[w]
            BY <1>5, <2>5 DEF InsertFails
        <3> QED
            BY <3>1 DEF Careful, Busy
    <2>6. CASE Load(w) \/ Store(w) \/ Compare(w)
        <3>1. pc[w] \in {"load", "store", "compare"} /\ insert' = insert
              /\ pc'[w] \in {"store", "compare", "abort", "next"}
            BY <1>5, <2>6 DEF Load, Store, Compare
        <3> QED
            BY <1>3, <3>1 DEF Careful, Busy
    <2>7. CASE Send(w)
        <3>1. /\ pc[w] = "send" /\ pc'[w] = "free"
              /\ pending' = [index |-> index[w], parse |-> parse[w], insert |-> insert[w]]
              /\ UNCHANGED <<list, parse, insert, keys>>
            BY <1>5, <2>7 DEF Send, Return
        <3>2. Careful(w)'
            BY <3>1 DEF Careful, Busy
        <3>3. CASE parse[w] \/ insert[w]
            <4>1. pending' # None
                BY <1>4, <1>5, <3>1, EntriesAssumption
            <4>2. Reported(index[w])'
                BY <1>1, <3>1, <3>3, <4>1 DEF Reported
            <4> QED
                BY <3>2, <4>2
        <3>4. CASE ~parse[w] /\ ~insert[w]
            <4>1. Through(w) = IndexKeys[index[w]]
                BY <1>3, <3>1 DEF Careful, Through
            <4>2. \A k \in IndexKeys[index[w]] : Placed(k, index[w])
                BY <1>3, <3>1, <3>4, <4>1 DEF Careful, Busy
            <4> QED
                BY <1>1, <3>1, <3>2, <4>2 DEF Placed
        <3> QED
            BY <3>3, <3>4
    <2>8. ~GetFails(w) /\ ~InsertCanceled(w)
        BY <1>2 DEF GetFails, InsertCanceled, Return
    <2> QED
        BY <2>1, <2>2, <2>3, <2>4, <2>5, <2>6, <2>7, <2>8 DEF HeldStep
<1> QED
    BY <1>1, <1>2, <1>6, <1>7, <1>9, <1>10, OwnEntry

\* The same for the whole invariant.
LEMMA HeldInv ==
    ASSUME IndInv, TypeOK', NEW w \in Workers, HeldStep(w)
    PROVE  IndInv'
BY HeldGlobal, HeldBudget, HeldWork DEF IndInv

\* A free worker gets the next entry.
LEMMA GoInv ==
    ASSUME IndInv, TypeOK', NEW w \in Workers, Go(w)
    PROVE  IndInv'
<1> USE DEF redis, main, worker, collector, Goto
<1>1. /\ result = "none" /\ next \in Entries /\ pc[w] = "free" /\ next' = next + 1
      /\ UNCHANGED <<list, writes, canceled, sigterm, groupErr, result, running, key, pending,
                     parseErrs, insertErrs>>
    BY DEF Go
<1>2. /\ pc'[w] = "get" /\ index'[w] = next
      /\ \A v \in Workers : v # w =>
            /\ pc'[v] = pc[v] /\ index'[v] = index[v] /\ keys'[v] = keys[v]
            /\ parse'[v] = parse[v] /\ insert'[v] = insert[v]
    BY DEF Go, IndInv, TypeOK
<1>3. Given'
    <2>1. next' \in 1 .. Last + 1 /\ next < next' /\ \A v \in Workers : index[v] \in Nat
        BY <1>1, EntriesAssumption DEF IndInv, TypeOK, Entries
    <2>2. \A v \in Workers : Busy(v)' => v = w \/ (Busy(v) /\ index'[v] = index[v] /\ index[v] < next)
        BY <1>2 DEF IndInv, Given, Busy
    <2>3. \A v \in Workers : Busy(v)' => index'[v] < next'
        BY <1>1, <1>2, <2>1, <2>2 DEF Entries
    <2>4. \A u, v \in Workers : Busy(u)' /\ Busy(v)' /\ index'[u] = index'[v] => u = v
        BY <1>1, <1>2, <2>1, <2>2 DEF IndInv, Given, Entries
    <2> QED
        BY <2>1, <2>3, <2>4 DEF Given
<1>4. Canceled' /\ LateWrites' /\ Returned'
    BY <1>1 DEF IndInv, Canceled, LateWrites, Returned
<1>5. OverBudget'
    BY <1>1, <1>2 DEF IndInv, OverBudget
<1>6. ASSUME ~canceled PROVE Accounted' /\ \A v \in Workers : Careful(v)'
    <2>1. \A v \in Workers : v # w => Careful(v)'
        BY <1>1, <1>2, <1>6 DEF IndInv, Careful, Through, Busy, Placed
    <2>2. Careful(w)'
        BY <1>2 DEF Careful
    <2>3. ASSUME NEW e \in Entries, e < next'
          PROVE  \/ \E v \in Workers : Busy(v)' /\ index'[v] = e
                 \/ Reported(e)'
                 \/ \A k \in IndexKeys[e] : Placed(k, e)'
        <3>1. CASE e = next
            BY <1>2, <3>1 DEF Busy
        <3>2. CASE e # next
            <4>1. e < next
                BY <1>1, <2>3, <3>2, EntriesAssumption DEF Entries
            <4>2. \/ \E v \in Workers : Busy(v) /\ index[v] = e
                  \/ Reported(e)
                  \/ \A k \in IndexKeys[e] : Placed(k, e)
                BY <1>6, <4>1 DEF IndInv, Accounted
            <4>3. \A v \in Workers : Busy(v) /\ index[v] = e => Busy(v)' /\ index'[v] = e
                BY <1>1, <1>2 DEF Busy
            <4> QED
                BY <1>1, <4>2, <4>3 DEF Reported, Placed
        <3> QED
            BY <3>1, <3>2
    <2> QED
        BY <2>1, <2>2, <2>3 DEF Accounted
<1> QED
    BY <1>1, <1>3, <1>4, <1>5, <1>6 DEF IndInv

-----------------------------------------------------------------------------
(* Steps of the others *)

\* The server adds a copy of a late entry.
LEMMA WriteIndexInv ==
    ASSUME IndInv, TypeOK', NEW k \in Keys, NEW e \in Entries, WriteIndex(k, e)
    PROVE  IndInv'
<1> USE DEF redis, main, worker, collector
<1>1. /\ writes' \subseteq writes /\ e \in Late
      /\ UNCHANGED <<main, running, worker, collector>>
    BY DEF WriteIndex, IndInv, LateWrites
<1>2. \A j \in Keys, d \in Entries :
          /\ list'[j][d] >= list[j][d]
          /\ d \notin Late => list'[j][d] = list[j][d]
    <2>1. \A j \in Keys, d \in Entries : list[j][d] \in Nat
        BY DEF IndInv, TypeOK
    <2> QED
        BY <1>1, <2>1, WriteIndexType, EntriesAssumption DEF IndInv
<1>3. \A j \in Keys, d \in Entries : Placed(j, d) => Placed(j, d)'
    <2>1. \A j \in Keys, d \in Entries : list[j][d] \in Nat /\ list'[j][d] \in Nat
        BY DEF IndInv, TypeOK
    <2> QED
        BY <1>2, <2>1 DEF Placed
<1>4. Given' /\ Canceled' /\ LateWrites' /\ OverBudget' /\ Returned'
    BY <1>1 DEF IndInv, Given, Canceled, LateWrites, OverBudget, Returned, Busy
<1>5. ASSUME ~canceled PROVE Accounted' /\ \A v \in Workers : Careful(v)'
    <2>1. \A d \in Entries : IndexKeys[d] \subseteq Keys
        BY EntriesAssumption
    <2>2. Accounted'
        BY <1>1, <1>3, <1>5, <2>1 DEF IndInv, Accounted, Busy, Reported
    <2>3. ASSUME NEW v \in Workers PROVE Careful(v)'
        <3>1. Careful(v) /\ index[v] \in Entries /\ key[v] \in Keys
            BY <1>5 DEF IndInv, TypeOK
        <3>2. Through(v)' = Through(v) /\ Through(v) \subseteq Keys
            BY <1>1, <2>1, <3>1 DEF Through
        <3>3. \A j \in Through(v) : Placed(j, index[v]) => Placed(j, index[v])'
            BY <1>1, <1>3, <3>1, <3>2
        <3>4. index[v] \notin Late => list'[key[v]][index[v]] = list[key[v]][index[v]]
            BY <1>2, <3>1
        <3> QED
            BY <1>1, <3>1, <3>2, <3>3, <3>4 DEF Careful, Busy
    <2> QED
        BY <2>2, <2>3
<1> QED
    BY <1>1, <1>4, <1>5 DEF IndInv

\* The collector appends what it received.
LEMMA CollectInv ==
    ASSUME IndInv, TypeOK', Collect
    PROVE  IndInv'
<1> USE DEF redis, main, worker, collector
<1>1. result = "none" /\ UNCHANGED <<redis, main, running, worker>>
    BY DEF Collect
<1>2. \A e \in Entries : Reported(e) => Reported(e)'
    BY DEF Collect, Reported
<1>3. Given' /\ Canceled' /\ LateWrites' /\ OverBudget' /\ Returned'
    BY <1>1 DEF IndInv, Given, Canceled, LateWrites, OverBudget, Returned, Busy
<1>4. ~canceled => Accounted' /\ \A v \in Workers : Careful(v)'
    BY <1>1, <1>2 DEF IndInv, Accounted, Careful, Through, Busy, Placed
<1> QED
    BY <1>1, <1>3, <1>4 DEF IndInv

\* populate returns, or the operator interrupts it.
LEMMA MainInv ==
    ASSUME IndInv, TypeOK', Interrupt \/ PopulateReturns \/ UNCHANGED vars
    PROVE  IndInv'
<1> USE DEF redis, main, worker, collector
<1>1. CASE Interrupt
    <2>1. Given' /\ LateWrites' /\ OverBudget' /\ Returned'
        BY <1>1 DEF Interrupt, IndInv, Given, LateWrites, OverBudget, Returned, Busy
    <2>2. Canceled' /\ canceled'
        BY <1>1 DEF Interrupt, Canceled
    <2> QED
        BY <2>1, <2>2 DEF IndInv
<1>2. CASE PopulateReturns \/ UNCHANGED vars
    <2>1. UNCHANGED <<redis, next, canceled, sigterm, groupErr, running, worker, collector>>
        BY <1>2 DEF PopulateReturns, vars
    <2>2. Given' /\ LateWrites' /\ OverBudget'
        BY <2>1 DEF IndInv, Given, LateWrites, OverBudget, Busy
    <2>3. Canceled'
        BY <2>1 DEF IndInv, Canceled
    <2>4. ~canceled => Accounted' /\ \A v \in Workers : Careful(v)'
        BY <2>1 DEF IndInv, Accounted, Careful, Through, Busy, Placed, Reported
    <2>5. Returned'
        BY <1>2, <2>1 DEF PopulateReturns, vars, IndInv, Returned, Busy
    <2> QED
        BY <2>1, <2>2, <2>3, <2>4, <2>5 DEF IndInv
<1> QED
    BY <1>1, <1>2

\* A run that has just started has nothing to account for.
LEMMA InitInv == Init => IndInv
<1> SUFFICES ASSUME Init PROVE IndInv
    OBVIOUS
<1>1. next = 1 /\ 1 \in 1 .. Last + 1
    BY EntriesAssumption DEF Init
<1>2. Given /\ Accounted /\ \A w \in Workers : Careful(w)
    BY <1>1 DEF Init, Given, Accounted, Careful, Busy, Entries
<1>3. Canceled /\ Returned
    BY DEF Init, Canceled, Returned
<1>4. LateWrites
    BY DEF Init, LateWrites
<1>5. OverBudget
    BY BudgetAssumption DEF Init, OverBudget
<1> QED
    BY <1>2, <1>3, <1>4, <1>5, TypeInit DEF IndInv

-----------------------------------------------------------------------------
(* Theorems *)

\* The inductive invariant of the backfill.
THEOREM Invariance == Spec => []IndInv
<1>1. IndInv /\ [Next]_vars => IndInv'
    <2> SUFFICES ASSUME IndInv, [Next]_vars PROVE IndInv'
        OBVIOUS
    <2>1. TypeOK'
        BY TypeInv DEF IndInv
    <2>2. ASSUME NEW w \in Workers, WorkerStep(w) PROVE Go(w) \/ HeldStep(w)
        BY <2>2 DEF WorkerStep, HeldStep
    <2> QED
        BY <2>1, <2>2, HeldInv, GoInv, WriteIndexInv, CollectInv, MainInv DEF Next, Exited
<1> QED
    BY InitInv, <1>1, PTL DEF Spec

\* A run that goes over its error budget never ends with nil, though the workers count
\* their errors without a lock (runningInsertErrs of populate).
THEOREM BudgetHolds == Spec => []BudgetEnforced
<1>1. IndInv => BudgetEnforced
    BY DEF IndInv, OverBudget, Returned, Busy, BudgetEnforced
<1> QED
    BY Invariance, <1>1, PTL

\* The index keys are lower case already, as hashes are: then the list that the backfill
\* writes is the one that the search reads.
LowerKeys == \A e \in Entries : \A k \in IndexKeys[e] : Lower[k] = k

\* A nil of an uninterrupted backfill means what it says: every entry is found under
\* every key, once unless the server pushed it too (populate, idempotentAddToIndex).
THEOREM BackfillExactHolds == LowerKeys => (Spec => []BackfillExact)
<1> SUFFICES ASSUME LowerKeys PROVE Spec => []BackfillExact
    OBVIOUS
<1>1. IndInv => BackfillExact
    <2> SUFFICES ASSUME IndInv, result = "nil", ~sigterm, pending = None
                 PROVE  /\ Indexed
                        /\ \A e \in Entries \ Late : \A k \in IndexKeys[e] : list[Lower[k]][e] = 1
        BY DEF BackfillExact
    <2>1. ~canceled /\ next \notin Entries /\ \A w \in Workers : ~Busy(w)
        BY DEF IndInv, Canceled, Returned
    <2>2. \A e \in Entries : e < next
        BY <2>1, EntriesAssumption DEF IndInv, Given, Entries
    <2>3. \A e \in Entries : ~Reported(e)
        BY DEF IndInv, Returned, Reported
    <2>4. \A e \in Entries : \A k \in IndexKeys[e] : Placed(k, e)
        BY <2>1, <2>2, <2>3 DEF IndInv, Accounted
    <2> QED
        BY <2>4 DEF LowerKeys, Placed, Indexed, Searched
<1> QED
    BY Invariance, <1>1, PTL

=============================================================================
