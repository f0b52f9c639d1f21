--------------------------- MODULE LifecycleProofs ---------------------------
(***************************************************************************)
(* Stopping is safe for any number of listeners, requests and encodings of *)
(* events: what a request, or a counted publication, uses is not closed.   *)
(***************************************************************************)
EXTENDS Lifecycle, TLAPS

InProgress == {"running", "added"}
Calls == [req : Requests, enc : Encodings, at : {"called", "counted"}, late : BOOLEAN]

\* Every variable has its type.
Types ==
  /\ phase \in {"start", "listening", "serving", "exited", "panicked"}
  /\ listener \in [Listeners -> {"open", "draining", "ok", "failed"}]
  /\ success \in BOOLEAN
  /\ received \subseteq Listeners
  /\ stop \in {"wait", "collect", "StopAPI", "done"}
  /\ request \in [Requests -> {"idle", "over"} \cup InProgress]
  /\ via \in [Requests -> Listeners]
  /\ jobs \subseteq [op : {"index", "attest", "event"}, req : Requests]
  /\ calls \subseteq Calls
  /\ waiter \in {"no", "waiting", "woken", "returned"}
  /\ open \subseteq Clients

\* A listener that has shut down in good order has no request left, and takes none.
Drained == \A l \in Listeners : listener[l] = "ok" => ~Busy(l)

\* handleShutdown has counted only those, and calls StopAPI after all of them.
Collected ==
  /\ success => \A l \in received : listener[l] = "ok"
  /\ stop = "StopAPI" => success /\ received = Listeners

\* Clients are closed by StopAPI, the publisher after its wait; an index write fails
\* only after that.
ClosedLast ==
  /\ open # Clients => /\ stop \in {"StopAPI", "done"}
                       /\ success /\ received = Listeners
  /\ "publisher" \notin open => waiter = "returned"
  /\ unindexed # {} => open # Clients

\* Once the wait is over, the calls that are counted came too late for it.
CountedLate == waiter = "returned" => \A c \in InPublish : c.late

IndInv == Types /\ Drained /\ Collected /\ ClosedLast /\ CountedLate

\* A process that has just started has nothing to drain.
LEMMA InitInv == Init => IndInv
<1> SUFFICES ASSUME Init PROVE IndInv
  OBVIOUS
<1>1. Types
  BY DEF Init, Types, InProgress, Clients
<1>2. Drained /\ Collected /\ ClosedLast /\ CountedLate
  BY DEF Init, Drained, Collected, ClosedLast, CountedLate, InPublish, Clients
<1> QED
  BY <1>1, <1>2 DEF IndInv

\* Start, the signal and the end of the process touch neither requests nor clients.
LEMMA ProcessInv ==
  ASSUME IndInv, Listen \/ Serve \/ handleInterrupt \/ ServeReturns
  PROVE  IndInv'
<1>1. phase' \in {"start", "listening", "serving", "exited", "panicked"}
  BY DEF Listen, Serve, handleInterrupt, ServeReturns, IndInv, Types
<1>2. UNCHANGED <<stopping, work, waiter, clients>>
  BY DEF Listen, Serve, handleInterrupt, ServeReturns
<1> QED
  BY <1>1, <1>2 DEF IndInv, Types, Drained, Collected, ClosedLast, CountedLate, Busy,
     InPublish, stopping, work, clients

\* A request is accepted by an open listener and stays with it until it is answered.
LEMMA RequestInv ==
  ASSUME IndInv, NEW r \in Requests,
         (\E l \in Listeners : Accept(r, l)) \/ AddLeaf(r) \/ Reply(r) \/ ReplyError(r)
  PROVE  IndInv'
<1>1. /\ UNCHANGED <<process, stopping, calls, waiter, clients>>
      /\ jobs' \subseteq [op : {"index", "attest", "event"}, req : Requests]
  BY DEF Accept, AddLeaf, Reply, ReplyError, IndInv, Types
<1>2. /\ request' \in [Requests -> {"idle", "over"} \cup InProgress]
      /\ via' \in [Requests -> Listeners]
  BY DEF Accept, AddLeaf, Reply, ReplyError, IndInv, Types, InProgress
<1>3. \A q \in Requests, l \in Listeners :
        (request'[q] \in InProgress /\ via'[q] = l) =>
           \/ listener[l] = "open"
           \/ request[q] \in InProgress /\ via[q] = l
  BY DEF Accept, AddLeaf, Reply, ReplyError, IndInv, Types, InProgress
<1>4. Types'
  BY <1>1, <1>2 DEF IndInv, Types, process, stopping, clients
<1>5. Drained'
  BY <1>1, <1>3 DEF IndInv, Drained, Busy, stopping, InProgress
<1> QED
  BY <1>1, <1>4, <1>5 DEF IndInv, Collected, ClosedLast, CountedLate, InPublish,
     stopping, clients

\* The goroutines of a request close nothing; a publication that begins after the wait
\* is late.
LEMMA GoroutineInv ==
  ASSUME IndInv,
         \/ \E j \in jobs : RunJob(j) \/ MakeEvent(j)
         \/ \E c \in calls : Publish(c) \/ PublishReturns(c)
  PROVE  IndInv'
<1>1. UNCHANGED <<process, stopping, request, via, open>>
  BY DEF RunJob, MakeEvent, Publish, PublishReturns, clients
<1>2. jobs' \subseteq jobs
  BY DEF RunJob, MakeEvent, Publish, PublishReturns
<1>3. waiter' \in {"no", "waiting", "woken", "returned"} /\ (waiter' = "returned" <=> waiter = "returned")
  BY DEF RunJob, MakeEvent, Publish, PublishReturns, IndInv, Types
<1>4. unindexed' # {} => open # Clients
  BY DEF RunJob, MakeEvent, Publish, PublishReturns, IndInv, ClosedLast, clients, Clients
<1>5. \A c \in calls' : /\ c \in Calls
                        /\ c.at = "counted" => c \in calls \/ c.late = (waiter = "returned")
  <2>1. CASE \E j \in jobs : RunJob(j)
    BY <2>1 DEF RunJob, IndInv, Types
  <2>2. CASE \E j \in jobs : MakeEvent(j)
    <3> PICK j \in jobs : MakeEvent(j)
      BY <2>2
    <3>1. j.req \in Requests
      BY DEF IndInv, Types
    <3>2. \A e \in Encodings :
            LET c == [req |-> j.req, enc |-> e, at |-> "called", late |-> FALSE]
            IN  c \in Calls /\ c.at # "counted"
      BY <3>1 DEF Calls
    <3>3. \/ calls' = calls
          \/ calls' = calls \cup {[req |-> j.req, enc |-> e, at |-> "called", late |-> FALSE] : e \in Encodings}
      BY DEF MakeEvent
    <3> QED
      BY <3>2, <3>3 DEF IndInv, Types
  <2>3. CASE \E c \in calls : Publish(c)
    <3> PICK c \in calls : Publish(c)
      BY <2>3
    <3> DEFINE d == [c EXCEPT !.at = "counted", !.late = (waiter = "returned")]
    <3>1. calls' = (calls \ {c}) \cup {d}
      BY DEF Publish
    <3>2. d \in Calls /\ d.late = (waiter = "returned")
      BY DEF IndInv, Types, Calls
    <3> QED
      BY <3>1, <3>2 DEF IndInv, Types
  <2>4. CASE \E c \in calls : PublishReturns(c)
    BY <2>4 DEF PublishReturns, IndInv, Types
  <2> QED
    BY <2>1, <2>2, <2>3, <2>4
<1>6. Types'
  BY <1>1, <1>2, <1>3, <1>5 DEF IndInv, Types, process, stopping
<1>7. CountedLate'
  BY <1>3, <1>5 DEF IndInv, CountedLate, InPublish
<1> QED
  BY <1>1, <1>3, <1>4, <1>6, <1>7 DEF IndInv, Drained, Collected, ClosedLast, Busy, stopping

\* A listener is reported as shut down when it has no request, and StopAPI is called
\* when all are.
LEMMA ShutdownInv ==
  ASSUME IndInv,
         \/ handleShutdown \/ GraceExpires \/ ReceivedAll
         \/ \E l \in Listeners : Shutdown(l) \/ ShutdownReturns(l) \/ Receive(l)
  PROVE  IndInv'
<1>1. UNCHANGED <<process, work, waiter, clients>>
  BY DEF handleShutdown, GraceExpires, ReceivedAll, Shutdown, ShutdownReturns, Receive
<1>2. Types'
  <2>1. CASE handleShutdown \/ GraceExpires \/ ReceivedAll
    BY <1>1, <2>1 DEF handleShutdown, GraceExpires, ReceivedAll, IndInv, Types, process, work,
       clients
  <2>2. ASSUME NEW l \in Listeners, Shutdown(l) \/ ShutdownReturns(l) PROVE Types'
    BY <1>1, <2>2 DEF Shutdown, ShutdownReturns, IndInv, Types, process, work, clients
  <2>3. ASSUME NEW l \in Listeners, Receive(l) PROVE Types'
    BY <1>1, <2>3 DEF Receive, IndInv, Types, process, work, clients
  <2> QED
    BY <2>1, <2>2, <2>3
<1>3. Drained'
  <2>1. \A l \in Listeners : listener'[l] = "ok" => listener[l] = "ok" \/ ~Busy(l)
    BY DEF handleShutdown, GraceExpires, ReceivedAll, Shutdown, ShutdownReturns, Receive,
       IndInv, Types
  <2> QED
    BY <1>1, <2>1 DEF IndInv, Drained, Busy, work
<1>4. Collected'
  <2>1. CASE handleShutdown \/ GraceExpires \/ ReceivedAll
    BY <2>1 DEF handleShutdown, GraceExpires, ReceivedAll, IndInv, Types, Collected
  <2>2. CASE \E l \in Listeners : Shutdown(l) \/ ShutdownReturns(l)
    BY <2>2 DEF Shutdown, ShutdownReturns, IndInv, Types, Collected
  <2>3. CASE \E l \in Listeners : Receive(l)
    BY <2>3 DEF Receive, IndInv, Types, Collected
  <2> QED
    BY <2>1, <2>2, <2>3
<1>5. ClosedLast'
  BY <1>1 DEF handleShutdown, GraceExpires, ReceivedAll, Shutdown, ShutdownReturns, Receive,
     IndInv, Types, Collected, ClosedLast, clients
<1>6. CountedLate'
  BY <1>1 DEF IndInv, CountedLate, InPublish, work
<1> QED
  BY <1>2, <1>3, <1>4, <1>5, <1>6 DEF IndInv

\* The wait of Close ends when no call is counted, and the clients are closed after it.
LEMMA StopInv ==
  ASSUME IndInv, ClosePublisher \/ WaitReturns \/ StopAPI
  PROVE  IndInv'
<1>1. UNCHANGED <<listener, success, received, work, unindexed>>
  BY DEF ClosePublisher, WaitReturns, StopAPI, stopping, clients
<1>2. waiter' = "returned" => waiter = "returned" \/ InPublish = {}
  BY DEF ClosePublisher, WaitReturns, StopAPI
<1>3. open' \subseteq open
  BY DEF ClosePublisher, WaitReturns, StopAPI, clients
<1>4. open' # open => stop = "StopAPI" /\ waiter = "returned" /\ waiter' = "returned"
  BY DEF ClosePublisher, WaitReturns, StopAPI, clients
<1>5. stop' \in {stop, "done"} /\ (stop' # stop => stop = "StopAPI")
  BY DEF ClosePublisher, WaitReturns, StopAPI, stopping
<1>6. /\ waiter' \in {"no", "waiting", "woken", "returned"}
      /\ waiter = "returned" => waiter' = "returned"
      /\ phase' \in {"start", "listening", "serving", "exited", "panicked"}
  BY DEF ClosePublisher, WaitReturns, StopAPI, IndInv, Types, process
<1>7. Types'
  BY <1>1, <1>3, <1>5, <1>6 DEF IndInv, Types, work
<1>8. Drained' /\ Collected'
  BY <1>1, <1>5 DEF IndInv, Types, Drained, Collected, Busy, work
<1>9. ClosedLast'
  BY <1>1, <1>3, <1>4, <1>5, <1>6 DEF IndInv, Types, Collected, ClosedLast
<1>10. CountedLate'
  BY <1>1, <1>2 DEF IndInv, CountedLate, InPublish, work
<1> QED
  BY <1>7, <1>8, <1>9, <1>10 DEF IndInv

\* IndInv holds in every state of the process: drained listeners are counted, clients are
\* closed only after all of them, and only late publications are counted after the wait.
THEOREM Invariance == Spec => []IndInv
<1>1. IndInv /\ [Next]_vars => IndInv'
  <2> SUFFICES ASSUME IndInv, [Next]_vars PROVE IndInv'
    OBVIOUS
  <2>1. CASE UNCHANGED vars
    BY <2>1 DEF vars, process, stopping, work, clients, IndInv, Types, Drained, Collected,
       ClosedLast, CountedLate, Busy, InPublish
  <2>2. CASE Next
    BY <2>2, ProcessInv, RequestInv, GoroutineInv, ShutdownInv, StopInv DEF Next, Stopping
  <2> QED
    BY <2>1, <2>2
<1> QED
  BY <1>1, InitInv, PTL DEF Spec

\* No request finds its clients closed, and an entry stays out of the index only if all
\* requests had been answered (handleShutdown, StopAPI).
THEOREM RequestsKeepClientsHolds == Spec => []RequestsKeepClients
<1>1. IndInv => RequestsKeepClients
  BY DEF IndInv, Types, Drained, Collected, ClosedLast, RequestsKeepClients, Busy
<1> QED
  BY <1>1, Invariance, PTL

\* A Publish call that was counted before Close had finished waiting keeps its client
\* (Publisher.Publish, Publisher.Close).
THEOREM CountedEventsSentHolds == Spec => []CountedEventsSent
<1>1. IndInv => CountedEventsSent
  BY DEF IndInv, ClosedLast, CountedLate, CountedEventsSent
<1> QED
  BY <1>1, Invariance, PTL
=============================================================================
