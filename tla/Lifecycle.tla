----------------------------- MODULE Lifecycle -----------------------------
(***************************************************************************)
(* The life of a server process: it listens, serves requests, and stops at *)
(* a signal.  A request leaves goroutines behind that write the index, the *)
(* attestation and events; stopping waits for requests, for a while, and   *)
(* then closes the clients which those goroutines still may use.           *)
(*                                                                         *)
(* The publisher counts its calls with a sync.WaitGroup, modelled from its *)
(* contract: Wait is released when the count falls to zero, and panics if  *)
(* the count is no longer zero when it gets to run.                        *)
(***************************************************************************)
EXTENDS Naturals, FiniteSets

CONSTANTS Listeners,  \* enabled listeners; rekor-server has "http" only
          Requests,   \* requests that create an entry with an attestation
          Encodings   \* encodings in which events are published

VARIABLES
  phase,        \* "start", "listening", "serving", "exited", "panicked"
  interrupted,  \* s.interrupted
  shutdown,     \* the channel s.shutdown is closed
  listener,     \* listener[l]: "open", "draining", "ok", "failed"
  expired,      \* the graceful timeout has passed
  success,      \* of the loop in handleShutdown
  received,     \* listeners whose result that loop has received
  stop,         \* where handleShutdown is
  request,      \* request[r]: "idle", "running", "added", "over"
  via,          \* via[r]: the listener of r
  jobs,         \* goroutines [op, req] of requests
  calls,        \* goroutines in publishEvent: [req, enc, at, late]
  waiter,       \* Close in wg.Wait: "no", "waiting", "woken", "returned"
  open,         \* clients that are not closed
  unindexed     \* history: requests whose entry could not be indexed for that

process == <<phase, interrupted, shutdown>>
stopping == <<listener, expired, success, received, stop>>
work == <<request, via, jobs, calls>>
clients == <<open, unindexed>>
vars == <<process, stopping, work, waiter, clients>>

Alive == phase \notin {"exited", "panicked"}
Clients == {"publisher", "index", "trillian"}

\* The counter of the wait group.
InPublish == {c \in calls : c.at = "counted"}

---------------------------------------------------------------------------
(* Start.                                                                  *)

\* The address may be taken.
Listen ==
  /\ phase = "start"
  /\ phase' \in {"listening", "exited"}
  /\ UNCHANGED <<interrupted, shutdown, stopping, work, waiter, clients>>

Serve ==
  /\ phase = "listening"
  /\ phase' = "serving"
  /\ UNCHANGED <<interrupted, shutdown, stopping, work, waiter, clients>>

\* The signal is handled from Serve on; before, it ends the process.
handleInterrupt ==
  /\ \/ /\ phase \in {"start", "listening"}
        /\ phase' = "exited"
        /\ UNCHANGED <<interrupted, shutdown>>
     \/ /\ phase = "serving" /\ ~interrupted
        /\ interrupted' = TRUE
        /\ shutdown' = TRUE
        /\ UNCHANGED phase
  /\ UNCHANGED <<stopping, work, waiter, clients>>

---------------------------------------------------------------------------
(* Requests and their goroutines.                                          *)

Accept(r, l) ==
  /\ phase = "serving" /\ listener[l] = "open" /\ request[r] = "idle"
  /\ request' = [request EXCEPT ![r] = "running"]
  /\ via' = [via EXCEPT ![r] = l]
  /\ UNCHANGED <<process, stopping, jobs, calls, waiter, clients>>

\* The leaf is in the log: the index and the attestation are left to goroutines.
AddLeaf(r) ==
  /\ Alive /\ request[r] = "running" /\ "trillian" \in open
  /\ request' = [request EXCEPT ![r] = "added"]
  /\ jobs' = jobs \cup {[op |-> "index", req |-> r], [op |-> "attest", req |-> r]}
  /\ UNCHANGED <<process, stopping, via, calls, waiter, clients>>

\* The signed answer, with a goroutine for the event.
Reply(r) ==
  /\ Alive /\ request[r] = "added"
  /\ request' = [request EXCEPT ![r] = "over"]
  /\ jobs' = jobs \cup {[op |-> "event", req |-> r]}
  /\ UNCHANGED <<process, stopping, via, calls, waiter, clients>>

\* Any error on the way.
ReplyError(r) ==
  /\ Alive /\ request[r] \in {"running", "added"}
  /\ request' = [request EXCEPT ![r] = "over"]
  /\ UNCHANGED <<process, stopping, via, jobs, calls, waiter, clients>>

\* WriteIndex, which fails if the client is closed; and storeAttestation.
RunJob(j) ==
  /\ Alive /\ j.op \in {"index", "attest"}
  /\ jobs' = jobs \ {j}
  /\ unindexed' = IF j.op = "index" /\ "index" \notin open THEN unindexed \cup {j.req} ELSE unindexed
  /\ UNCHANGED <<process, stopping, request, via, calls, waiter, open>>

\* The event is made, and published once for every encoding; or it cannot be made.
MakeEvent(j) ==
  /\ Alive /\ j.op = "event"
  /\ jobs' = jobs \ {j}
  /\ \/ calls' = calls \cup {[req |-> j.req, enc |-> e, at |-> "called", late |-> FALSE] : e \in Encodings}
     \/ UNCHANGED calls
  /\ UNCHANGED <<process, stopping, request, via, waiter, clients>>

\* Publish: wg.Add.
Publish(c) ==
  /\ Alive /\ c.at = "called"
  /\ calls' = (calls \ {c}) \cup {[c EXCEPT !.at = "counted", !.late = waiter = "returned"]}
  /\ UNCHANGED <<process, stopping, request, via, jobs, waiter, clients>>

\* The call is answered, fails or times out, and wg.Done releases the waiter.
PublishReturns(c) ==
  /\ Alive /\ c.at = "counted"
  /\ calls' = calls \ {c}
  /\ waiter' = IF waiter = "waiting" /\ InPublish = {c} THEN "woken" ELSE waiter
  /\ UNCHANGED <<process, stopping, request, via, jobs, clients>>

---------------------------------------------------------------------------
(* handleShutdown.                                                         *)

\* One goroutine for each listener, with a context of the graceful timeout.
handleShutdown ==
  /\ phase = "serving" /\ stop = "wait" /\ shutdown
  /\ stop' = "collect"
  /\ UNCHANGED <<process, listener, expired, success, received, work, waiter, clients>>

\* http.Server.Shutdown closes the listener at once ...
Shutdown(l) ==
  /\ phase = "serving" /\ stop # "wait" /\ listener[l] = "open"
  /\ listener' = [listener EXCEPT ![l] = "draining"]
  /\ UNCHANGED <<process, expired, success, received, stop, work, waiter, clients>>

Busy(l) == \E r \in Requests : request[r] \in {"running", "added"} /\ via[r] = l

\* Mutant: the context has no timeout.
ShutdownReturnsPatient(l) ==
  /\ phase = "serving" /\ listener[l] = "draining"
  /\ ~Busy(l) /\ listener' = [listener EXCEPT ![l] = "ok"]
  /\ UNCHANGED <<process, expired, success, received, stop, work, waiter, clients>>

\* ... and returns when no request of it is left, with an error if the listener
\* could not be closed, or at the timeout.
ShutdownReturns(l) ==
  /\ phase = "serving" /\ listener[l] = "draining"
  /\ \/ ~Busy(l) /\ listener' = [listener EXCEPT ![l] = "ok"]
     \/ /\ ~Busy(l) \/ expired
        /\ listener' = [listener EXCEPT ![l] = "failed"]
  /\ UNCHANGED <<process, expired, success, received, stop, work, waiter, clients>>

GraceExpires ==
  /\ phase = "serving" /\ stop = "collect" /\ ~expired
  /\ expired' = TRUE
  /\ UNCHANGED <<process, listener, success, received, stop, work, waiter, clients>>

\* success && <-shutdownChan: nothing is received after the first failure.
Receive(l) ==
  /\ phase = "serving" /\ stop = "collect" /\ success
  /\ l \notin received /\ listener[l] \in {"ok", "failed"}
  /\ received' = received \cup {l}
  /\ success' = (listener[l] = "ok")
  /\ UNCHANGED <<process, listener, expired, stop, work, waiter, clients>>

\* Mutant: StopAPI is called in any case.
ReceivedAllAnyway ==
  /\ phase = "serving" /\ stop = "collect"
  /\ ~success \/ received = Listeners
  /\ stop' = "StopAPI"
  /\ UNCHANGED <<process, listener, expired, success, received, work, waiter, clients>>

\* StopAPI is called if all listeners are down in good order.
ReceivedAll ==
  /\ phase = "serving" /\ stop = "collect"
  /\ ~success \/ received = Listeners
  /\ stop' = IF success THEN "StopAPI" ELSE "done"
  /\ UNCHANGED <<process, listener, expired, success, received, work, waiter, clients>>

---------------------------------------------------------------------------
(* StopAPI: the publisher, the index, Trillian.                            *)

\* Mutant: calls in progress are not waited for.
ClosePublisherAtOnce ==
  /\ phase = "serving" /\ stop = "StopAPI" /\ waiter = "no"
  /\ waiter' = "returned"
  /\ UNCHANGED <<process, stopping, work, clients>>

\* Publisher.Close: wg.Wait.
ClosePublisher ==
  /\ phase = "serving" /\ stop = "StopAPI" /\ waiter = "no"
  /\ waiter' = IF InPublish = {} THEN "returned" ELSE "waiting"
  /\ UNCHANGED <<process, stopping, work, clients>>

WaitReturns ==
  /\ phase = "serving" /\ waiter = "woken"
  /\ IF InPublish = {} THEN waiter' = "returned" /\ UNCHANGED phase
     ELSE phase' = "panicked" /\ UNCHANGED waiter
  /\ UNCHANGED <<interrupted, shutdown, stopping, work, clients>>

\* Then the clients are closed in this order.
StopAPI ==
  /\ phase = "serving" /\ stop = "StopAPI" /\ waiter = "returned"
  /\ open' = open \ {CHOOSE x \in open :
                       x = IF "publisher" \in open THEN "publisher"
                           ELSE IF "index" \in open THEN "index" ELSE "trillian"}
  /\ stop' = IF open' = {} THEN "done" ELSE stop
  /\ UNCHANGED <<process, listener, expired, success, received, work, waiter, unindexed>>

\* Serve returns when every listener has stopped serving and handleShutdown is
\* done; the deferred Shutdown finds the flag set, and the process ends with all
\* of its goroutines.
ServeReturns ==
  /\ phase = "serving" /\ stop = "done"
  /\ \A l \in Listeners : listener[l] # "open"
  /\ phase' = "exited"
  /\ UNCHANGED <<interrupted, shutdown, stopping, work, waiter, clients>>

---------------------------------------------------------------------------
Init ==
  /\ phase = "start" /\ interrupted = FALSE /\ shutdown = FALSE
  /\ listener = [l \in Listeners |-> "open"]
  /\ expired = FALSE /\ success = TRUE /\ received = {} /\ stop = "wait"
  /\ request = [r \in Requests |-> "idle"]
  /\ via \in [Requests -> Listeners]
  /\ jobs = {} /\ calls = {} /\ waiter = "no" /\ open = Clients /\ unindexed = {}

Stopping ==
  \/ handleShutdown
  \/ \E l \in Listeners : Shutdown(l) \/ ShutdownReturns(l) \/ Receive(l)
  \/ GraceExpires \/ ReceivedAll \/ ClosePublisher \/ WaitReturns \/ StopAPI \/ ServeReturns
  \/ \E c \in calls : PublishReturns(c)

Next ==
  \/ Listen \/ Serve \/ handleInterrupt
  \/ \E r \in Requests : \/ \E l \in Listeners : Accept(r, l)
                         \/ AddLeaf(r) \/ Reply(r) \/ ReplyError(r)
  \/ \E j \in jobs : RunJob(j) \/ MakeEvent(j)
  \/ \E c \in calls : Publish(c)
  \/ Stopping

\* Fair: the runtime runs what is ready, timers fire, and a Publish call has a
\* timeout of its own.  Requests and the other goroutines may hang.
Spec == Init /\ [][Next]_vars /\ WF_vars(Stopping)

---------------------------------------------------------------------------
\* No request finds its clients closed: they are closed only after every listener
\* was drained, and a shutdown that ran into its timeout leaves them open.  An entry
\* stays out of the index only if all requests had been answered by then
\* (handleShutdown, StopAPI).
RequestsKeepClients ==
  Alive /\ (\E r \in Requests : request[r] \in {"running", "added"}) =>
    open = Clients /\ unindexed = {}

\* A Publish call that began before Close had finished waiting is not cut off by
\* the closing of the client, whenever the goroutine that makes it was scheduled:
\* calls that begin later are the only ones that can be (Publisher.Close).
CountedEventsSent ==
  \A c \in InPublish : ~c.late => (~Alive \/ "publisher" \in open)

\* A signal ends the process, even if requests hang (Serve, handleShutdown).
Stops == interrupted ~> ~Alive
=============================================================================
