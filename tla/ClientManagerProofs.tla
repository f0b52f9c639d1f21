------------------------ MODULE ClientManagerProofs ------------------------
(***************************************************************************)
(* The client cache is safe for any number of goroutines, trees and gRPC   *)
(* configurations.                                                         *)
(***************************************************************************)
EXTENDS ClientManager, TLAPS

\* Every tree has a configuration.
LEMMA ConfigOfType == \A t \in Trees : ConfigOf(t) \in Configs
  BY ConfigAssumption DEF ConfigOf

\* The server starts with empty maps.
LEMMA InitInv == Init => IndInv
<1> SUFFICES ASSUME Init PROVE IndInv
  OBVIOUS
<1>1. TypeOK
  BY DEF Init, TypeOK, PC
<1>2. /\ handed = {} /\ \A t \in Trees : clients[t] = {}
      /\ \A c \in Configs : connections[c] = 0
      /\ \A p \in Threads : pc[p] # "publish"
  BY DEF Init
<1>3. shutdown <=> closing # "no"
  BY DEF Init
<1> QED
  BY <1>1, <1>2, <1>3 DEF IndInv, OneClientPerTree, SharedConnections

\* A step that leaves the two maps alone and hands out cached clients only.
LEMMA CachedOnly ==
    ASSUME IndInv, NEW p \in Threads, NEW label \in PC, label # "publish",
           Goto(p, label), UNCHANGED <<cache, closing, conn>>,
           arg' \in [Threads -> Trees],
           \A q \in Threads : q # p => arg'[q] = arg[q],
           handed' = handed
    PROVE  IndInv'
<1>1. TypeOK'
  BY DEF IndInv, TypeOK, Goto, cache
<1>2. \A q \in Threads : q # p => pc'[q] = pc[q]
  BY DEF IndInv, TypeOK, Goto
<1>3. pc'[p] # "publish"
  BY DEF IndInv, TypeOK, Goto
<1> QED
  BY <1>1, <1>2, <1>3 DEF IndInv, cache, OneClientPerTree, SharedConnections

\* The critical sections of GetTrillianClient and getConn keep the invariant.
LEMMA CallInv ==
    ASSUME IndInv, NEW p \in Threads, Call(p)
    PROVE  IndInv'
<1> USE ConfigOfType
<1>0. arg[p] \in Trees
  BY DEF IndInv, TypeOK
<1>1. CASE CheckClient(p)
  <2>1. clients[arg[p]] \subseteq handed
    BY <1>0 DEF IndInv
  <2>2. handed' = handed /\ (Goto(p, "idle") \/ Goto(p, "conn"))
    BY <1>1, <2>1 DEF CheckClient, Return
  <2> QED
    BY <1>1, <2>2, CachedOnly DEF CheckClient, PC, IndInv, TypeOK
<1>2. CASE FindConn(p) \/ Redial(p)
  <2> DEFINE c == connections[ConfigOf(arg[p])]
  <2>1. CASE c # 0
    <3>1. Goto(p, "publish") /\ conn' = [conn EXCEPT ![p] = c]
      BY <1>2, <2>1 DEF FindConn, Redial
    <3>2. UNCHANGED <<cache, handed, closing, arg>>
      BY <1>2 DEF FindConn, Redial
    <3>3. TypeOK'
      BY <1>0, <3>1, <3>2 DEF IndInv, TypeOK, Goto, PC, cache
    <3>4. /\ \A q \in Threads : q # p => pc'[q] = pc[q] /\ conn'[q] = conn[q]
          /\ conn'[p] = c
      BY <3>1 DEF IndInv, TypeOK, Goto
    <3> QED
      BY <2>1, <3>2, <3>3, <3>4 DEF IndInv, cache, OneClientPerTree, SharedConnections
  <2>2. CASE c = 0
    BY <1>2, <2>2, CachedOnly DEF FindConn, Redial, PC, IndInv, TypeOK
  <2> QED
    BY <2>1, <2>2
<1>3. CASE Dial(p)
  <2> DEFINE k == ConfigOf(arg[p])
             n == dials + 1
  <2>1. /\ connections[k] = 0 /\ k \in Configs /\ n \in Nat /\ n # 0
        /\ connections' = [connections EXCEPT ![k] = n]
        /\ conn' = [conn EXCEPT ![p] = n] /\ dials' = n
        /\ open' = open \union {n} /\ pc' = [pc EXCEPT ![p] = "publish"]
        /\ UNCHANGED <<clients, shutdown, made, handed, closing, arg>>
    BY <1>0, <1>3 DEF Dial, Goto, IndInv, TypeOK
  <2> HIDE DEF k, n
  <2>2. TypeOK'
    BY <2>1 DEF IndInv, TypeOK, PC
  <2>3. /\ connections'[k] = n /\ \A c \in Configs : c # k => connections'[c] = connections[c]
        /\ conn'[p] = n /\ \A q \in Threads : q # p => conn'[q] = conn[q] /\ pc'[q] = pc[q]
    BY <2>1 DEF IndInv, TypeOK
  <2>4. ~shutdown => \A x \in handed : ConfigOf(x.tree) # k
    BY <2>1 DEF IndInv
  <2>5. \A c \in Configs : connections'[c] # 0 => connections'[c] \in open'
    BY <2>1, <2>3 DEF IndInv
  <2>6. ~shutdown => \A x \in handed : /\ clients[x.tree] = {x}
                                       /\ x.conn = connections'[ConfigOf(x.tree)]
                                       /\ x.conn # 0
    BY <2>3, <2>4 DEF IndInv, TypeOK, Objects
  <2>7. ~shutdown => \A q \in Threads : pc'[q] = "publish" =>
                        conn'[q] = connections'[ConfigOf(arg[q])] /\ conn'[q] # 0
    <3> SUFFICES ASSUME ~shutdown, NEW q \in Threads, pc'[q] = "publish"
                 PROVE  conn'[q] = connections'[ConfigOf(arg[q])] /\ conn'[q] # 0
      OBVIOUS
    <3>1. CASE q = p
      BY <2>1, <2>3, <3>1 DEF k
    <3>2. CASE q # p
      <4>1. conn[q] = connections[ConfigOf(arg[q])] /\ conn[q] # 0 /\ conn'[q] = conn[q]
        BY <2>3, <3>2 DEF IndInv
      <4>2. ConfigOf(arg[q]) \in Configs /\ ConfigOf(arg[q]) # k
        BY <2>1, <4>1 DEF IndInv, TypeOK
      <4> QED
        BY <2>3, <4>1, <4>2
    <3> QED
      BY <3>1, <3>2
  <2> QED
    BY <2>1, <2>2, <2>5, <2>6, <2>7 DEF IndInv, OneClientPerTree, SharedConnections
<1>4. CASE DialFails(p)
  BY <1>4, CachedOnly DEF DialFails, Return, PC, IndInv, TypeOK
<1>5. CASE Publish(p)
  <2> DEFINE t == arg[p]
             new == [tree |-> t, conn |-> conn[p], serial |-> made + 1]
  <2>0. pc[p] = "publish"
    BY <1>5 DEF Publish
  <2>1. CASE shutdown \/ clients[t] # {}
    <3>1. clients[t] \subseteq handed
      BY <1>0 DEF IndInv
    <3>2. handed' = handed /\ Goto(p, "idle") /\ UNCHANGED <<cache, closing, arg, conn>>
      BY <1>5, <2>1, <3>1 DEF Publish, Return, cache
    <3> QED
      BY <3>2, CachedOnly DEF PC, IndInv, TypeOK
  <2>2. CASE ~shutdown /\ clients[t] = {}
    <3>1. /\ clients' = [clients EXCEPT ![t] = {new}] /\ made' = made + 1
          /\ pc' = [pc EXCEPT ![p] = "idle"] /\ handed' = handed \union {new}
          /\ UNCHANGED <<connections, shutdown, dials, open, closing, arg, conn>>
      BY <1>5, <2>2 DEF Publish, Return, Goto
    <3>2. /\ new \in Objects /\ new.tree = t /\ new.conn = conn[p]
          /\ conn[p] = connections[ConfigOf(t)] /\ conn[p] # 0
      BY <1>0, <2>0, <2>2 DEF IndInv, TypeOK, Objects
    <3> HIDE DEF new
    <3>3. TypeOK'
      BY <1>0, <3>1, <3>2 DEF IndInv, TypeOK, PC
    <3>4. \A x \in handed : x.tree # t
      BY <2>2 DEF IndInv
    <3>5. /\ clients'[t] = {new}
          /\ \A u \in Trees : u # t => clients'[u] = clients[u]
          /\ \A q \in Threads : q # p => pc'[q] = pc[q]
          /\ pc'[p] = "idle"
      BY <1>0, <3>1 DEF IndInv, TypeOK
    <3>6. \A x \in handed' : /\ clients'[x.tree] = {x}
                             /\ x.conn = connections[ConfigOf(x.tree)] /\ x.conn # 0
      BY <2>2, <3>1, <3>2, <3>4, <3>5 DEF IndInv, TypeOK, Objects
    <3>7. (OneClientPerTree /\ SharedConnections)'
      BY <3>1, <3>6 DEF OneClientPerTree, SharedConnections
    <3>8. \A u \in Trees : clients'[u] \subseteq handed'
      BY <3>1, <3>5 DEF IndInv
    <3> QED
      BY <2>2, <3>1, <3>3, <3>5, <3>6, <3>7, <3>8 DEF IndInv
  <2> QED
    BY <2>1, <2>2
<1> QED
  BY <1>1, <1>2, <1>3, <1>4, <1>5 DEF Call

\* So does every other step, Close included.
LEMMA NextInv == ASSUME IndInv, [Next]_vars PROVE IndInv'
<1>1. ASSUME NEW p \in Threads, NEW t \in Trees, GetTrillianClient(p, t) PROVE IndInv'
  BY <1>1, CachedOnly DEF GetTrillianClient, PC, IndInv, TypeOK
<1>2. ASSUME CloseClients PROVE IndInv'
  BY <1>2 DEF CloseClients, IndInv, TypeOK, OneClientPerTree, SharedConnections
<1>3. ASSUME CloseConns PROVE IndInv'
  BY <1>3 DEF CloseConns, IndInv, TypeOK, OneClientPerTree, SharedConnections
<1>4. ASSUME UNCHANGED vars PROVE IndInv'
  BY <1>4 DEF vars, IndInv, TypeOK, OneClientPerTree, SharedConnections
<1> QED
  BY <1>1, <1>2, <1>3, <1>4, CallInv DEF Next

\* The maps stay consistent in every execution of the client manager.
THEOREM Invariance == Spec => []IndInv
  BY InitInv, NextInv, PTL DEF Spec

\* However calls interleave, a tree has one client object.
THEOREM OneClient == Spec => []OneClientPerTree
  BY Invariance, PTL DEF IndInv

\* Trees of one gRPC configuration share one connection.
THEOREM OneConnection == Spec => []SharedConnections
  BY Invariance, PTL DEF IndInv

\* Connections are closed only after the shutdown flag is up.
THEOREM Usable == Spec => []ClientsUsable
<1>1. IndInv => ClientsUsable
  BY ConfigOfType DEF IndInv, ClientsUsable, TypeOK, Objects
<1> QED
  BY <1>1, Invariance, PTL

\* After the flag is up nobody is given a client.
THEOREM NothingAfterShutdown == Spec => NoClientAfterShutdown
<1>1. ASSUME IndInv, [Next]_vars PROVE shutdown => handed' = handed
  <2> SUFFICES ASSUME shutdown PROVE handed' = handed
    OBVIOUS
  <2>1. ASSUME NEW p \in Threads, Call(p) PROVE handed' = handed
    BY <2>1 DEF Call, CheckClient, FindConn, Redial, Dial, DialFails, Publish, Return
  <2> QED
    BY <1>1, <2>1 DEF Next, GetTrillianClient, CloseClients, CloseConns, vars
<1> QED
  BY <1>1, Invariance, PTL DEF Spec, NoClientAfterShutdown
=============================================================================
