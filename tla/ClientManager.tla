---------------------------- MODULE ClientManager ----------------------------
(***************************************************************************)
(* The per-server cache of Trillian clients and gRPC connections: request  *)
(* goroutines call GetTrillianClient, which looks up and fills two maps    *)
(* under two RWMutexes with double checked locking, while StopAPI calls    *)
(* Close once.                                                             *)
(*                                                                         *)
(* Every access to a map happens inside a critical section of its mutex,   *)
(* no section blocks on anything and none is nested in another, so a       *)
(* section is one step; other goroutines run between the sections.         *)
(***************************************************************************)
EXTENDS Naturals, FiniteSets

CONSTANTS
    Threads,        \* goroutines of request handlers
    Trees,          \* tree IDs
    Configs,        \* gRPC configurations
    TreeConfig,     \* treeIDToConfig: a function on some of the trees
    DefaultConfig,  \* defaultConfig
    MaxDials        \* bound on the number of connections dialled

ASSUME ConfigAssumption ==
    /\ DefaultConfig \in Configs
    /\ DOMAIN TreeConfig \subseteq Trees
    /\ \A t \in DOMAIN TreeConfig : TreeConfig[t] \in Configs
ASSUME MaxDialsAssumption == MaxDials \in Nat

VARIABLES
    connections,  \* connections[c]: connection cached for c, 0 if none
    clients,      \* trillianClients[t]: clients cached for t, at most one
    shutdown,     \* the shutdown flag
    dials,        \* connections dialled so far; they are 1 .. dials
    open,         \* connections not closed
    made,         \* client objects made so far
    handed,       \* every client object ever returned to a caller
    closing,      \* progress of Close: "no", "conns" or "done"
    pc, arg, conn \* per goroutine: where it is, its tree, its connection

cache == <<connections, clients, shutdown, dials, open, made>>
vars == <<connections, clients, shutdown, dials, open, made, handed, closing, pc, arg, conn>>

Objects == [tree : Trees, conn : Nat, serial : Nat]
PC == {"idle", "check", "conn", "dial", "publish"}

ConfigOf(t) == IF t \in DOMAIN TreeConfig THEN TreeConfig[t] ELSE DefaultConfig

Goto(p, label) == pc' = [pc EXCEPT ![p] = label]

Return(p, C) == Goto(p, "idle") /\ handed' = handed \union C
-----------------------------------------------------------------------------
GetTrillianClient(p, t) ==
    /\ pc[p] = "idle"
    /\ Goto(p, "check")
    /\ arg' = [arg EXCEPT ![p] = t]
    /\ UNCHANGED <<cache, handed, closing, conn>>

\* First section, under clientMu.RLock.
CheckClient(p) ==
    /\ pc[p] = "check"
    /\ \/ shutdown /\ Return(p, {})
       \/ ~shutdown /\ clients[arg[p]] # {} /\ Return(p, clients[arg[p]])
       \/ ~shutdown /\ clients[arg[p]] = {} /\ Goto(p, "conn") /\ UNCHANGED handed
    /\ UNCHANGED <<cache, closing, arg, conn>>

\* getConn, under connMu.RLock.
FindConn(p) ==
    LET c == connections[ConfigOf(arg[p])]
    IN  /\ pc[p] = "conn"
        /\ IF c # 0
           THEN Goto(p, "publish") /\ conn' = [conn EXCEPT ![p] = c]
           ELSE Goto(p, "dial") /\ UNCHANGED conn
        /\ UNCHANGED <<cache, handed, closing, arg>>

\* Mutant: the connection somebody else dialled is not taken over.
RedialForgets(p) ==
    /\ pc[p] = "dial"
    /\ connections[ConfigOf(arg[p])] # 0
    /\ Goto(p, "publish")
    /\ UNCHANGED <<cache, handed, closing, arg, conn>>

\* getConn, under connMu.Lock: somebody else may have dialled meanwhile.
Redial(p) ==
    LET c == connections[ConfigOf(arg[p])]
    IN  /\ pc[p] = "dial"
        /\ c # 0
        /\ Goto(p, "publish")
        /\ conn' = [conn EXCEPT ![p] = c]
        /\ UNCHANGED <<cache, handed, closing, arg>>

\* Mutant: no second look at the map under the write lock.
DialUnchecked(p) ==
    /\ pc[p] = "dial"
    /\ dials < MaxDials
    /\ dials' = dials + 1
    /\ open' = open \union {dials + 1}
    /\ connections' = [connections EXCEPT ![ConfigOf(arg[p])] = dials + 1]
    /\ conn' = [conn EXCEPT ![p] = dials + 1]
    /\ Goto(p, "publish")
    /\ UNCHANGED <<clients, shutdown, made, handed, closing, arg>>

Dial(p) ==
    LET k == ConfigOf(arg[p])
    IN  /\ pc[p] = "dial"
        /\ connections[k] = 0
        /\ dials < MaxDials
        /\ dials' = dials + 1
        /\ open' = open \union {dials + 1}
        /\ connections' = [connections EXCEPT ![k] = dials + 1]
        /\ conn' = [conn EXCEPT ![p] = dials + 1]
        /\ Goto(p, "publish")
        /\ UNCHANGED <<clients, shutdown, made, handed, closing, arg>>

DialFails(p) ==
    /\ pc[p] = "dial"
    /\ connections[ConfigOf(arg[p])] = 0
    /\ Return(p, {})
    /\ UNCHANGED <<cache, closing, arg, conn>>

\* For the mutants: a new client replaces whatever the map holds.
Overwrite(p) ==
    LET new == [tree |-> arg[p], conn |-> conn[p], serial |-> made + 1]
    IN  /\ clients' = [clients EXCEPT ![arg[p]] = {new}]
        /\ made' = made + 1
        /\ Return(p, {new})

\* Mutant: no second look at the map under the write lock.
PublishUnchecked(p) ==
    /\ pc[p] = "publish"
    /\ \/ shutdown /\ Return(p, {}) /\ UNCHANGED <<clients, made>>
       \/ ~shutdown /\ Overwrite(p)
    /\ UNCHANGED <<connections, shutdown, dials, open, closing, arg, conn>>

\* Mutant: no second look at the shutdown flag.
PublishLate(p) ==
    /\ pc[p] = "publish"
    /\ \/ clients[arg[p]] # {} /\ Return(p, clients[arg[p]]) /\ UNCHANGED <<clients, made>>
       \/ clients[arg[p]] = {} /\ Overwrite(p)
    /\ UNCHANGED <<connections, shutdown, dials, open, closing, arg, conn>>

\* Last section, under clientMu.Lock: both checks are made again.
Publish(p) ==
    LET t == arg[p]
        new == [tree |-> t, conn |-> conn[p], serial |-> made + 1]
    IN  /\ pc[p] = "publish"
        /\ \/ /\ shutdown
              /\ Return(p, {})
              /\ UNCHANGED <<clients, made>>
           \/ /\ ~shutdown /\ clients[t] # {}
              /\ Return(p, clients[t])
              /\ UNCHANGED <<clients, made>>
           \/ /\ ~shutdown /\ clients[t] = {}
              /\ clients' = [clients EXCEPT ![t] = {new}]
              /\ made' = made + 1
              /\ Return(p, {new})
        /\ UNCHANGED <<connections, shutdown, dials, open, closing, arg, conn>>

\* Close, first section, under clientMu.Lock.
CloseClients ==
    /\ closing = "no"
    /\ shutdown' = TRUE
    /\ clients' = [t \in Trees |-> {}]
    /\ closing' = "conns"
    /\ UNCHANGED <<connections, dials, open, made, handed, pc, arg, conn>>

\* Mutant: the connections are closed before the flag is up.
CloseConnsEarly ==
    /\ closing \in {"no", "conns"}
    /\ open' = open \ {connections[c] : c \in Configs}
    /\ connections' = [c \in Configs |-> 0]
    /\ closing' = IF closing = "no" THEN "no" ELSE "done"
    /\ UNCHANGED <<clients, shutdown, dials, made, handed, pc, arg, conn>>

\* Close, second section, under connMu.Lock.
CloseConns ==
    /\ closing = "conns"
    /\ open' = open \ {connections[c] : c \in Configs}
    /\ connections' = [c \in Configs |-> 0]
    /\ closing' = "done"
    /\ UNCHANGED <<clients, shutdown, dials, made, handed, pc, arg, conn>>
-----------------------------------------------------------------------------
Init ==
    /\ connections = [c \in Configs |-> 0]
    /\ clients = [t \in Trees |-> {}]
    /\ shutdown = FALSE
    /\ dials = 0
    /\ open = {}
    /\ made = 0
    /\ handed = {}
    /\ closing = "no"
    /\ pc = [p \in Threads |-> "idle"]
    /\ arg \in [Threads -> Trees]
    /\ conn = [p \in Threads |-> 0]

Call(p) ==
    \/ CheckClient(p)
    \/ FindConn(p)
    \/ Redial(p)
    \/ Dial(p)
    \/ DialFails(p)
    \/ Publish(p)

Next ==
    \/ \E p \in Threads, t \in Trees : GetTrillianClient(p, t)
    \/ \E p \in Threads : Call(p)
    \/ CloseClients
    \/ CloseConns

Spec == Init /\ [][Next]_vars
-----------------------------------------------------------------------------
(* Properties *)

\* Every variable has its type.
TypeOK ==
    /\ connections \in [Configs -> Nat]
    /\ clients \in [Trees -> SUBSET Objects]
    /\ shutdown \in BOOLEAN
    /\ dials \in Nat
    /\ open \in SUBSET Nat
    /\ made \in Nat
    /\ handed \in SUBSET Objects
    /\ closing \in {"no", "conns", "done"}
    /\ pc \in [Threads -> PC]
    /\ arg \in [Threads -> Trees]
    /\ conn \in [Threads -> Nat]

\* Whoever asks for the client of a tree gets the same object, also when two
\* goroutines miss the cache at the same time.
OneClientPerTree ==
    \A x, y \in handed : x.tree = y.tree => x = y

\* Trees with the same gRPC configuration share one connection.
SharedConnections ==
    \A x, y \in handed : ConfigOf(x.tree) = ConfigOf(y.tree) => x.conn = y.conn

\* Until Close is called every client that was handed out has an open
\* connection: shutting down sets the flag before it closes anything.
ClientsUsable ==
    \A x \in handed : shutdown \/ x.conn \in open

\* Once Close has begun no caller is given a client any more.
NoClientAfterShutdown ==
    [][shutdown => handed' = handed]_vars

\* What makes these hold: before shutdown the maps only grow, so the clients
\* handed out are the cached ones and their connections the cached ones, and a
\* goroutine about to publish carries the connection of its tree.
IndInv ==
    /\ TypeOK
    /\ shutdown <=> closing # "no"
    /\ \A c \in Configs : connections[c] # 0 => connections[c] \in open
    /\ \A t \in Trees : clients[t] \subseteq handed
    /\ ~shutdown => \A x \in handed : /\ clients[x.tree] = {x}
                                      /\ x.conn = connections[ConfigOf(x.tree)]
                                      /\ x.conn # 0
    /\ ~shutdown => \A p \in Threads : pc[p] = "publish" =>
                        /\ conn[p] = connections[ConfigOf(arg[p])]
                        /\ conn[p] # 0
    /\ OneClientPerTree
    /\ SharedConnections

=============================================================================
