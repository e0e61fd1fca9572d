---------------------------- MODULE SmartClient ----------------------------
(***************************************************************************)
(* The client SDK (src/src/sdk): one PensieveClient shared by the threads  *)
(* of an application, with its topology, its connection pool, its circuit  *)
(* breaker and its background refresh.  Each of the three parts has a      *)
(* mutex of its own, so a step is the work done under one of them, or one  *)
(* blocking exchange with a server.                                        *)
(***************************************************************************)
EXTENDS RingStore

CONSTANTS Thread,         \* application threads
          Background,     \* the thread of refresh_loop
          Tokens,         \* Tokens[n]: the positions of n's virtual nodes
          Hash,           \* hash_key of the keys asked for
          MaxRetries,     \* Config::max_retries, 2 in the code
          Threshold,      \* Config::circuit_break_threshold, 3 in the code
          MaxIdle,        \* Config::max_connections_per_node, 4 in the code
          Seed,           \* Config::seed_host, where connect() asks
          Unstable,       \* the nodes that may stop and start (bound)
          Lag             \* the nodes the servers are slow to judge (bound)

ASSUME ClientAssumption ==
    /\ Background \notin Thread /\ IsFiniteSet(Thread)
    /\ Tokens \in [Node -> (SUBSET Position) \ {{}}]
    /\ Hash \subseteq Position
    /\ \A m, n \in Node : m # n => Tokens[m] \cap Tokens[n] = {}
    /\ MaxRetries \in Nat /\ MaxIdle \in Nat /\ Threshold \in Nat \ {0}
    /\ Seed \in Node /\ Unstable \subseteq Node /\ Lag \subseteq Node

VARIABLES up,       \* the nodes that run
          settled,  \* the nodes the servers are right about
          nodes,    \* nodes_, from which ring_ is rebuilt
          breaker,  \* breaker[n]: the Entry of n
          pool,     \* pool[n]: idle connections to n, by descriptor
          conns,    \* the open sockets, by descriptor: node, does it still answer
          call,     \* call[t]: what thread t is doing
          refresh   \* refresh[t]: how far its refresh() has got

Worker == Thread \cup {Background}

vars == <<up, settled, nodes, breaker, pool, conns, call, refresh>>

NoFd == -1

Idle == [pc |-> "idle", targets |-> << >>, fd |-> NoFd, status |-> "Ok"]

NoRefresh == [pc |-> "none", todo |-> {}, fd |-> NoFd, fresh |-> {}]

Closed == [state |-> "Closed", failures |-> 0, expired |-> FALSE]

Init ==
    /\ up = Node
    /\ settled = Node
    /\ nodes = {}
    /\ breaker = [n \in Node |-> Closed]
    /\ pool = [n \in Node |-> << >>]
    /\ conns = << >>
    /\ call = [t \in Thread |-> Idle]
    /\ refresh = [t \in Worker |-> NoRefresh]

-----------------------------------------------------------------------------
(* CircuitBreaker: operators on the entry of a node.  consecutive_failures *)
(* is only compared with the threshold, so it is counted up to it; expired *)
(* says that open_duration has passed since opened_at.                     *)

Allows(e) == e.state = "Closed" \/ e.expired

AfterAllow(e) ==
    IF e.state # "Closed" /\ e.expired THEN [e EXCEPT !.state = "HalfOpen"] ELSE e

(* Mutant of AfterSuccess: the failures are forgotten, the state is kept. *)
SuccessKeepsState(e) == [e EXCEPT !.failures = 0]

AfterSuccess(e) == Closed

(* Mutant of AfterFailure: the probe of a half-open breaker finds the node *)
(* dead and the breaker is closed all the same.                            *)
FailureCloses(e) ==
    IF e.state = "HalfOpen" THEN Closed
    ELSE LET count == Min({e.failures + 1, Threshold})
         IN  IF count >= Threshold
             THEN [state |-> "Open", failures |-> count, expired |-> FALSE]
             ELSE [e EXCEPT !.failures = count]

AfterFailure(e) ==
    LET count == Min({e.failures + 1, Threshold})
    IN  IF count >= Threshold
        THEN [state |-> "Open", failures |-> count, expired |-> FALSE]
        ELSE [e EXCEPT !.failures = count]

(* open_duration has passed. *)
Expire(n) ==
    /\ breaker[n].state # "Closed" /\ ~breaker[n].expired
    /\ breaker' = [breaker EXCEPT ![n].expired = TRUE]
    /\ UNCHANGED <<up, settled, nodes, pool, conns, call, refresh>>

-----------------------------------------------------------------------------
(* Sockets *)

(* tcp_connect: the kernel hands out the lowest free descriptor. *)
NewFd == Min((0 .. Cardinality(DOMAIN conns)) \ DOMAIN conns)

Opened(n) ==
    [f \in DOMAIN conns \cup {NewFd} |->
       IF f = NewFd THEN [node |-> n, live |-> TRUE] ELSE conns[f]]

Close(fd) == Restrict(conns, DOMAIN conns \ {fd})

-----------------------------------------------------------------------------
(* TopologyManager *)

(* rebuild_ring.  A token of two nodes would go to the later one in        *)
(* nodes_, whose order is not modelled: ClientAssumption leaves it out.    *)
Ring ==
    [t \in UNION {Tokens[n] : n \in nodes} |-> CHOOSE n \in nodes : t \in Tokens[n]]

FindSuccessors(hash, n) == GetNNodesForKey(Ring, hash, n)

(* What node n may answer: the members it holds Alive, itself among them.  *)
(* Of a node that has stopped or started lately it may be wrong.           *)
Answers(n) ==
    {S \in SUBSET Node : n \in S /\ S \cap settled = up \cap settled}

(* connect(): the view comes from the seed, whose socket is closed again,  *)
(* and the background thread is started.                                   *)
Bootstrap ==
    /\ nodes = {}
    /\ Seed \in up
    /\ nodes' \in Answers(Seed)
    /\ UNCHANGED <<up, settled, breaker, pool, conns, call, refresh>>

(* refresh() copies nodes_.  The background thread starts it when its      *)
(* interval has passed.                                                    *)
RefreshStart(t) ==
    /\ nodes # {}
    /\ refresh[t].pc = "none"
    /\ t # Background => call[t].pc = "refresh"
    /\ refresh' = [refresh EXCEPT ![t] = [NoRefresh EXCEPT !.pc = "fetch", !.todo = nodes]]
    /\ UNCHANGED <<up, settled, nodes, breaker, pool, conns, call>>

(* Mutant of FetchConnect: the refresh gives up when the first node is     *)
(* down.                                                                   *)
FetchFirst(t, n) ==
    /\ refresh[t].pc = "fetch"
    /\ n \in refresh[t].todo
    /\ IF n \in up
       THEN /\ conns' = Opened(n)
            /\ refresh' = [refresh EXCEPT ![t].pc = "read", ![t].todo = @ \ {n},
                                          ![t].fd = NewFd]
       ELSE /\ refresh' = [refresh EXCEPT ![t].todo = {}]
            /\ UNCHANGED conns
    /\ UNCHANGED <<up, settled, nodes, breaker, pool, call>>

(* fetch_topology opens a socket of its own to the next node of the copy,  *)
(* and when the node is down the one after it is asked.                    *)
FetchConnect(t, n) ==
    /\ refresh[t].pc = "fetch"
    /\ n \in refresh[t].todo
    /\ IF n \in up
       THEN /\ conns' = Opened(n)
            /\ refresh' = [refresh EXCEPT ![t].pc = "read", ![t].todo = @ \ {n},
                                          ![t].fd = NewFd]
       ELSE /\ refresh' = [refresh EXCEPT ![t].todo = @ \ {n}]
            /\ UNCHANGED conns
    /\ UNCHANGED <<up, settled, nodes, breaker, pool, call>>

(* Mutant of FetchRead: an early return leaves the broken socket open. *)
FetchLeaks(t) ==
    LET c == conns[refresh[t].fd]
    IN  /\ refresh[t].pc = "read"
        /\ \/ /\ c.live
              /\ \E S \in Answers(c.node) :
                   refresh' = [refresh EXCEPT ![t].pc = "apply", ![t].fd = NoFd,
                                             ![t].fresh = S]
              /\ conns' = Close(refresh[t].fd)
           \/ /\ ~c.live
              /\ refresh' = [refresh EXCEPT ![t].pc = "fetch", ![t].fd = NoFd]
              /\ UNCHANGED conns
        /\ UNCHANGED <<up, settled, nodes, breaker, pool, call>>

(* The node answers, or it has stopped in between and the next is asked;   *)
(* the socket is closed either way.                                        *)
FetchRead(t) ==
    LET c == conns[refresh[t].fd]
    IN  /\ refresh[t].pc = "read"
        /\ \/ /\ c.live
              /\ \E S \in Answers(c.node) :
                   refresh' = [refresh EXCEPT ![t].pc = "apply", ![t].fd = NoFd,
                                             ![t].fresh = S]
           \/ /\ ~c.live
              /\ refresh' = [refresh EXCEPT ![t].pc = "fetch", ![t].fd = NoFd]
        /\ conns' = Close(refresh[t].fd)
        /\ UNCHANGED <<up, settled, nodes, breaker, pool, call>>

Returned(t) == IF t = Background THEN call ELSE [call EXCEPT ![t] = Idle]

(* Mutant of RefreshEnd: a view is taken over even when nobody answered. *)
RefreshEndAlways(t) ==
    /\ \/ refresh[t].pc = "apply"
       \/ refresh[t].pc = "fetch" /\ refresh[t].todo = {}
    /\ nodes' = refresh[t].fresh
    /\ refresh' = [refresh EXCEPT ![t] = NoRefresh]
    /\ call' = Returned(t)
    /\ UNCHANGED <<up, settled, breaker, pool, conns>>

(* The answer replaces nodes_ and the ring, or nobody answered. *)
RefreshEnd(t) ==
    /\ \/ refresh[t].pc = "apply" /\ nodes' = refresh[t].fresh
       \/ refresh[t].pc = "fetch" /\ refresh[t].todo = {} /\ nodes' = nodes
    /\ refresh' = [refresh EXCEPT ![t] = NoRefresh]
    /\ call' = Returned(t)
    /\ UNCHANGED <<up, settled, breaker, pool, conns>>

-----------------------------------------------------------------------------
(* PensieveClient::execute and the ConnectionPool *)

Goto(t, pc) == [call EXCEPT ![t].pc = pc]

(* A call works through the owner and its successors; with none it ends. *)
Execute(t, hash) ==
    /\ call[t] = Idle
    /\ FindSuccessors(hash, MaxRetries + 1) # << >>
    /\ call' = [call EXCEPT ![t].pc = "allow",
                            ![t].targets = FindSuccessors(hash, MaxRetries + 1)]
    /\ UNCHANGED <<up, settled, nodes, breaker, pool, conns, refresh>>

Target(t) == Head(call[t].targets)

(* The loop goes on with the next target; after the last the call fails. *)
Advance(t) ==
    IF Len(call[t].targets) = 1 THEN [call EXCEPT ![t] = Idle]
    ELSE [call EXCEPT ![t] = [Idle EXCEPT !.pc = "allow",
                                          !.targets = Tail(call[t].targets)]]

Allow(t) ==
    /\ call[t].pc = "allow"
    /\ LET e == breaker[Target(t)]
       IN  /\ breaker' = [breaker EXCEPT ![Target(t)] = AfterAllow(e)]
           /\ call' = IF Allows(e) THEN Goto(t, "acquire") ELSE Advance(t)
    /\ UNCHANGED <<up, settled, nodes, pool, conns, refresh>>

(* Mutant of AcquirePooled: the connection stays in the pool. *)
AcquireShared(t) ==
    /\ call[t].pc = "acquire"
    /\ pool[Target(t)] # << >>
    /\ call' = [call EXCEPT ![t].pc = "exchange", ![t].fd = Head(pool[Target(t)])]
    /\ UNCHANGED <<up, settled, nodes, breaker, pool, conns, refresh>>

(* acquire takes the connection idle longest, *)
AcquirePooled(t) ==
    /\ call[t].pc = "acquire"
    /\ pool[Target(t)] # << >>
    /\ call' = [call EXCEPT ![t].pc = "exchange", ![t].fd = Head(pool[Target(t)])]
    /\ pool' = [pool EXCEPT ![Target(t)] = Tail(@)]
    /\ UNCHANGED <<up, settled, nodes, breaker, conns, refresh>>

(* or, when there is none, *)
AcquireNone(t) ==
    /\ call[t].pc = "acquire"
    /\ pool[Target(t)] = << >>
    /\ call' = Goto(t, "connect")
    /\ UNCHANGED <<up, settled, nodes, breaker, pool, conns, refresh>>

(* opens one without the lock. *)
Connect(t) ==
    /\ call[t].pc = "connect"
    /\ IF Target(t) \in up
       THEN /\ conns' = Opened(Target(t))
            /\ call' = [call EXCEPT ![t].pc = "exchange", ![t].fd = NewFd]
       ELSE /\ call' = Goto(t, "failure")
            /\ UNCHANGED conns
    /\ UNCHANGED <<up, settled, nodes, breaker, pool, refresh>>

(* send_request and recv_response: the whole answer is read, Ok standing   *)
(* for NotFound too, *)
Answered(t) ==
    /\ call[t].pc = "exchange"
    /\ conns[call[t].fd].live
    /\ \E status \in {"Ok", "Error"} :
         call' = [call EXCEPT ![t].pc = "release", ![t].status = status]
    /\ UNCHANGED <<up, settled, nodes, breaker, pool, conns, refresh>>

(* or the connection turns out to be broken and is discarded. *)
Broken(t) ==
    /\ call[t].pc = "exchange"
    /\ ~conns[call[t].fd].live
    /\ conns' = Close(call[t].fd)
    /\ call' = [call EXCEPT ![t].pc = "failure", ![t].fd = NoFd]
    /\ UNCHANGED <<up, settled, nodes, breaker, pool, refresh>>

(* on_failure *)
OnFailure(t) ==
    /\ call[t].pc = "failure"
    /\ breaker' = [breaker EXCEPT ![Target(t)] = AfterFailure(@)]
    /\ call' = Advance(t)
    /\ UNCHANGED <<up, settled, nodes, pool, conns, refresh>>

(* pool.release: back to the pool, or closed when the pool is full. *)
Release(t) ==
    /\ call[t].pc = "release"
    /\ IF Len(pool[Target(t)]) >= MaxIdle
       THEN conns' = Close(call[t].fd) /\ UNCHANGED pool
       ELSE /\ pool' = [pool EXCEPT ![Target(t)] = Append(@, call[t].fd)]
            /\ UNCHANGED conns
    /\ call' = [call EXCEPT ![t].pc = "success", ![t].fd = NoFd]
    /\ UNCHANGED <<up, settled, nodes, breaker, refresh>>

(* record_success; an Error with no value makes the call refresh the view  *)
(* before it returns.                                                      *)
OnSuccess(t) ==
    /\ call[t].pc = "success"
    /\ breaker' = [breaker EXCEPT ![Target(t)] = AfterSuccess(@)]
    /\ call' = IF call[t].status = "Error" THEN Goto(t, "refresh")
               ELSE [call EXCEPT ![t] = Idle]
    /\ UNCHANGED <<up, settled, nodes, pool, conns, refresh>>

-----------------------------------------------------------------------------
(* A server stops and breaks its connections, or starts; the others take   *)
(* their time to find out.                                                 *)
Stop(n) ==
    /\ n \in up
    /\ up' = up \ {n}
    /\ settled' = settled \ ({n} \cap Lag)
    /\ conns' = [f \in DOMAIN conns |->
                   [conns[f] EXCEPT !.live = @ /\ conns[f].node # n]]
    /\ UNCHANGED <<nodes, breaker, pool, call, refresh>>

Start(n) ==
    /\ n \notin up
    /\ up' = up \cup {n}
    /\ settled' = settled \ ({n} \cap Lag)
    /\ UNCHANGED <<nodes, breaker, pool, conns, call, refresh>>

Settle(n) ==
    /\ n \notin settled
    /\ settled' = settled \cup {n}
    /\ UNCHANGED <<up, nodes, breaker, pool, conns, call, refresh>>

CallStep(t) ==
    \/ Allow(t) \/ AcquirePooled(t) \/ AcquireNone(t) \/ Connect(t)
    \/ Answered(t) \/ Broken(t)
    \/ OnFailure(t) \/ Release(t) \/ OnSuccess(t)

RefreshStep(t) ==
    \/ RefreshStart(t) \/ FetchRead(t) \/ RefreshEnd(t)
    \/ \E n \in Node : FetchConnect(t, n)

Next ==
    \/ Bootstrap
    \/ \E t \in Thread : CallStep(t) \/ \E h \in Hash : Execute(t, h)
    \/ \E t \in Worker : RefreshStep(t)
    \/ \E n \in Node : Expire(n) \/ Settle(n)
    \/ \E n \in Unstable : Stop(n) \/ Start(n)

Spec == Init /\ [][Next]_vars

(* Threads run, the application connects and keeps calling, time passes. *)
Fairness ==
    /\ \A t \in Thread : WF_vars(CallStep(t)) /\ WF_vars(\E h \in Hash : Execute(t, h))
    /\ \A t \in Worker : WF_vars(RefreshStep(t))
    /\ \A n \in Node : WF_vars(Expire(n))
    /\ WF_vars(Bootstrap)

FairSpec == Spec /\ Fairness

-----------------------------------------------------------------------------
(* Properties *)

PC == {"idle", "allow", "acquire", "connect", "exchange", "failure", "release",
       "success", "refresh"}

(* The state of the client has its types, and a call or a refresh that     *)
(* runs finds a view that is not empty: no answer empties nodes_ again     *)
(* (topology_manager.cpp 129-158).                                         *)
TypeOK ==
    /\ up \subseteq Node
    /\ nodes \subseteq Node
    /\ settled \subseteq Node
    /\ \A n \in Node :
         /\ breaker[n].state \in {"Closed", "Open", "HalfOpen"}
         /\ breaker[n].failures \in 0 .. Threshold
         /\ breaker[n].expired \in BOOLEAN
    /\ \A t \in Thread : call[t].pc \in PC /\ call[t].fd \in Nat \cup {NoFd}
    /\ \A t \in Thread : call[t] # Idle => call[t].targets # << >> /\ nodes # {}
    /\ \A t \in Worker :
         /\ refresh[t].pc \in {"none", "fetch", "read", "apply"}
         /\ refresh[t].fd \in Nat \cup {NoFd}
         /\ refresh[t].pc # "none" => nodes # {}

(* The socket that thread t holds in a call or in a refresh. *)
Held(t) ==
    ({refresh[t].fd} \cup IF t \in Thread THEN {call[t].fd} ELSE {}) \ {NoFd}

(* Sockets are neither shared nor leaked nor used after close: one held by *)
(* a thread, in a call or in a refresh, is open, is held by nobody else    *)
(* and is in no pool, that of a call talks to its target, a pool holds     *)
(* open connections to its node, each once, and every open socket is held  *)
(* by a thread or by the pool of its node, whichever way calls and         *)
(* refreshes leave (connection_pool.cpp 73-100, pensieve_client.cpp 52-76, *)
(* topology_manager.cpp 72-95).                                            *)
ConnectionsOwned ==
    /\ \A t \in Worker : \A f \in Held(t) :
         /\ f \in DOMAIN conns
         /\ \A s \in Worker \ {t} : f \notin Held(s)
         /\ \A n \in Node : f \notin Range(pool[n])
    /\ \A t \in Thread : call[t].fd # NoFd => conns[call[t].fd].node = Target(t)
    /\ \A n \in Node :
         /\ IsInjective(pool[n])
         /\ \A f \in Range(pool[n]) : f \in DOMAIN conns /\ conns[f].node = n
    /\ \A f \in DOMAIN conns :
         \/ \E t \in Worker : f \in Held(t)
         \/ f \in Range(pool[conns[f].node])

(* The client keeps at most max_connections_per_node idle connections to a *)
(* node, and one more socket per thread, the refresh thread included       *)
(* (connection_pool.cpp 87-96).                                            *)
DescriptorsBounded ==
    /\ \A n \in Node : Len(pool[n]) <= MaxIdle
    /\ Cardinality(DOMAIN conns) <= MaxIdle * Cardinality(Node) + Cardinality(Worker)

(* A node that stays down and owns what is asked for ends up shunned: the  *)
(* answers read from it before it stopped may close its breaker again, but *)
(* once they are used up it stays open, but for a probe each open_duration *)
(* (circuit_breaker.cpp 8-43).                                             *)
DeadNodeShunned ==
    \A n \in Node :
        <>[](n \notin up /\ \A h \in Hash : GetNodeForKey(Ring, h) = n)
          => <>[](breaker[n].state # "Closed")

(* A node that keeps running, and owns what is asked for, is let in again  *)
(* for good: the connections its restart left broken in the pool are used  *)
(* up, and its breaker closes and stays closed (circuit_breaker.cpp 8-43,  *)
(* connection_pool.cpp 73-96).                                             *)
HealthyNodeReadmitted ==
    \A n \in Node :
        <>[](n \in up /\ \A h \in Hash : GetNodeForKey(Ring, h) = n)
          => <>[](breaker[n].state = "Closed")

(* A client that still knows a running node catches up with the cluster    *)
(* once the servers agree on it, though a slow refresh may bring an older  *)
(* answer after a newer one (topology_manager.cpp 141-158 and 231-238).    *)
ViewCatchesUp ==
    \A S \in SUBSET Node \ {{}} :
        <>[](up = S /\ settled = Node /\ nodes \cap S # {}) => []<>(nodes = S)
=============================================================================
