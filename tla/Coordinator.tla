---------------------------- MODULE Coordinator ----------------------------
(***************************************************************************)
(* The request path of a cluster: every node runs the coordinator of       *)
(* src/src/coordinator/coordinator.cpp over its own hash ring, its own     *)
(* store and its own wait group.  A request that a node does not own is    *)
(* proxied to the owner its ring names; that node routes it again by ITS   *)
(* ring, so a request is a chain of handler coroutines, one per node it    *)
(* has been forwarded to.  Concurrent GETs of one key on one node share a  *)
(* single fetch (wait_group.cpp).                                          *)
(*                                                                         *)
(* A node runs on one event-loop thread, and a handler gives the thread up *)
(* only at a co_await: each action is the code between two suspensions.    *)
(***************************************************************************)
EXTENDS RingStore, Cache

CONSTANTS
    Client,     \* client requests, each on a connection of its own
    Tokens,     \* Tokens[n]: the positions of n's virtual nodes
    HashKey,    \* HashKey[k]: position of a key (hash_key)
    Workload,   \* the requests clients send (bound)
    Unstable    \* the nodes that may be restarted (bound)

ASSUME TokensAssumption ==
    Tokens \in [Node -> (SUBSET Position) \ {{}}]
ASSUME HashKeyAssumption == HashKey \in [Key -> Position]

(* No two nodes hash one of their virtual nodes to the same position.      *)
(* Nothing in the code ensures this; it is stated where it is needed.      *)
DistinctTokens ==
    \A m, n \in Node : m # n => Tokens[m] \cap Tokens[n] = {}

VARIABLES
    ring,       \* ring[n]: n's RingStore
    store,      \* store[n]: contents of n's LocalStore
    pending,    \* pending[n][k]: the handler fetching k for n's wait group
    chain       \* chain[r]: the handlers of request r, in forwarding order

vars == <<ring, store, pending, chain>>

(* Other stands for an opcode the code has no name for: it is routed and   *)
(* forwarded like a write.                                                 *)
Request ==
    [op : {"Get", "Del", "ClusterInfo", "Other"}, key : Key, value : {Absent}]
      \cup [op : {"Put"}, key : Key, value : Value]

Status == {"Ok", "NotFound", "Error"}

ASSUME WorkloadAssumption == Workload \subseteq Request
ASSUME UnstableAssumption == Unstable \subseteq Node

Response == [status : Status, value : Value \cup {Absent}]

Reply(status) == [status |-> status, value |-> Absent]

OkValue(v) == [status |-> "Ok", value |-> v]

(* Where a handler is suspended:                                           *)
(*   route   the request is read, routing has not begun                    *)
(*   fetch   initiator of a collapsed GET, waiting for the owner           *)
(*   wait    suspended in the wait group of another handler's fetch        *)
(*   proxy   any other request waiting for the owner                       *)
(*   reply   response computed, being written                              *)
(*   done    response written                                              *)
(*   dead    the node restarted under the handler                          *)
PC == {"route", "fetch", "wait", "proxy", "reply", "done", "dead"}

Handler == [node : Node, req : Request, pc : PC,
            owner : Node \cup {NoNode}, resp : Response]

(* handle_connection once a request has been read from the connection. *)
NewHandler(n, q) ==
    [node |-> n, req |-> q, pc |-> "route",
     owner |-> NoNode, resp |-> Reply("Error")]

(* A handler is named by its request and its position in the chain. *)
NoFetch == <<>>

HandlerId == Client \X (Nat \ {0})

NoTraffic ==
    /\ store = [n \in Node |-> EmptyCache]
    /\ pending = [n \in Node |-> [k \in Key |-> NoFetch]]
    /\ chain = [r \in Client |-> << >>]

Init ==
    /\ ring = [n \in Node |-> AddNode(EmptyRing, n, Tokens[n])]
    /\ NoTraffic

-----------------------------------------------------------------------------
(* Membership changes reach the ring through the on_change callback of     *)
(* main.cpp.  A node is always a live member of its own list (Swim.tla),   *)
(* so the callback never removes a node from its own ring.                 *)

RingAdd(n, m) ==
    /\ ring' = [ring EXCEPT ![n] = AddNode(@, m, Tokens[m])]
    /\ UNCHANGED <<store, pending, chain>>

RingRemove(n, m) ==
    /\ m # n
    /\ ring' = [ring EXCEPT ![n] = RemoveNode(@, m)]
    /\ UNCHANGED <<store, pending, chain>>

-----------------------------------------------------------------------------
(* A client's request has arrived at node n and has been read. *)
Accept(r, n, q) ==
    /\ chain[r] = << >>
    /\ chain' = [chain EXCEPT ![r] = <<NewHandler(n, q)>>]
    /\ UNCHANGED <<ring, store, pending>>

OwnerSeenBy(n, k) == GetNodeForKey(ring[n], HashKey[k])

(* The handler moves to pc with the response resp. *)
Goto(h, pc, resp) == [h EXCEPT !.pc = pc, !.resp = resp]

Routing(r, i) == i \in DOMAIN chain[r] /\ chain[r][i].pc = "route"

IsLocal(n, k) == OwnerSeenBy(n, k) \in {NoNode, n}

(* CLUSTER_INFO is answered from the member list, without the ring. *)
RouteClusterInfo(r, i) ==
    /\ Routing(r, i)
    /\ chain[r][i].req.op = "ClusterInfo"
    /\ chain' = [chain EXCEPT ![r][i] = Goto(@, "reply", Reply("Ok"))]
    /\ UNCHANGED <<ring, store, pending>>

(* serve_local: the outcome resp and the contents it leaves in the store. *)
ServeLocal(q, before, resp, after) ==
    LET k == q.key
    IN  CASE q.op = "Get" ->
               /\ after = before
               /\ resp = IF before[k] # Absent THEN OkValue(before[k])
                                               ELSE Reply("NotFound")
          [] q.op = "Put" ->
               \/ PutOk(before, after, k, q.value) /\ resp = Reply("Ok")
               \/ PutFailed(before, after, k) /\ resp = Reply("Error")
          [] q.op = "Del" ->
               /\ Deleted(before, after, k)
               /\ resp = Reply(IF before[k] # Absent THEN "Ok" ELSE "NotFound")
          [] OTHER -> after = before /\ resp = Reply("Error")

RouteLocal(r, i) ==
    /\ Routing(r, i)
    /\ chain[r][i].req.op # "ClusterInfo"
    /\ LET n == chain[r][i].node
           q == chain[r][i].req
       IN  /\ IsLocal(n, q.key)
           /\ \E resp \in Response, after \in Contents :
                /\ ServeLocal(q, store[n], resp, after)
                /\ store' = [store EXCEPT ![n] = after]
                /\ chain' = [chain EXCEPT ![r][i] = Goto(@, "reply", resp)]
    /\ UNCHANGED <<ring, pending>>

(* Mutant of RouteRemote: the owner is not kept for proxy_to_peer. *)
RouteOwnerLost(r, i, pc) ==
    /\ ~IsLocal(chain[r][i].node, chain[r][i].req.key)
    /\ chain' = [chain EXCEPT ![r][i].pc = pc]

(* A request the ring gives to a peer: the owner is read here and kept     *)
(* across every later suspension.                                          *)
RouteRemote(r, i, pc) ==
    LET n == chain[r][i].node
        k == chain[r][i].req.key
    IN  /\ ~IsLocal(n, k)
        /\ chain' = [chain EXCEPT ![r][i] =
                        [@ EXCEPT !.pc = pc, !.owner = OwnerSeenBy(n, k)]]

(* Mutant of RouteInitiate: try_join always makes the caller initiator. *)
InitiateAlways(r, i) ==
    /\ Routing(r, i)
    /\ chain[r][i].req.op = "Get"
    /\ pending' = [pending EXCEPT ![chain[r][i].node][chain[r][i].req.key] = <<r, i>>]
    /\ RouteRemote(r, i, "fetch")
    /\ UNCHANGED <<ring, store>>

(* GET, try_join inserted the key: this handler is the initiator. *)
RouteInitiate(r, i) ==
    /\ Routing(r, i)
    /\ chain[r][i].req.op = "Get"
    /\ LET n == chain[r][i].node
           k == chain[r][i].req.key
       IN  /\ pending[n][k] = NoFetch
           /\ pending' = [pending EXCEPT ![n][k] = <<r, i>>]
    /\ RouteRemote(r, i, "fetch")
    /\ UNCHANGED <<ring, store>>

(* GET, the key is being fetched: wait for the initiator's complete(). *)
RouteJoin(r, i) ==
    /\ Routing(r, i)
    /\ chain[r][i].req.op = "Get"
    /\ pending[chain[r][i].node][chain[r][i].req.key] # NoFetch
    /\ RouteRemote(r, i, "wait")
    /\ UNCHANGED <<ring, store, pending>>

RouteProxy(r, i) ==
    /\ Routing(r, i)
    /\ chain[r][i].req.op \notin {"Get", "ClusterInfo"}
    /\ RouteRemote(r, i, "proxy")
    /\ UNCHANGED <<ring, store, pending>>

-----------------------------------------------------------------------------
(* proxy_to_peer: acquire a connection, send the request, read the answer. *)

Proxying(r, i) ==
    i \in DOMAIN chain[r] /\ chain[r][i].pc \in {"fetch", "proxy"}

(* The request reaches the owner, whose coordinator starts a handler. *)
Send(r, i) ==
    /\ Proxying(r, i)
    /\ Len(chain[r]) = i
    /\ chain' = [chain EXCEPT ![r] = Append(@,
                    NewHandler(chain[r][i].owner, chain[r][i].req))]
    /\ UNCHANGED <<ring, store, pending>>

(* What complete() hands a waiter, and the waiter makes of it. *)
Shared(resp) ==
    IF resp.status = "Ok" THEN OkValue(resp.value) ELSE Reply("NotFound")

Waiting(s, j, n, k) ==
    /\ chain[s][j].pc = "wait"
    /\ chain[s][j].node = n
    /\ chain[s][j].req.key = k

(* Mutant of Finish: complete() erases the key but resumes no waiter. *)
FinishAlone(r, i, resp) ==
    LET h == chain[r][i]
    IN  /\ chain' = [chain EXCEPT ![r][i] = Goto(@, "reply", resp)]
        /\ pending' = IF h.pc = "fetch"
                      THEN [pending EXCEPT ![h.node][h.req.key] = NoFetch]
                      ELSE pending
        /\ UNCHANGED <<ring, store>>

(* The proxied call of handler (r, i) has returned resp.  The initiator of *)
(* a GET erases the key from the wait group and complete() resumes every   *)
(* waiter before it returns.                                               *)
Finish(r, i, resp) ==
    LET h == chain[r][i]
        k == h.req.key
        collapsed == h.pc = "fetch"
        Step(s, j) ==
            IF s = r /\ j = i THEN Goto(chain[s][j], "reply", resp)
            ELSE IF collapsed /\ Waiting(s, j, h.node, k)
                 THEN Goto(chain[s][j], "reply", Shared(resp))
            ELSE IF s = r /\ j = i + 1 /\ chain[s][j].pc = "reply"
                 THEN [chain[s][j] EXCEPT !.pc = "done"]
            ELSE chain[s][j]
    IN  /\ chain' = [s \in Client |-> [j \in DOMAIN chain[s] |-> Step(s, j)]]
        /\ pending' = IF collapsed
                      THEN [pending EXCEPT ![h.node][k] = NoFetch]
                      ELSE pending
        /\ UNCHANGED <<ring, store>>

(* The owner's response arrives. *)
Return(r, i) ==
    /\ Proxying(r, i)
    /\ i + 1 \in DOMAIN chain[r]
    /\ chain[r][i + 1].pc = "reply"
    /\ Finish(r, i, chain[r][i + 1].resp)

(* Mutant of Fail: a call that failed is reported as done. *)
FailSilently(r, i) ==
    /\ Proxying(r, i)
    /\ Finish(r, i, Reply("Ok"))

(* The owner is not in the member list, it cannot be reached, or the       *)
(* connection breaks before the whole response is read.                    *)
Fail(r, i) ==
    /\ Proxying(r, i)
    /\ Finish(r, i, Reply("Error"))

-----------------------------------------------------------------------------
(* write_response to the client, or to a peer that has stopped waiting. *)
WriteResponse(r, i) ==
    /\ i \in DOMAIN chain[r]
    /\ chain[r][i].pc = "reply"
    /\ i > 1 => ~Proxying(r, i - 1)
    /\ chain' = [chain EXCEPT ![r][i] = [@ EXCEPT !.pc = "done"]]
    /\ UNCHANGED <<ring, store, pending>>

(* Mutant of Restart: main() does not add the node to its own ring. *)
RestartOffRing(n) ==
    /\ ring' = [ring EXCEPT ![n] = EmptyRing]
    /\ store' = [store EXCEPT ![n] = EmptyCache]
    /\ pending' = [pending EXCEPT ![n] = [k \in Key |-> NoFetch]]
    /\ chain' = [r \in Client |-> [i \in DOMAIN chain[r] |->
                    IF chain[r][i].node = n /\ chain[r][i].pc # "done"
                    THEN [chain[r][i] EXCEPT !.pc = "dead"]
                    ELSE chain[r][i]]]

(* The process of node n dies and is started again: its handlers, its wait *)
(* group and its store are gone and its ring holds only itself.            *)
Restart(n) ==
    /\ ring' = [ring EXCEPT ![n] = AddNode(EmptyRing, n, Tokens[n])]
    /\ store' = [store EXCEPT ![n] = EmptyCache]
    /\ pending' = [pending EXCEPT ![n] = [k \in Key |-> NoFetch]]
    /\ chain' = [r \in Client |-> [i \in DOMAIN chain[r] |->
                    IF chain[r][i].node = n /\ chain[r][i].pc # "done"
                    THEN [chain[r][i] EXCEPT !.pc = "dead"]
                    ELSE chain[r][i]]]

-----------------------------------------------------------------------------
HandlerStep(r, i) ==
    \/ RouteClusterInfo(r, i)
    \/ RouteLocal(r, i)
    \/ RouteInitiate(r, i)
    \/ RouteJoin(r, i)
    \/ RouteProxy(r, i)
    \/ Send(r, i)
    \/ Return(r, i)
    \/ WriteResponse(r, i)

RingChange == \E n, m \in Node : RingAdd(n, m) \/ RingRemove(n, m)

Arrival == \E r \in Client, n \in Node, q \in Workload : Accept(r, n, q)

Progress == \E r \in Client : \E i \in DOMAIN chain[r] : HandlerStep(r, i)

Failure == \E r \in Client : \E i \in DOMAIN chain[r] : Fail(r, i)

Next ==
    \/ Arrival
    \/ Progress
    \/ Failure
    \/ RingChange
    \/ \E n \in Unstable : Restart(n)

Spec == Init /\ [][Next]_vars

(* A connection to a process that has died breaks: the proxied call ends.  *)
PeerLost(r, i) ==
    /\ i + 1 \in DOMAIN chain[r]
    /\ chain[r][i + 1].pc = "dead"
    /\ Fail(r, i)

(* The event loop resumes every coroutine whose I/O has completed, and TCP *)
(* delivers what a running peer wrote or reports that the peer is gone.    *)
Fairness ==
    WF_vars(Progress \/ \E r \in Client :
                            \E i \in DOMAIN chain[r] : PeerLost(r, i))

FairSpec == Spec /\ Fairness

-----------------------------------------------------------------------------
(* Properties                                                              *)

(* Rings, stores, wait groups and handlers have their types: a request is  *)
(* only ever forwarded to a node of the cluster (coordinator.cpp 51-79).   *)
TypeOK ==
    /\ ring \in [Node -> Rings]
    /\ store \in [Node -> Contents]
    /\ pending \in [Node -> [Key -> HandlerId \cup {NoFetch}]]
    /\ chain \in [Client -> Seq(Handler)]

(* How far the node of handler (r, i) lies clockwise from the key's hash. *)
Distance(r, i) ==
    Nearest(HashKey[chain[r][i].req.key], Tokens[chain[r][i].node])

(* Forwarding descends: whatever the rings of the nodes on its way say, a  *)
(* request only ever moves to a node strictly nearer to the key.  Every    *)
(* node finds itself on its own ring, so the owner that lower_bound        *)
(* returns cannot lie farther than the node that asks (coordinator.cpp     *)
(* 51-56, ring_store.cpp 44-53).                                           *)
ForwardingDescends ==
    \A r \in Client : \A i, j \in DOMAIN chain[r] :
        i < j => Distance(r, j) < Distance(r, i)

(* A request never comes back to a node that is already proxying it: the   *)
(* coordinators have no hop count and no loop check, so a cycle would      *)
(* forward a PUT forever and make a GET wait for itself in the wait group. *)
NoForwardingLoop ==
    \A r \in Client : \A i, j \in DOMAIN chain[r] :
        i # j => chain[r][i].node # chain[r][j].node

(* Handler (r, i) is waiting for handler (s, j): for the answer of the     *)
(* handler it forwarded the request to, or, in the wait group, for the     *)
(* initiator of the fetch of its key on its node.                          *)
WaitsFor(r, i, s, j) ==
    \/ /\ Proxying(r, i)
       /\ s = r /\ j = i + 1
    \/ /\ chain[r][i].pc = "wait"
       /\ chain[s][j].pc = "fetch"
       /\ chain[s][j].node = chain[r][i].node
       /\ chain[s][j].req.key = chain[r][i].req.key

Rank(r, i) == 2 * Distance(r, i) + (IF chain[r][i].pc = "wait" THEN 1 ELSE 0)

(* The coroutines of the cluster never wait for each other in a circle:    *)
(* along every wait the rank falls, first to the initiator on the same     *)
(* node, then to a node nearer to the key.  Neither proxy_to_peer nor      *)
(* WaitGroup::wait has a timeout, so a circle would never be left.         *)
NoCircularWait ==
    \A r, s \in Client : \A i \in DOMAIN chain[r], j \in DOMAIN chain[s] :
        WaitsFor(r, i, s, j) => Rank(s, j) < Rank(r, i)

(* Request collapsing: a node has at most one fetch of a key under way,    *)
(* and a GET suspended in the wait group always has an initiator that is   *)
(* still going to call complete() (wait_group.h 13-16, coordinator.cpp     *)
(* 59-69): it is never left behind by a fetch that has already ended.      *)
FetchesCollapse ==
    \A r \in Client : \A i \in DOMAIN chain[r] :
        LET h == chain[r][i]
        IN  /\ h.pc = "fetch" => pending[h.node][h.req.key] = <<r, i>>
            /\ h.pc = "wait" =>
                \E s \in Client : \E j \in DOMAIN chain[s] :
                    /\ WaitsFor(r, i, s, j)
                    /\ pending[h.node][h.req.key] = <<s, j>>

(* Every request a node accepts is answered, unless that node itself goes  *)
(* down: whatever the rings do meanwhile, and though nodes restart.        *)
EveryRequestAnswered ==
    \A r \in Client :
        chain[r] # << >> ~> (chain[r] # << >> /\ chain[r][1].pc \in {"done", "dead"})
=============================================================================
