-------------------------------- MODULE Swim --------------------------------
(***************************************************************************)
(* The SWIM membership protocol of a cluster (membership/swim_protocol.cpp *)
(* with MemberList, Disseminator and the ring callback of main.cpp).  Each *)
(* node runs a probe loop, a receive loop, a suspicion reaper and the      *)
(* relay tasks spawned for Ping-Req, all on one thread: they interleave    *)
(* where the code co_awaits.  Timers may expire at any moment, and UDP may *)
(* lose, duplicate, delay and reorder messages.                            *)
(***************************************************************************)
EXTENDS MemberList, Disseminator

CONSTANTS Node,
          NoNode,
          Port,             \* data_port of each node; 0 means unknown
          Seed,             \* the PENSIEVE_SEED of each node, or NoNode
          IndirectPeers,    \* Config::indirect_ping_peers, 3 in the code
          MaxPiggyback,     \* Config::max_piggyback_updates, 8 in the code
          Faults,           \* the faults of the environment, see below
          Prober,           \* bound: the nodes whose probe timer ever fires
          MaxIncarnation,   \* bound on incarnation_
          MaxInFlight,      \* bound on the messages the network holds
          MaxRelays         \* bound on the relay tasks of a node

ASSUME SwimAssumption ==
    /\ IsFiniteSet(Node) /\ NoNode \notin Node
    /\ Prober \subseteq Node
    /\ Port \in [Node -> Nat]
    /\ Seed \in [Node -> Node \cup {NoNode}]
    /\ {IndirectPeers, MaxPiggyback, MaxIncarnation, MaxInFlight, MaxRelays}
         \subseteq Nat
    /\ Faults \subseteq {"loss", "duplication", "crash", "restart"}

VARIABLES up,           \* the running nodes
          members,      \* MemberList of each node
          onRing,       \* the nodes on its RingStore
          queue,        \* its Disseminator
          incarnation,  \* incarnation_
          acks,         \* pending_acks_: sequence number -> acknowledged
          probe,        \* where its probe_loop stands
          relays,       \* its relay_ping tasks
          stale,        \* numbers of an earlier run that may come back to it
          net           \* the messages in flight

vars == <<up, members, onRing, queue, incarnation, acks, probe, relays, stale, net>>

Idle == [stage |-> "idle", target |-> NoNode, seq |-> 0, todo |-> {}]

Info(port, state, inc) == [port |-> port, state |-> state, inc |-> inc]

Update(type, m, inc, port) ==
    [type |-> type, node |-> m, inc |-> inc, port |-> port]

-----------------------------------------------------------------------------
(* Start of a node and of the cluster (main.cpp) *)

StartList(n) ==
    LET known == {n} \cup ({Seed[n]} \ {NoNode})
    IN  [m \in known |-> Info(Port[m], "Alive", 0)]

StartQueue(n) == Enqueue(<<>>, Update("Join", n, 0, Port[n]))

(* A cluster that has converged, every Join told as often as it will be,   *)
(* and that the nodes of Late have just been started to join: nobody knows *)
(* them and each knows its seed.                                           *)
InitWith(Late) ==
    LET known(n) == IF n \in Late THEN DOMAIN StartList(n) ELSE Node \ Late
    IN  /\ up = Node
        /\ members = [n \in Node |-> [m \in known(n) |-> Info(Port[m], "Alive", 0)]]
        /\ onRing = [n \in Node |-> known(n)]
        /\ queue = [n \in Node |-> IF n \in Late THEN StartQueue(n) ELSE <<>>]
        /\ incarnation = [n \in Node |-> 0]
        /\ acks = [n \in Node |-> <<>>]
        /\ probe = [n \in Node |-> Idle]
        /\ relays = [n \in Node |-> {}]
        /\ stale = [n \in Node |-> {}]
        /\ net = {}

(* Every node has just started. *)
Init == InitWith(Node)

FormedInit == InitWith({})

-----------------------------------------------------------------------------
(* Messages *)

Message(type, seq, from, to, target, updates) ==
    [type |-> type, seq |-> seq, from |-> from, to |-> to,
     target |-> target, updates |-> updates]

(* sendto from a network that holds rest: the message is in flight or lost. *)
Send(rest, msg) ==
    \/ /\ Cardinality(rest) < MaxInFlight
       /\ net' = rest \cup {msg}
    \/ /\ "loss" \in Faults
       /\ net' = rest

(* The numbers of n that may still come back to it in an ack. *)
Outstanding(n) ==
    {x.seq : x \in {y \in net : n = IF y.type = "Ack" THEN y.to ELSE y.from}}
      \cup {r.orig : r \in {t \in UNION {relays[o] : o \in Node} : t.requester = n}}

(* What next_seq() may return.  It counts up, so within a run of n it is a *)
(* number no exchange has; the least such number stands for it.  Since     *)
(* seq_counter_ starts from 0 again when n restarts, it may also be one    *)
(* that an exchange of an earlier run still has, each once.                *)
NextSeq(n) ==
    LET used == DOMAIN acks[n] \cup Outstanding(n)
    IN  {Min((0 .. Cardinality(used)) \ used)} \cup (stale[n] \ DOMAIN acks[n])

Draw(n, seq) == stale' = [stale EXCEPT ![n] = @ \ {seq}]

(* An ack is awaited: pending_acks_[seq] = false.  It is no longer: erase. *)
Awaiting(pending, seq) ==
    [q \in DOMAIN pending \cup {seq} |-> IF q = seq THEN FALSE ELSE pending[q]]

Without(pending, seq) == [q \in DOMAIN pending \ {seq} |-> pending[q]]

-----------------------------------------------------------------------------
(* The probe loop *)

(* direct_ping up to its timer: the pick among the Alive peers is random. *)
ProbeStart(n, m) ==
    /\ n \in up \cap Prober
    /\ probe[n].stage = "idle"
    /\ m \in AlivePeers(members[n], n)
    /\ \E seq \in NextSeq(n), S \in Picks(queue[n], MaxPiggyback) :
         /\ Draw(n, seq)
         /\ queue' = [queue EXCEPT ![n] = Counted(@, S)]
         /\ Send(net, Message("Ping", seq, n, m, NoNode, Updates(queue[n], S)))
         /\ acks' = [acks EXCEPT ![n] = Awaiting(@, seq)]
         /\ probe' = [probe EXCEPT ![n] =
                        [stage |-> "direct", target |-> m, seq |-> seq, todo |-> {}]]
    /\ UNCHANGED <<up, members, onRing, incarnation, relays>>

Acked(n) == acks[n][probe[n].seq]

(* random_peers(indirect_ping_peers, self_): the target is not left out. *)
Intermediaries(n) ==
    LET peers == AlivePeers(members[n], n)
    IN  IF Cardinality(peers) <= IndirectPeers THEN {peers}
        ELSE {S \in SUBSET peers : Cardinality(S) = IndirectPeers}

(* The timer of direct_ping finds the ack. *)
DirectAcked(n) ==
    /\ n \in up
    /\ probe[n].stage = "direct"
    /\ Acked(n)
    /\ acks' = [acks EXCEPT ![n] = Without(@, probe[n].seq)]
    /\ probe' = [probe EXCEPT ![n] = Idle]
    /\ UNCHANGED <<up, members, onRing, queue, incarnation, relays, stale, net>>

(* No ack: indirect_ping draws the intermediaries and a sequence number. *)
StartIndirect(n) ==
    /\ n \in up
    /\ probe[n].stage = "direct"
    /\ ~Acked(n)
    /\ \E seq \in NextSeq(n), S \in Intermediaries(n) \ {{}} :
         /\ Draw(n, seq)
         /\ probe' = [probe EXCEPT ![n].stage = "indirect", ![n].todo = S,
                                   ![n].seq = seq]
         /\ acks' = [acks EXCEPT ![n] = Awaiting(Without(@, probe[n].seq), seq)]
    /\ UNCHANGED <<up, members, onRing, queue, incarnation, relays, net>>

(* One turn of indirect_ping's loop; each send_message is awaited. *)
SendPingReq(n, r) ==
    /\ n \in up
    /\ probe[n].stage = "indirect"
    /\ r \in probe[n].todo
    /\ \E S \in Picks(queue[n], MaxPiggyback) :
         /\ queue' = [queue EXCEPT ![n] = Counted(@, S)]
         /\ Send(net, Message("PingReq", probe[n].seq, n, r, probe[n].target,
                              Updates(queue[n], S)))
    /\ probe' = [probe EXCEPT ![n].todo = @ \ {r}]
    /\ UNCHANGED <<up, members, onRing, incarnation, acks, relays, stale>>

(* Mutant of Suspicion: the incarnation suspected is the one after. *)
SuspicionAhead(n, m) ==
    [list |-> UpdateState(members[n], m, "Suspect", members[n][m].inc + 1),
     inc  |-> members[n][m].inc + 1]

(* update_state(target, Suspect) with the incarnation known by now, which  *)
(* may be newer than the one that was pinged.                              *)
Suspicion(n, m) ==
    [list |-> UpdateState(members[n], m, "Suspect", members[n][m].inc),
     inc  |-> members[n][m].inc]

(* Mutant of Suspect: with nobody to relay, the target passes for alive. *)
SuspectIfRelayed(n) ==
    /\ n \in up
    /\ probe[n].stage = "direct" /\ Intermediaries(n) = {{}}
    /\ ~Acked(n)
    /\ acks' = [acks EXCEPT ![n] = Without(@, probe[n].seq)]
    /\ probe' = [probe EXCEPT ![n] = Idle]
    /\ UNCHANGED <<up, members, onRing, queue, incarnation, relays, stale, net>>

(* The end of a probe nobody answered: the target becomes Suspect. *)
Suspect(n) ==
    LET m == probe[n].target
        s == Suspicion(n, m)
    IN  /\ n \in up
        /\ \/ probe[n].stage = "direct" /\ Intermediaries(n) = {{}}
           \/ probe[n].stage = "indirect" /\ probe[n].todo = {}
        /\ ~Acked(n)
        /\ members' = [members EXCEPT ![n] = s.list]
        /\ onRing' = [onRing EXCEPT ![n] = OnChange(@, members[n], s.list)]
        /\ queue' = [queue EXCEPT ![n] =
                       IF s.list = members[n] THEN @
                       ELSE Enqueue(@, Update("Suspect", m, s.inc, 0))]
        /\ acks' = [acks EXCEPT ![n] = Without(@, probe[n].seq)]
        /\ probe' = [probe EXCEPT ![n] = Idle]
        /\ UNCHANGED <<up, incarnation, relays, stale, net>>

IndirectAcked(n) ==
    /\ n \in up
    /\ probe[n].stage = "indirect"
    /\ probe[n].todo = {}
    /\ Acked(n)
    /\ acks' = [acks EXCEPT ![n] = Without(@, probe[n].seq)]
    /\ probe' = [probe EXCEPT ![n] = Idle]
    /\ UNCHANGED <<up, members, onRing, queue, incarnation, relays, stale, net>>

-----------------------------------------------------------------------------
(* The suspicion reaper *)

Suspects(n) == {m \in DOMAIN members[n] \ {n} : members[n][m].state = "Suspect"}

(* The list once the suspects in S are declared Dead, *)
Declared(n, S) ==
    [m \in DOMAIN members[n] |->
        IF m \in S THEN UpdateState(members[n], m, "Dead", members[n][m].inc)[m]
        ELSE members[n][m]]

(* and the queue q once their deaths are told. *)
Announced(q, S, list) ==
    FoldSet(LAMBDA m, r : Enqueue(r, Update("Dead", m, list[m].inc, 0)), q, S)

(* One round: the suspects in S have timed out. *)
Reap(n) ==
    /\ n \in up
    /\ \E S \in SUBSET Suspects(n) \ {{}} :
         /\ members' = [members EXCEPT ![n] = Declared(n, S)]
         /\ onRing' = [onRing EXCEPT ![n] = OnChange(@, members[n], Declared(n, S))]
         /\ queue' = [queue EXCEPT ![n] = Announced(@, S, Declared(n, S))]
    /\ UNCHANGED <<up, incarnation, acks, probe, relays, stale, net>>

-----------------------------------------------------------------------------
(* The receive loop *)

(* What handle_message changes at the receiver. *)
Local(n) == [list |-> members[n], ring |-> onRing[n], queue |-> queue[n],
             inc |-> incarnation[n]]

Change(s, list) ==
    [s EXCEPT !.list = list, !.ring = OnChange(s.ring, s.list, list)]

(* The data_port an unknown sender gets: from an update about it, or 0. *)
SenderPort(msg) ==
    LET ports == {u.port : u \in {v \in msg.updates : v.node = msg.from}} \ {0}
    IN  IF ports = {} THEN 0 ELSE Min(ports)

(* An unknown sender is added and announced. *)
MeetSender(n, s, msg) ==
    IF msg.from = n \/ msg.from \in DOMAIN s.list THEN s
    ELSE [Change(s, AddNode(s.list, msg.from, Info(SenderPort(msg), "Alive", 0)))
            EXCEPT !.queue =
              Enqueue(@, Update("Join", msg.from, 0, SenderPort(msg)))]

(* A Suspect or Dead about ourselves is refuted by the next incarnation. *)
Refute(n, s) ==
    [Change(s, UpdateState(s.list, n, "Alive", s.inc + 1)) EXCEPT
       !.inc = s.inc + 1,
       !.queue = Enqueue(@, Update("Alive", n, s.inc + 1, Port[n]))]

(* Mutant of ApplyUpdate: the update is applied whoever it is about. *)
ApplyUpdateToSelf(n, u, s) ==
    IF u.type \in {"Join", "Alive"}
    THEN Change(s, AddNode(s.list, u.node, Info(u.port, "Alive", u.inc)))
    ELSE Change(s, UpdateState(s.list, u.node, u.type, u.inc))

(* One turn of apply_updates.  No node ever sends Leave. *)
ApplyUpdate(n, u, s) ==
    IF u.node = n THEN
        IF u.type \in {"Suspect", "Dead"} THEN Refute(n, s) ELSE s
    ELSE IF u.type \in {"Join", "Alive"}
    THEN Change(s, AddNode(s.list, u.node, Info(u.port, "Alive", u.inc)))
    ELSE Change(s, UpdateState(s.list, u.node, u.type, u.inc))

(* handle_message up to its switch.  The updates are about distinct nodes, *)
(* so their order is of no account.                                        *)
Heard(n, msg) ==
    FoldSet(LAMBDA u, s : ApplyUpdate(n, u, s), MeetSender(n, Local(n), msg),
            msg.updates)

(* Mutant of Revived: the ack overrides what is known of the sender. *)
RevivedByAck(s, m) ==
    Change(s, [s.list EXCEPT ![m].state = "Alive"])

(* on_ack tries to set a Suspect or Dead sender Alive again, with the      *)
(* incarnation on record.                                                  *)
Revived(s, m) ==
    Change(s, UpdateState(s.list, m, "Alive", s.list[m].inc))

(* The receiver's state after a message; s is its Heard state, its queue   *)
(* as given.                                                               *)
Settle(n, s, q) ==
    /\ members' = [members EXCEPT ![n] = s.list]
    /\ onRing' = [onRing EXCEPT ![n] = s.ring]
    /\ incarnation' = [incarnation EXCEPT ![n] = s.inc]
    /\ queue' = [queue EXCEPT ![n] = q]

OnPing(n, msg, s, rest) ==
    /\ msg.type = "Ping"
    /\ \E S \in Picks(s.queue, MaxPiggyback) :
         /\ Settle(n, s, Counted(s.queue, S))
         /\ Send(rest, Message("Ack", msg.seq, n, msg.from, NoNode,
                               Updates(s.queue, S)))
    /\ UNCHANGED <<up, acks, probe, relays, stale>>

OnAck(n, msg, s, rest) ==
    /\ msg.type = "Ack"
    /\ \E r \in {IF msg.from \in DOMAIN s.list
                    /\ s.list[msg.from].state \in {"Suspect", "Dead"}
                 THEN Revived(s, msg.from) ELSE s} :
         Settle(n, r, r.queue)
    /\ acks' = [acks EXCEPT ![n] = [q \in DOMAIN @ |-> @[q] \/ q = msg.seq]]
    /\ net' = rest
    /\ UNCHANGED <<up, probe, relays, stale>>

(* on_ping_req spawns relay_ping, which pings before its first suspension. *)
OnPingReq(n, msg, s, rest) ==
    /\ msg.type = "PingReq"
    /\ Cardinality(relays[n]) < MaxRelays
    /\ Settle(n, s, s.queue)
    /\ \E seq \in NextSeq(n) :
         /\ Draw(n, seq)
         /\ acks' = [acks EXCEPT ![n] = Awaiting(@, seq)]
         /\ relays' = [relays EXCEPT ![n] = @ \cup
                         {[requester |-> msg.from, orig |-> msg.seq, seq |-> seq]}]
         /\ Send(rest, Message("Ping", seq, n, msg.target, NoNode, {}))
    /\ UNCHANGED <<up, probe>>

(* recv_loop takes a message, of which the network may keep a copy. *)
Receive(n) ==
    /\ n \in up
    /\ \E msg \in {x \in net : x.to = n} : \E s \in {Heard(n, msg)} :
         /\ s.inc <= MaxIncarnation
         /\ \E rest \in {net, net \ {msg}} :
              /\ rest = net => "duplication" \in Faults
              /\ \/ OnPing(n, msg, s, rest)
                 \/ OnAck(n, msg, s, rest)
                 \/ OnPingReq(n, msg, s, rest)

(* Mutant of RelayEnd: the pending ack is erased only when it came. *)
RelayEndKeepsAck(n) ==
    /\ n \in up
    /\ \E r \in relays[n] :
         /\ IF acks[n][r.seq]
            THEN /\ Send(net, Message("Ack", r.orig, n, r.requester, NoNode, {}))
                 /\ acks' = [acks EXCEPT ![n] = Without(@, r.seq)]
            ELSE UNCHANGED <<net, acks>>
         /\ relays' = [relays EXCEPT ![n] = @ \ {r}]
    /\ UNCHANGED <<up, members, onRing, queue, incarnation, probe, stale>>

(* The timer of a relay_ping task. *)
RelayEnd(n) ==
    /\ n \in up
    /\ \E r \in relays[n] :
         /\ IF acks[n][r.seq]
            THEN Send(net, Message("Ack", r.orig, n, r.requester, NoNode, {}))
            ELSE net' = net
         /\ relays' = [relays EXCEPT ![n] = @ \ {r}]
         /\ acks' = [acks EXCEPT ![n] = Without(@, r.seq)]
    /\ UNCHANGED <<up, members, onRing, queue, incarnation, probe, stale>>

-----------------------------------------------------------------------------
(* The environment *)

(* A node stops and its state is gone. *)
Crash(n) ==
    /\ "crash" \in Faults
    /\ n \in up
    /\ up' = up \ {n}
    /\ members' = [members EXCEPT ![n] = <<>>]
    /\ onRing' = [onRing EXCEPT ![n] = {}]
    /\ queue' = [queue EXCEPT ![n] = <<>>]
    /\ incarnation' = [incarnation EXCEPT ![n] = 0]
    /\ acks' = [acks EXCEPT ![n] = <<>>]
    /\ probe' = [probe EXCEPT ![n] = Idle]
    /\ relays' = [relays EXCEPT ![n] = {}]
    /\ stale' = [stale EXCEPT ![n] = Outstanding(n)]
    /\ UNCHANGED net

(* It starts again as main does, with the same identity. *)
Restart(n) ==
    /\ "restart" \in Faults
    /\ n \notin up
    /\ up' = up \cup {n}
    /\ members' = [members EXCEPT ![n] = StartList(n)]
    /\ onRing' = [onRing EXCEPT ![n] = DOMAIN StartList(n)]
    /\ queue' = [queue EXCEPT ![n] = StartQueue(n)]
    /\ UNCHANGED <<incarnation, acks, probe, relays, stale, net>>

(* A datagram to a node that is down, or one the network drops. *)
Lose ==
    /\ \E msg \in net :
         /\ msg.to \notin up \/ "loss" \in Faults
         /\ net' = net \ {msg}
    /\ UNCHANGED <<up, members, onRing, queue, incarnation, acks, probe, relays, stale>>

Next ==
    \/ \E n \in Node, m \in Node : ProbeStart(n, m) \/ SendPingReq(n, m)
    \/ \E n \in Node : \/ DirectAcked(n) \/ StartIndirect(n)
                       \/ IndirectAcked(n) \/ Suspect(n)
                       \/ Reap(n) \/ Receive(n) \/ RelayEnd(n)
                       \/ Crash(n) \/ Restart(n)
    \/ Lose

Spec == Init /\ [][Next]_vars

FormedSpec == FormedInit /\ [][Next]_vars

(* The event loop runs every timer and hands over every datagram it gets,  *)
(* random_peer picks every Alive peer again and again, and a link that is  *)
(* used again and again delivers again and again.                          *)
Fairness ==
    /\ \A n \in Node :
         /\ WF_vars(DirectAcked(n) \/ IndirectAcked(n) \/ StartIndirect(n) \/ Suspect(n))
         /\ WF_vars(Reap(n))
         /\ WF_vars(RelayEnd(n))
         /\ SF_vars(Receive(n))
         /\ \A m \in Node : SF_vars(ProbeStart(n, m)) /\ WF_vars(SendPingReq(n, m))
    /\ WF_vars(Lose)

FairSpec == Spec /\ Fairness

FairFormedSpec == FormedSpec /\ Fairness

-----------------------------------------------------------------------------
(* Properties *)

Incarnation == 0 .. MaxIncarnation

UpdateType == [type : DOMAIN TypeRank, node : Node, inc : Incarnation, port : Nat]

(* Every piece of the protocol's state has its type, every pending         *)
(* sequence number belongs to the probe or to a relay task, and a stopped  *)
(* node has no state (swim_protocol.h, member_list.h, disseminator.h).     *)
TypeOK ==
    /\ up \subseteq Node
    /\ \A n \in Node :
         /\ DOMAIN members[n] \subseteq Node
         /\ \A m \in DOMAIN members[n] :
              members[n][m] \in [port : Nat, state : State, inc : Incarnation]
         /\ onRing[n] \subseteq DOMAIN members[n]
         /\ \A m \in DOMAIN queue[n] :
              /\ queue[n][m].update \in UpdateType /\ queue[n][m].update.node = m
              /\ queue[n][m].count \in 0 .. MaxTransmissions - 1
         /\ incarnation[n] \in Incarnation
         /\ DOMAIN acks[n] = {r.seq : r \in relays[n]}
                               \cup (IF probe[n] = Idle THEN {} ELSE {probe[n].seq})
         /\ Cardinality(DOMAIN acks[n]) =
              Cardinality(relays[n]) + (IF probe[n] = Idle THEN 0 ELSE 1)
         /\ n \notin up => members[n] = <<>> /\ queue[n] = <<>> /\ acks[n] = <<>>
    /\ \A x \in net : x.updates \subseteq UpdateType

(* A running node holds itself Alive, at its own incarnation, and on its   *)
(* own ring, whatever the others say of it: apply_updates never applies an *)
(* update about self_ (swim_protocol.cpp 238-247).  The coordinator relies *)
(* on it to serve what it owns.                                            *)
SelfAlive ==
    \A n \in up :
        /\ n \in DOMAIN members[n] /\ n \in onRing[n]
        /\ members[n][n].state = "Alive"
        /\ members[n][n].inc = incarnation[n]

(* While no node restarts, nobody (in a member list, a queued update or a  *)
(* message in flight) knows a later incarnation of a running node than the *)
(* node itself: the ++incarnation_ of a refutation beats every suspicion.  *)
IncarnationsOwned ==
    \A m \in up :
        /\ \A n \in up :
             /\ m \in DOMAIN members[n] => members[n][m].inc <= incarnation[m]
             /\ m \in DOMAIN queue[n] => queue[n][m].update.inc <= incarnation[m]
        /\ \A x \in net : \A u \in x.updates :
             u.node = m => u.inc <= incarnation[m]

(* "Keep RingStore in sync with MemberList: add on Alive, remove on        *)
(* Dead/Left" (main.cpp 83): after any sequence of changes a node's ring   *)
(* holds every member it thinks Alive and none it thinks Dead or Left.     *)
RingFollowsMembers ==
    \A n \in up : \A m \in DOMAIN members[n] :
        /\ members[n][m].state = "Alive" => m \in onRing[n]
        /\ members[n][m].state \in {"Dead", "Left"} => m \notin onRing[n]

(* A member once declared Suspect or Dead is held Alive again only on a    *)
(* word of its own, a later incarnation: no late, duplicated or reordered  *)
(* ack, join or update brings it back (member_list.cpp 7-57).              *)
NoStaleRevival ==
    [][\A n \in up \cap up' : \A m \in DOMAIN members[n] :
          /\ m \in DOMAIN members'[n]
          /\ (members[n][m].state # "Alive" /\ members'[n][m].state = "Alive")
               => members'[n][m].inc > members[n][m].inc]_vars

(* "After 5s without recovery, Node marked Dead, removed from hash ring"   *)
(* (deployment.md 150): a node that stops for good leaves the ring of      *)
(* every node that keeps running, for good, whatever was still in flight.  *)
CrashedLeaveRings ==
    \A n \in Node, m \in Node :
        <>[](n \in up /\ m \notin up) => <>[](m \notin onRing[n])

(* "Within a few protocol periods, all nodes converge on a consistent      *)
(* membership view and hash ring" (deployment.md 143): two nodes that keep *)
(* running end up on each other's rings.                                   *)
RingsConverge ==
    \A n \in Node, m \in Node :
        <>[](n \in up /\ m \in up) => <>(m \in onRing[n])
=============================================================================
