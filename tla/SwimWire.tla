------------------------------ MODULE SwimWire ------------------------------
(***************************************************************************)
(* Swim composed with the formats of Wire: what the datagrams of the       *)
(* protocol and the answers to CLUSTER_INFO look like as bytes.  Swim      *)
(* passes messages as records and SmartClient takes a view as a set; the   *)
(* properties here are what allows both.                                   *)
(***************************************************************************)
EXTENDS Swim, Wire

CONSTANT Address    \* the NodeId of each node: host, as bytes, and gossip port

ASSUME AddressAssumption ==
    \A n \in Node : Address[n].host \in Seq(0 .. Base - 1) /\ Address[n].port \in Nat

WireUpdate(u) == [u EXCEPT !.node = Address[@]]

(* A SwimMessage as the code holds it. *)
WireMessage(x) ==
    LET updates == SetToSeq(x.updates)
    IN  [type |-> x.type, seq |-> x.seq, sender |-> Address[x.from],
         target |-> IF x.target = NoNode THEN << >> ELSE <<Address[x.target]>>,
         updates |-> [i \in DOMAIN updates |-> WireUpdate(updates[i])]]

(* The messages in flight, and the Ping-Req that each probing node would   *)
(* send its relays now.                                                    *)
Datagrams ==
    net \cup {Message("PingReq", probe[n].seq, n, n, probe[n].target,
                      Updates(queue[n], DOMAIN queue[n])) :
                 n \in {k \in up : probe[k] # Idle}}

Endpoint(n, m) ==
    [host |-> Address[m].host, gossip |-> Address[m].port, data |-> members[n][m].port]

(* MemberList::all_nodes of n, in some order *)
Infos(n) ==
    LET order == SetToSeq(DOMAIN members[n])
    IN  [i \in DOMAIN order |->
           [state |-> members[n][order[i]].state] @@ Endpoint(n, order[i])]

(* Every datagram of the protocol is read as the message that was sent,    *)
(* with its target and all the updates it carries, and recv_loop takes no  *)
(* truncated one for a message (swim_message.cpp 115-170).                 *)
DatagramsReadBack ==
    \A x \in Datagrams : \E data \in {Serialize(WireMessage(x))} :
        /\ Deserialize(data) = WireMessage(x)
        /\ \A cut \in Prefixes(data) \ {data} : Deserialize(cut) = Malformed

(* Whatever a node's member list holds, a client that asks it for          *)
(* CLUSTER_INFO learns exactly the members it holds Alive, with both ports *)
(* (coordinator.cpp 108-139), and refuses an answer cut short              *)
(* (topology_manager.cpp 97-126).                                          *)
ViewsReadBack ==
    \A n \in up : \E data \in {ServeClusterInfo(Infos(n))} :
        /\ ToSet(ParseTopology(data)) =
             {Endpoint(n, m) : m \in {k \in DOMAIN members[n] :
                                        members[n][k].state = "Alive"}}
        /\ \A cut \in Prefixes(data) \ {data} : ParseTopology(cut) = << >>
=============================================================================
