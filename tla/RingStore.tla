----------------------------- MODULE RingStore -----------------------------
(***************************************************************************)
(* The consistent hash ring of one node (src/src/membership/ring_store.cpp)*)
(* as operators on a ring value.  A ring is the std::map<uint32_t, NodeId> *)
(* of the code: a function from the tokens on the ring to their nodes.     *)
(* Writers clone the map, change the clone and publish it under write_mu_, *)
(* readers work on the immutable map they got, so every operation of the   *)
(* class is one step on a ring value.                                      *)
(***************************************************************************)
EXTENDS Integers, Sequences, FiniteSetsExt

CONSTANTS
    Node,       \* the nodes of the cluster (NodeId)
    Space,      \* number of hash positions; 2^32 in the code (uint32_t)
    NoNode      \* std::nullopt of std::optional<NodeId>

ASSUME NodeAssumption == IsFiniteSet(Node)
ASSUME SpaceAssumption == Space \in Nat \ {0}
ASSUME NoNodeAssumption == NoNode \notin Node

Position == 0 .. Space - 1

Rings == UNION {[D -> Node] : D \in SUBSET Position}

EmptyRing == [t \in {} |-> NoNode]

(* RingStore::add_node: every token of the node is assigned in the clone,  *)
(* so a token that is already taken changes hands.                         *)
AddNode(ring, node, tokens) ==
    [t \in (DOMAIN ring) \cup tokens |->
        IF t \in tokens THEN node ELSE ring[t]]

(* Mutant of RemoveNode: erase from the node's first token to the end. *)
RemoveNodeToEnd(ring, node) ==
    Restrict(ring, {t \in DOMAIN ring : \A u \in DOMAIN ring : u <= t => ring[u] # node})

(* RingStore::remove_node: erase every entry whose value is the node. *)
RemoveNode(ring, node) ==
    Restrict(ring, {t \in DOMAIN ring : ring[t] # node})

(* Mutant of LowerBound: upper_bound, which passes a token equal to hash. *)
UpperBound(ring, hash) ==
    LET after == {t \in DOMAIN ring : t > hash}
    IN  IF after = {} THEN Min(DOMAIN ring) ELSE Min(after)

(* ring.lower_bound(hash), with the wrap-around to ring.begin(). *)
LowerBound(ring, hash) ==
    LET after == {t \in DOMAIN ring : t >= hash}
    IN  IF after = {} THEN Min(DOMAIN ring) ELSE Min(after)

(* RingStore::get_node_for_key *)
GetNodeForKey(ring, hash) ==
    IF DOMAIN ring = {} THEN NoNode ELSE ring[LowerBound(ring, hash)]

(* Mutant of NextToken: ++it that stops at the last token. *)
NextTokenNoWrap(ring, token) ==
    LET after == {t \in DOMAIN ring : t > token}
    IN  IF after = {} THEN token ELSE Min(after)

(* ++it, with the wrap-around to ring.begin(). *)
NextToken(ring, token) ==
    LET after == {t \in DOMAIN ring : t > token}
    IN  IF after = {} THEN Min(DOMAIN ring) ELSE Min(after)

(* RingStore::get_n_nodes_for_key: one round of the ring from LowerBound,  *)
(* visited[i] being the result after i tokens.  The loop leaves when a     *)
(* node it has just appended brings the result to n nodes.                 *)
GetNNodesForKey(ring, hash, n) ==
    LET size == Cardinality(DOMAIN ring)
        token[i \in 1 .. size] ==
            IF i = 1 THEN LowerBound(ring, hash)
                     ELSE NextToken(ring, token[i - 1])
        visited[i \in 0 .. size] ==
            IF i = 0 THEN << >>
            ELSE LET sofar == visited[i - 1]
                     node  == ring[token[i]]
                 IN  IF \/ n > 0 /\ Len(sofar) = n
                        \/ node \in Range(sofar)
                     THEN sofar
                     ELSE Append(sofar, node)
    IN  visited[size]

-----------------------------------------------------------------------------
(* Reference notions: what the lookups are meant to compute.               *)

(* How far clockwise the position t lies from hash. *)
Clockwise(hash, t) == IF t >= hash THEN t - hash ELSE t - hash + Space

(* The distance from hash to the nearest of a set of tokens. *)
Nearest(hash, tokens) == Min({Clockwise(hash, t) : t \in tokens})
=============================================================================
