--------------------------- MODULE MCCoordinator ---------------------------
(* Instances of Coordinator on two nodes.  The key k1 hashes to 3, so n2   *)
(* owns it wherever it is known.                                           *)
EXTENDS Coordinator, TLC

CONSTANTS n1, n2

MCTokens == n1 :> {1, 5} @@ n2 :> {3, 7}

(* n1 and n2 have hashed one of their virtual nodes to the position 3. *)
CollidingTokens == n1 :> {3, 5} @@ n2 :> {3, 7}

MCHashKey == [k \in Key |-> 3]

Ask(op) == [op : {op}, key : Key, value : {Absent}]

Gets == Ask("Get")

AllRequests == Request
=============================================================================
