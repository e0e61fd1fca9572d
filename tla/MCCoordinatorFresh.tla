------------------------ MODULE MCCoordinatorFresh ------------------------
(* Two nodes that agree on the ring; n2 owns the key k1. *)
EXTENDS CoordinatorFresh, TLC

CONSTANTS n1, n2

MCTokens == n1 :> {1, 5} @@ n2 :> {3, 7}

MCHashKey == [k \in Key |-> 2]

ReadWrite == [op : {"Get"}, key : Key, value : {Absent}]
               \cup [op : {"Put"}, key : Key, value : Value]

Interchangeable == Permutations(Client) \cup Permutations(Value)
=============================================================================
