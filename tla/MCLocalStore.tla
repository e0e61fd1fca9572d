---------------------------- MODULE MCLocalStore ----------------------------
(* An instance of LocalStore.tla: k3 has a shard of its own, the other     *)
(* keys share one.                                                         *)
(* A page of 4 bytes holds two slots of class 0 or one of class 1; small   *)
(* needs class 0, medium (3 bytes, rounded up to 4) class 1, and large     *)
(* fits no class.  The arena has a byte more than two pages.               *)
EXTENDS LocalStore, TLC

CONSTANTS k1, k2, k3, small, medium, large

MCShardFor == [k \in Key |-> IF k = k3 THEN 2 ELSE 1]

MCSize == small :> 2 @@ medium :> 3 @@ large :> 5

MCRequiredSize == [k \in Key |-> [v \in Value |-> MCSize[v]]]

Interchangeable == Permutations(Thread) \cup Permutations(Key \ {k3})
=============================================================================
