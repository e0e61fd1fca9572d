------------------------------- MODULE MCSwim -------------------------------
(* Instances of Swim: clusters of two and three nodes. *)
EXTENDS SwimWire

CONSTANTS n1, n2, n3

(* Data ports of two bytes; n2 and n3 have the same, so that they are alike. *)
MCPorts == [n \in Node |-> IF n = n1 THEN 10 ELSE 19]

(* Hosts of different lengths. *)
MCAddress == [n \in Node |-> IF n = n1 THEN [host |-> <<1>>, port |-> 9]
                             ELSE IF n = n2 THEN [host |-> <<2, 5>>, port |-> 17]
                             ELSE [host |-> <<3, 0>>, port |-> 17]]

(* n1 is the first node and every other is started with it as its seed. *)
SeedFirst == [n \in Node |-> IF n = n1 THEN NoNode ELSE n1]

Lossy == {"loss"}
AllFaults == {"loss", "duplication", "crash", "restart"}

(* Where only n1 probes, n2 and n3 are alike. *)
RelaySymmetry == Permutations({n2, n3})
=============================================================================
