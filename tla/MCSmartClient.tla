--------------------------- MODULE MCSmartClient ---------------------------
(* Instances of SmartClient: every key is owned by n1, when it is in the   *)
(* view, and n2 is the next clockwise.                                     *)
EXTENDS SmartClient

CONSTANTS n1, n2

MCTokens == [n \in Node |-> IF n = n1 THEN {1} ELSE {2}]

MCHash == {0}
=============================================================================
