---------------------------- MODULE MCPeerClient ----------------------------
(* An instance of PeerClient: a request of two units, responses without a  *)
(* value, with one that fits a buffer and with one that does not.          *)
EXTENDS PeerClient

CONSTANTS p1, p2

MCRequest == {[key |-> 1, value |-> 0]}

MCSocket == 0 .. 2
=============================================================================
