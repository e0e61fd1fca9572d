------------------------------- MODULE MCRing -------------------------------
(* A small hash space that three nodes join and leave. *)
EXTENDS RingMigration, TLC

NodeSymmetry == Permutations(Node)
=============================================================================
