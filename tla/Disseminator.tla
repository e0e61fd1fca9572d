---------------------------- MODULE Disseminator ----------------------------
(***************************************************************************)
(* The queue of membership updates a node piggybacks on its messages       *)
(* (membership/disseminator.cpp).  A queue maps a node to the one entry    *)
(* kept about it: the update and how often it has been transmitted.        *)
(***************************************************************************)
EXTENDS Integers, FiniteSets, FiniteSetsExt

CONSTANT MaxTransmissions  \* 10 in the code

ASSUME TransmissionAssumption == MaxTransmissions \in Nat \ {0}

(* MembershipUpdate::Type, with the values the enum gives. *)
TypeRank == [Join |-> 0, Alive |-> 1, Suspect |-> 2, Dead |-> 3, Leave |-> 4]

Newer(u, v) ==
    \/ u.inc > v.inc
    \/ u.inc = v.inc /\ TypeRank[u.type] > TypeRank[v.type]

Fresh(u) == [update |-> u, count |-> 0]

Enqueue(queue, u) ==
    IF u.node \in DOMAIN queue /\ ~Newer(u, queue[u.node].update)
    THEN queue
    ELSE [m \in DOMAIN queue \cup {u.node} |-> IF m = u.node THEN Fresh(u) ELSE queue[m]]

(* What get_updates(limit) may pick: the least transmitted entries, ties   *)
(* broken as the unstable sort leaves them.                                *)
Picks(queue, limit) ==
    {S \in SUBSET DOMAIN queue :
        /\ Cardinality(S) = Min({limit, Cardinality(DOMAIN queue)})
        /\ \A m \in S, o \in DOMAIN queue \ S : queue[m].count <= queue[o].count}

Updates(queue, S) == {queue[m].update : m \in S}

(* The queue once the picked entries are counted and the worn-out erased. *)
Counted(queue, S) ==
    LET count(m) == queue[m].count + (IF m \in S THEN 1 ELSE 0)
    IN  [m \in {o \in DOMAIN queue : count(o) < MaxTransmissions} |->
            [queue[m] EXCEPT !.count = count(m)]]
=============================================================================
