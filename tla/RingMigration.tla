--------------------------- MODULE RingMigration ---------------------------
(***************************************************************************)
(* What a membership change moves on the hash ring: a ring that nodes join *)
(* and leave (membership/ring_store.cpp), the snapshot taken before the    *)
(* last change, and the transfers compute_migrations derives from the two  *)
(* (membership/ring_migration.cpp).                                        *)
(***************************************************************************)
EXTENDS RingStore

CONSTANT MaxTokens  \* bound on the tokens a node is added with; 128 vnodes in the code

ASSUME MaxTokensAssumption == MaxTokens \in Nat \ {0}

VARIABLES current,  \* ring_ of the RingStore
          before    \* the snapshot before the last change

ringVars == <<current, before>>

RingInit == current = EmptyRing /\ before = EmptyRing

(* Two of a node's hash_node_token values may coincide with each other or  *)
(* with another node's.                                                    *)
Join(node) ==
    /\ \E tokens \in UNION {kSubset(k, Position) : k \in 1 .. MaxTokens} :
         current' = AddNode(current, node, tokens)
    /\ before' = current

Leave(node) ==
    /\ current' = RemoveNode(current, node)
    /\ before' = current

RingNext == \E node \in Node : Join(node) \/ Leave(node)

RingSpec == RingInit /\ [][RingNext]_ringVars

-----------------------------------------------------------------------------
(* compute_migrations *)

OwnerAt(r, hash) == r[LowerBound(r, hash)]

(* Mutant of Previous: the first boundary has no predecessor. *)
PreviousNoWrap(boundaries, curr) ==
    LET below == {t \in boundaries : t < curr}
    IN  IF below = {} THEN 0 ELSE Max(below)

(* The boundary before curr in the sorted vector, the last for the first. *)
Previous(boundaries, curr) ==
    LET below == {t \in boundaries : t < curr}
    IN  IF below = {} THEN Max(boundaries) ELSE Max(below)

Migration(start, end, from, to) ==
    [range_start |-> start, range_end |-> end, from_node |-> from, to_node |-> to]

ComputeMigrations(old, new) ==
    LET boundaries == DOMAIN old \cup DOMAIN new
    IN  IF DOMAIN old = {} \/ DOMAIN new = {} THEN {}
        ELSE {Migration(Previous(boundaries, t), t, OwnerAt(old, t), OwnerAt(new, t)) :
                t \in {u \in boundaries : OwnerAt(old, u) # OwnerAt(new, u)}}

-----------------------------------------------------------------------------
(* Properties *)

(* A range excludes its start and wraps when its end is not above it       *)
(* (ring_migration.h 11-12).                                               *)
InRange(hash, m) ==
    IF m.range_start < m.range_end
    THEN m.range_start < hash /\ hash <= m.range_end
    ELSE m.range_start < hash \/ hash <= m.range_end

(* The transfers compute_migrations lists are exactly what the change      *)
(* moved: a position whose owner changed lies in one range, which names    *)
(* its two owners, and a position whose owner did not lies in none.        *)
MigrationsExact ==
    (DOMAIN before # {} /\ DOMAIN current # {}) =>
        \A h \in Position :
            {<<m.from_node, m.to_node>> :
                m \in {x \in ComputeMigrations(before, current) : InRange(h, x)}}
            = {<<GetNodeForKey(before, h), GetNodeForKey(current, h)>>}
                \ {<<n, n>> : n \in Node}

(* get_node_for_key names the owner of the token nearest clockwise.        *)
LookupIsNearest ==
    \A h \in Position : DOMAIN current # {} =>
        \E t \in DOMAIN current :
            /\ Clockwise(h, t) = Nearest(h, DOMAIN current)
            /\ GetNodeForKey(current, h) = current[t]

TokensOf(node) == {t \in DOMAIN current : current[t] = node}

(* get_n_nodes_for_key returns the n nodes (all, if there are fewer) whose *)
(* nearest tokens come first clockwise, in that order and each once.       *)
SuccessorsInOrder ==
    \A h \in Position, n \in 1 .. Cardinality(Node) + 1 :
        LET result == GetNNodesForKey(current, h, n)
            near(node) == Nearest(h, TokensOf(node))
        IN  /\ Len(result) = Min({n, Cardinality(Range(current))})
            /\ \A i \in DOMAIN result : \A j \in 1 .. i - 1 :
                 near(result[j]) < near(result[i])
            /\ \A node \in Range(current) \ Range(result), i \in DOMAIN result :
                 near(result[i]) < near(node)

(* Consistent hashing: a node that joins takes positions only for itself   *)
(* and one that leaves gives up only its own, even where tokens collide.   *)
OnlyOneNodeMoves ==
    [][\E node \in Node : \A h \in Position :
          LET old == GetNodeForKey(current, h)
              new == GetNodeForKey(current, h)'
          IN  old # new => node \in {old, new}]_ringVars
=============================================================================
