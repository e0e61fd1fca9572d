----------------------------- MODULE RingProofs -----------------------------
(***************************************************************************)
(* The hash ring, for every set of nodes, hash space and number of tokens: *)
(* the lookup returns the token nearest clockwise to the hash, a node that *)
(* is on the ring with its own tokens only ever names a nearer owner, the  *)
(* successors come in clockwise order, and a membership change moves only  *)
(* one node's positions, which compute_migrations lists exactly.           *)
(***************************************************************************)
EXTENDS RingMigration, FiniteSetTheorems, SequenceTheorems, TLAPS, WellFoundedInduction

-----------------------------------------------------------------------------
(* Vocabulary of the proofs *)

(* f is the recursion over 0 .. n that starts with a and steps with G. *)
IsRecursion(f, S, a, G, n) ==
    /\ f \in [0 .. n -> S]
    /\ f[0] = a
    /\ \A i \in 1 .. n : f[i] = G[i][f[i - 1]]

(* Every token of ring belongs to the node it names, and n finds all of    *)
(* its own tokens there (T[m] being the tokens of node m).                 *)
SelfOnRing(ring, n, T) ==
    /\ DOMAIN ring \in SUBSET Position
    /\ \A t \in DOMAIN ring : ring[t] \in Node /\ t \in T[ring[t]]
    /\ \A t \in T[n] : t \in DOMAIN ring /\ ring[t] = n

(* The definitions of GetNNodesForKey, taken apart: the tokens met on one  *)
(* round of the ring, and the nodes collected after each.                  *)
IsRound(ring, h, token) ==
    token = [i \in 1 .. Cardinality(DOMAIN ring) |->
               IF i = 1 THEN LowerBound(ring, h) ELSE NextToken(ring, token[i - 1])]

Collected(ring, n, sofar, node) ==
    IF (n > 0 /\ Len(sofar) = n) \/ node \in Range(sofar)
    THEN sofar ELSE Append(sofar, node)

IsVisit(ring, n, token, visited) ==
    visited = [i \in 0 .. Cardinality(DOMAIN ring) |->
                 IF i = 0 THEN << >>
                 ELSE Collected(ring, n, visited[i - 1], ring[token[i]])]

(* What the first i tokens of a round are: the i nearest, in their order.  *)
NearestSoFar(ring, h, token, i) ==
    /\ \A j \in 1 .. i - 1 : Clockwise(h, token[j]) < Clockwise(h, token[i])
    /\ \A u \in DOMAIN ring : Clockwise(h, u) < Clockwise(h, token[i])
         => \E j \in 1 .. i - 1 : u = token[j]

(* How far clockwise from h a node first has a token. *)
NearOf(ring, h, node) == Nearest(h, {t \in DOMAIN ring : ring[t] = node})

(* The nodes met on the first i tokens of a round. *)
Met(ring, token, i) == {ring[token[j]] : j \in 1 .. i}

(* What a visit has collected after i tokens, n nodes being asked for: the *)
(* first nodes met, by their distance, and all of them while fewer than n. *)
InOrder(ring, h, n, token, i, v) ==
    /\ Len(v) <= n
    /\ Range(v) \subseteq Met(ring, token, i)
    /\ Len(v) < n => Range(v) = Met(ring, token, i)
    /\ \A a \in DOMAIN v : \A b \in 1 .. a - 1 :
         NearOf(ring, h, v[b]) < NearOf(ring, h, v[a])
    /\ \A a \in DOMAIN v : \A node \in Range(ring) \ Range(v) :
         NearOf(ring, h, v[a]) < NearOf(ring, h, node)

RingsTyped == current \in Rings /\ before \in Rings

(* t is the boundary at or after h, clockwise. *)
IsBoundaryOf(B, h, t) ==
    t \in B /\ \A u \in B : Clockwise(h, t) <= Clockwise(h, u)

-----------------------------------------------------------------------------
(* Numbers and recursions *)

(* A nonempty set of natural numbers has a least element, and Min is it. *)
LEMMA MinProperty ==
    ASSUME NEW S \in SUBSET Nat, S # {}
    PROVE  Min(S) \in S /\ \A y \in S : Min(S) <= y
<1>1. PICK x \in S : \A y \in S : ~ (<<y, x>> \in OpToRel(<, Nat))
  BY ZenonT(60), NatLessThanWellFounded, WFMin
<1>2. ASSUME NEW a \in Nat, NEW b \in Nat, a < b
      PROVE  <<a, b>> \in OpToRel(<, Nat)
  <2>1. OpToRel(<, Nat) = {ss \in Nat \X Nat : ss[1] < ss[2]}
    BY DEF OpToRel
  <2>2. QED BY ZenonT(60), <2>1, <1>2
<1>3. \A y \in S : ~ (y < x)
  BY ZenonT(60), <1>1, <1>2
<1>4. \A y \in S : x <= y
  BY <1>3
<1>5. QED
  BY ZenonT(60), <1>4 DEF Min

(* The lesser of two numbers. *)
LEMMA LeastOfTwo ==
    ASSUME NEW k \in Nat, NEW n \in Nat \ {0}, NEW m \in Nat,
           k <= n, k <= m, k < n => k = m
    PROVE  k = Min({n, m})
<1> DEFINE S == {n, m}
<1>1. S \in SUBSET Nat /\ S # {}
  OBVIOUS
<1>2. Min(S) \in S /\ \A y \in S : Min(S) <= y
  BY ZenonT(60), <1>1, MinProperty
<1> HIDE DEF S
<1>3. PICK x \in S : x = Min(S) /\ \A y \in S : x <= y
  BY ZenonT(60), <1>2
<1>4. x = k
  BY <1>3 DEF S
<1> QED
  BY ZenonT(60), <1>3, <1>4 DEF S

(* Induction, with a set of numbers in place of a predicate. *)
LEMMA Induction ==
    ASSUME NEW S, 0 \in S, \A n \in Nat : n \in S => n + 1 \in S
    PROVE  \A n \in Nat : n \in S
<1> DEFINE Bad == {n \in Nat : n \notin S}
<1> SUFFICES ASSUME Bad # {} PROVE FALSE
  OBVIOUS
<1>1. Bad \in SUBSET Nat
  OBVIOUS
<1>2. Min(Bad) \in Bad /\ \A y \in Bad : Min(Bad) <= y
  BY ZenonT(60), <1>1, MinProperty
<1>3. PICK m \in Bad : \A y \in Bad : m <= y
  BY ZenonT(60), <1>2
<1>4. m \in Nat /\ m # 0 /\ m - 1 \in Nat /\ m - 1 \notin Bad
  BY <1>3
<1>5. m - 1 \in S /\ (m - 1) + 1 = m
  BY <1>4
<1>6. QED
  BY <1>3, <1>4, <1>5

(* A recursion whose step is given by a function has a solution. *)
LEMMA Recursion ==
    ASSUME NEW S, NEW a \in S, NEW G \in [Nat -> [S -> S]], NEW n \in Nat
    PROVE  \E f : IsRecursion(f, S, a, G, n)
<1> DEFINE Sol(f, k) == f[0] = a /\ \A i \in 1 .. k : f[i] = G[i][f[i - 1]]
           Good == {k \in Nat : \E f \in [0 .. k -> S] : Sol(f, k)}
<1>1. 0 \in Good
  <2>1. [i \in 0 .. 0 |-> a] \in [0 .. 0 -> S] /\ Sol([i \in 0 .. 0 |-> a], 0)
    OBVIOUS
  <2> QED
    BY Zenon, <2>1
<1>2. ASSUME NEW k \in Nat, k \in Good  PROVE k + 1 \in Good
  <2>1. PICK f \in [0 .. k -> S] : Sol(f, k)
    BY <1>2
  <2> DEFINE g == [i \in 0 .. k + 1 |-> IF i = k + 1 THEN G[k + 1][f[k]] ELSE f[i]]
  <2>2. g \in [0 .. k + 1 -> S]
    OBVIOUS
  <2>3. g[0] = a
    BY <2>1
  <2>4. ASSUME NEW i \in 1 .. k + 1  PROVE g[i] = G[i][g[i - 1]]
    <3>1. CASE i = k + 1
      <4>1. g[i] = G[k + 1][f[k]] /\ g[i - 1] = f[k]
        BY <3>1
      <4> QED
        BY <3>1, <4>1
    <3>2. CASE i # k + 1
      <4>1. i \in 1 .. k /\ i - 1 \in 0 .. k
        BY <3>2
      <4>2. g[i] = f[i] /\ g[i - 1] = f[i - 1]
        BY <4>1
      <4> QED
        BY <2>1, <4>1, <4>2
    <3> QED
      BY <3>1, <3>2
  <2> HIDE DEF g
  <2>5. Sol(g, k + 1)
    BY <2>3, <2>4
  <2>6. k + 1 \in Nat
    OBVIOUS
  <2> HIDE DEF Sol
  <2> QED
    BY <2>2, <2>5, <2>6
<1> HIDE DEF Good
<1>3. \A k \in Nat : k \in Good
  BY <1>1, <1>2, Induction
<1> QED
  BY <1>3 DEF Good, IsRecursion

(* The clockwise distance is a natural number and tells positions apart. *)
LEMMA ClockwiseProperty ==
    ASSUME NEW h \in Position, NEW t \in Position
    PROVE  /\ Clockwise(h, t) \in Nat
           /\ \A u \in Position : Clockwise(h, t) = Clockwise(h, u) => t = u
BY SpaceAssumption DEF Position, Clockwise

(* Nearest is the distance of some token, and of no token a larger one. *)
LEMMA NearestProperty ==
    ASSUME NEW h \in Position, NEW T \in SUBSET Position, T # {}
    PROVE  /\ Nearest(h, T) \in Nat
           /\ \E t \in T : Nearest(h, T) = Clockwise(h, t)
           /\ \A t \in T : Nearest(h, T) <= Clockwise(h, t)
<1> DEFINE S == {Clockwise(h, t) : t \in T}
<1>1. S \in SUBSET Nat /\ S # {}
  BY ClockwiseProperty
<1>2. Min(S) \in S /\ \A y \in S : Min(S) <= y
  BY ZenonT(60), <1>1, MinProperty
<1>3. QED
  BY <1>1, <1>2 DEF Nearest

(* lower_bound with its wrap-around finds the token nearest clockwise. *)
LEMMA LowerBoundNearest ==
    ASSUME NEW ring, NEW h \in Position,
           DOMAIN ring \in SUBSET Position, DOMAIN ring # {}
    PROVE  /\ LowerBound(ring, h) \in DOMAIN ring
           /\ \A t \in DOMAIN ring :
                Clockwise(h, LowerBound(ring, h)) <= Clockwise(h, t)
<1> DEFINE after == {t \in DOMAIN ring : t >= h}
<1>1. DOMAIN ring \in SUBSET Nat /\ after \in SUBSET Nat
  BY SpaceAssumption DEF Position
<1>2. CASE after = {}
  <2>1. LowerBound(ring, h) = Min(DOMAIN ring)
    BY <1>2 DEF LowerBound
  <2>2. /\ Min(DOMAIN ring) \in DOMAIN ring
        /\ \A t \in DOMAIN ring : Min(DOMAIN ring) <= t
    BY <1>1, MinProperty
  <2>3. \A t \in DOMAIN ring : ~(t >= h)
    BY <1>2
  <2>4. QED
    BY <2>1, <2>2, <2>3, SpaceAssumption DEF Clockwise, Position
<1>3. CASE after # {}
  <2>1. LowerBound(ring, h) = Min(after)
    BY <1>3 DEF LowerBound
  <2>2. Min(after) \in after /\ \A t \in after : Min(after) <= t
    BY <1>1, <1>3, MinProperty
  <2>3. \A t \in DOMAIN ring : t >= h => Min(after) <= t
    BY <2>2
  <2>4. Min(after) \in DOMAIN ring /\ Min(after) >= h
    BY <2>2
  <2> HIDE DEF after
  <2>5. QED
    BY <2>1, <2>3, <2>4, SpaceAssumption DEF Clockwise, Position
<1>4. QED
  BY <1>2, <1>3

(* If n is on its own ring, an owner other than n that the lookup names is *)
(* strictly nearer to the hash than n (ring_store.cpp 44-53).              *)
THEOREM OwnerIsNearer ==
    ASSUME NEW T \in [Node -> (SUBSET Position) \ {{}}],
           NEW ring, NEW n \in Node, NEW h \in Position,
           SelfOnRing(ring, n, T),
           GetNodeForKey(ring, h) \notin {NoNode, n}
    PROVE  /\ GetNodeForKey(ring, h) \in Node
           /\ Nearest(h, T[GetNodeForKey(ring, h)]) < Nearest(h, T[n])
<1> DEFINE t == LowerBound(ring, h)
           m == GetNodeForKey(ring, h)
<1>1. DOMAIN ring \in SUBSET Position /\ DOMAIN ring # {} /\ m = ring[t]
  BY DEF SelfOnRing, GetNodeForKey
<1>2. /\ t \in DOMAIN ring
      /\ \A u \in DOMAIN ring : Clockwise(h, t) <= Clockwise(h, u)
  BY <1>1, LowerBoundNearest
<1>3. m \in Node /\ t \in T[m] /\ t \notin T[n]
  BY <1>1, <1>2 DEF SelfOnRing
<1>4. PICK u \in T[n] : Nearest(h, T[n]) = Clockwise(h, u)
  BY NearestProperty
<1>5. Nearest(h, T[m]) \in Nat /\ Nearest(h, T[m]) <= Clockwise(h, t)
  BY <1>3, NearestProperty
<1>6. u \in DOMAIN ring /\ u # t
  BY <1>3, <1>4 DEF SelfOnRing
<1>7. /\ Clockwise(h, t) \in Nat /\ Clockwise(h, u) \in Nat
      /\ Clockwise(h, t) # Clockwise(h, u)
  BY <1>1, <1>2, <1>6, ClockwiseProperty
<1>8. QED
  BY <1>2, <1>3, <1>4, <1>5, <1>6, <1>7

-----------------------------------------------------------------------------
(* get_n_nodes_for_key *)

(* A ring has finitely many tokens. *)
LEMMA RingFinite ==
    ASSUME NEW ring, DOMAIN ring \in SUBSET Position
    PROVE  IsFiniteSet(DOMAIN ring) /\ Cardinality(DOMAIN ring) \in Nat
<1>1. IsFiniteSet(Position)
  BY SpaceAssumption, FS_Interval DEF Position
<1>2. QED
  BY <1>1, FS_Subset, FS_CardinalityType

(* ++it stays on the ring. *)
LEMMA NextOnRing ==
    ASSUME NEW ring, DOMAIN ring \in SUBSET Position, NEW t \in DOMAIN ring
    PROVE  NextToken(ring, t) \in DOMAIN ring
<1> DEFINE after == {u \in DOMAIN ring : u > t}
<1>1. DOMAIN ring \in SUBSET Nat /\ after \in SUBSET Nat /\ DOMAIN ring # {}
  BY SpaceAssumption DEF Position
<1>2. Min(DOMAIN ring) \in DOMAIN ring
  BY <1>1, MinProperty
<1>3. CASE after = {}
  BY <1>2, <1>3 DEF NextToken
<1>4. CASE after # {}
  <2>1. Min(after) \in after
    BY <1>1, <1>4, MinProperty
  <2> QED
    BY <1>4, <2>1 DEF NextToken
<1> QED
  BY <1>3, <1>4

(* A round exists, and stays on the ring. *)
LEMMA RoundExists ==
    ASSUME NEW ring, NEW h \in Position, DOMAIN ring \in SUBSET Position
    PROVE  \E token : IsRound(ring, h, token)
<1> DEFINE size == Cardinality(DOMAIN ring)
           a == LowerBound(ring, h)
           G == [k \in Nat |-> [t \in DOMAIN ring |->
                                  IF k = 1 THEN a ELSE NextToken(ring, t)]]
<1>0. size \in Nat
  BY RingFinite
<1>1. CASE DOMAIN ring = {}
  <2>1. size = 0
    BY <1>1, FS_EmptySet
  <2>2. IsRound(ring, h, [i \in 1 .. 0 |-> a])
    BY <2>1 DEF IsRound
  <2> QED
    BY <2>2
<1>2. CASE DOMAIN ring # {}
  <2>1. a \in DOMAIN ring
    BY <1>2, LowerBoundNearest
  <2>2. G \in [Nat -> [DOMAIN ring -> DOMAIN ring]]
    BY <2>1, NextOnRing
  <2> HIDE DEF a, size, G
  <2>a. PICK f : IsRecursion(f, DOMAIN ring, a, G, size)
    BY <1>0, <2>1, <2>2, Recursion
  <2>3. /\ f \in [0 .. size -> DOMAIN ring]
        /\ \A i \in 1 .. size : f[i] = G[i][f[i - 1]]
    BY <2>a DEF IsRecursion
  <2>4. ASSUME NEW i \in 1 .. size
        PROVE  f[i] = IF i = 1 THEN a ELSE NextToken(ring, f[i - 1])
    <3>1. i \in Nat /\ i - 1 \in 0 .. size
      BY <1>0
    <3>2. f[i - 1] \in DOMAIN ring
      BY <2>3, <3>1
    <3>3. G[i][f[i - 1]] = IF i = 1 THEN a ELSE NextToken(ring, f[i - 1])
      BY <3>1, <3>2 DEF G
    <3> QED
      BY <2>3, <3>3
  <2> DEFINE token == [i \in 1 .. size |-> f[i]]
  <2>5. ASSUME NEW i \in 1 .. size
        PROVE  f[i] = IF i = 1 THEN a ELSE NextToken(ring, token[i - 1])
    <3>1. i # 1 => i - 1 \in 1 .. size
      BY <1>0
    <3> QED
      BY <2>4, <3>1
  <2>6. IsRound(ring, h, token)
    BY <2>5 DEF IsRound, a, size
  <2> QED
    BY <2>6
<1> QED
  BY Zenon, <1>1, <1>2

(* Every token of a round is on the ring. *)
LEMMA RoundOnRing ==
    ASSUME NEW ring, NEW h \in Position, DOMAIN ring \in SUBSET Position,
           NEW token, IsRound(ring, h, token)
    PROVE  \A i \in 1 .. Cardinality(DOMAIN ring) : token[i] \in DOMAIN ring
<1> DEFINE size == Cardinality(DOMAIN ring)
           Good == {i \in Nat : i \in 1 .. size => token[i] \in DOMAIN ring}
<1>1. /\ size \in Nat
      /\ \A i \in 1 .. size :
           token[i] = IF i = 1 THEN LowerBound(ring, h) ELSE NextToken(ring, token[i - 1])
  BY RingFinite DEF IsRound
<1>2. 0 \in Good
  BY <1>1
<1>3. ASSUME NEW i \in Nat, i \in Good  PROVE i + 1 \in Good
  <2> SUFFICES ASSUME i + 1 \in 1 .. size  PROVE token[i + 1] \in DOMAIN ring
    OBVIOUS
  <2>1. DOMAIN ring # {}
    BY <1>1, FS_EmptySet
  <2>2. CASE i = 0
    BY <1>1, <2>1, <2>2, LowerBoundNearest
  <2>3. CASE i # 0
    <3>1. i \in 1 .. size /\ (i + 1) - 1 = i /\ i + 1 # 1
      BY <1>1, <2>3
    <3>2. token[i] \in DOMAIN ring /\ token[i + 1] = NextToken(ring, token[i])
      BY <1>1, <1>3, <3>1
    <3> QED
      BY <3>2, NextOnRing
  <2> QED
    BY <2>2, <2>3
<1> HIDE DEF Good
<1>4. \A i \in Nat : i \in Good
  BY <1>2, <1>3, Induction
<1> QED
  BY <1>1, <1>4 DEF Good

(* What the nodes collected so far become at a token of the ring. *)
LEMMA CollectedTyped ==
    ASSUME NEW ring, NEW n, NEW V, NEW sofar \in Seq(V), NEW node \in V
    PROVE  Collected(ring, n, sofar, node) \in Seq(V)
BY AppendProperties DEF Collected

(* A visit exists. *)
LEMMA VisitExists ==
    ASSUME NEW ring, NEW h \in Position, NEW n, DOMAIN ring \in SUBSET Position,
           NEW token, IsRound(ring, h, token)
    PROVE  \E visited : IsVisit(ring, n, token, visited)
<1> DEFINE size == Cardinality(DOMAIN ring)
           V == Range(ring)
           G == [k \in Nat |-> [s \in Seq(V) |->
                   IF k \in 1 .. size THEN Collected(ring, n, s, ring[token[k]]) ELSE s]]
<1>1. size \in Nat
  BY RingFinite
<1>2. \A i \in 1 .. size : ring[token[i]] \in V
  BY RoundOnRing DEF Range
<1> HIDE DEF size, V
<1>3. G \in [Nat -> [Seq(V) -> Seq(V)]]
  BY <1>2, CollectedTyped
<1>4. << >> \in Seq(V)
  OBVIOUS
<1> HIDE DEF G
<1>a. PICK f : IsRecursion(f, Seq(V), << >>, G, size)
  BY Zenon, <1>1, <1>3, <1>4, Recursion
<1>5. /\ f \in [0 .. size -> Seq(V)]
      /\ f[0] = << >> /\ \A i \in 1 .. size : f[i] = G[i][f[i - 1]]
  BY <1>a DEF IsRecursion
<1>6. ASSUME NEW i \in 0 .. size, i # 0
      PROVE  f[i] = Collected(ring, n, f[i - 1], ring[token[i]])
  <2>1. i \in Nat /\ i \in 1 .. size /\ i - 1 \in 0 .. size
    BY <1>1, <1>6
  <2>2. f[i - 1] \in Seq(V)
    BY <1>5, <2>1
  <2>3. G[i][f[i - 1]] = Collected(ring, n, f[i - 1], ring[token[i]])
    BY <2>1, <2>2 DEF G
  <2> QED
    BY <1>5, <2>1, <2>3
<1>7. f = [i \in 0 .. size |-> f[i]]
  BY <1>5
<1>8. f = [i \in 0 .. size |-> IF i = 0 THEN << >>
                               ELSE Collected(ring, n, f[i - 1], ring[token[i]])]
  BY <1>5, <1>6, <1>7, Zenon
<1> QED
  BY Zenon, <1>8 DEF IsVisit, size

(* Every stage of a visit is a sequence of nodes of the ring. *)
LEMMA VisitTyped ==
    ASSUME NEW ring, NEW h \in Position, NEW n, DOMAIN ring \in SUBSET Position,
           NEW token, IsRound(ring, h, token),
           NEW visited, IsVisit(ring, n, token, visited)
    PROVE  \A i \in 0 .. Cardinality(DOMAIN ring) : visited[i] \in Seq(Range(ring))
<1> DEFINE size == Cardinality(DOMAIN ring)
           V == Range(ring)
           Good == {i \in Nat : i \in 0 .. size => visited[i] \in Seq(V)}
<1>1. /\ size \in Nat
      /\ \A i \in 1 .. size : ring[token[i]] \in V
      /\ \A i \in 0 .. size :
           visited[i] = IF i = 0 THEN << >>
                        ELSE Collected(ring, n, visited[i - 1], ring[token[i]])
  BY RingFinite, RoundOnRing DEF Range, IsVisit
<1> HIDE DEF size, V
<1>2. 0 \in Good
  <2>1. 0 \in 0 .. size /\ << >> \in Seq(V)
    BY <1>1
  <2>2. visited[0] = << >>
    BY <1>1, <2>1
  <2> QED
    BY Zenon, <2>1, <2>2
<1>3. ASSUME NEW i \in Nat, i \in Good  PROVE i + 1 \in Good
  <2> SUFFICES ASSUME i + 1 \in 0 .. size  PROVE visited[i + 1] \in Seq(V)
    OBVIOUS
  <2>1. i \in 0 .. size /\ i + 1 \in 1 .. size /\ (i + 1) - 1 = i
    BY <1>1
  <2>2. visited[i + 1] = Collected(ring, n, visited[i], ring[token[i + 1]])
    BY <1>1, <2>1
  <2> QED
    BY <1>1, <1>3, <2>1, <2>2, CollectedTyped
<1> HIDE DEF Good
<1>4. \A i \in Nat : i \in Good
  BY <1>2, <1>3, Induction
<1> QED
  BY <1>1, <1>4 DEF Good, size, V

(* get_n_nodes_for_key is a visit of a round. *)
LEMMA NNodesIsVisit ==
    ASSUME NEW ring, NEW h \in Position, NEW n,
           DOMAIN ring \in SUBSET Position
    PROVE  \E token, visited :
             /\ IsRound(ring, h, token)
             /\ IsVisit(ring, n, token, visited)
             /\ GetNNodesForKey(ring, h, n) = visited[Cardinality(DOMAIN ring)]
<1> DEFINE size == Cardinality(DOMAIN ring)
           token == CHOOSE f : f = [i \in 1 .. size |->
                       IF i = 1 THEN LowerBound(ring, h) ELSE NextToken(ring, f[i - 1])]
           visited == CHOOSE f : f = [i \in 0 .. size |->
                       IF i = 0 THEN << >>
                       ELSE LET sofar == f[i - 1]
                                node  == ring[token[i]]
                            IN  IF \/ n > 0 /\ Len(sofar) = n
                                   \/ node \in Range(sofar)
                                THEN sofar
                                ELSE Append(sofar, node)]
<1>1. GetNNodesForKey(ring, h, n) = visited[size]
  BY DEF GetNNodesForKey
<1>2. \E f : IsRound(ring, h, f)
  BY RoundExists
<1>3. IsRound(ring, h, token)
  BY <1>2, Zenon DEF IsRound
<1> HIDE DEF token
<1>4. \E f : IsVisit(ring, n, token, f)
  BY Zenon, <1>3, VisitExists
<1>5. IsVisit(ring, n, token, visited)
  BY <1>4, Zenon DEF IsVisit, Collected
<1> QED
  BY Zenon, <1>1, <1>3, <1>5

(* get_n_nodes_for_key returns a sequence of nodes of the ring. *)
LEMMA NNodesTyped ==
    ASSUME NEW ring, NEW h \in Position, NEW n, DOMAIN ring \in SUBSET Position
    PROVE  GetNNodesForKey(ring, h, n) \in Seq(Range(ring))
<1>1. PICK token, visited :
        /\ IsRound(ring, h, token)
        /\ IsVisit(ring, n, token, visited)
        /\ GetNNodesForKey(ring, h, n) = visited[Cardinality(DOMAIN ring)]
  BY NNodesIsVisit
<1>2. Cardinality(DOMAIN ring) \in 0 .. Cardinality(DOMAIN ring)
  BY RingFinite
<1> QED
  BY <1>1, <1>2, VisitTyped

-----------------------------------------------------------------------------
(* The order of get_n_nodes_for_key *)

(* While a token further clockwise is left, ++it goes to the nearest one.  *)
LEMMA NextIsNearest ==
    ASSUME NEW ring, NEW h \in Position, DOMAIN ring \in SUBSET Position,
           NEW t \in DOMAIN ring,
           \E u \in DOMAIN ring : Clockwise(h, t) < Clockwise(h, u)
    PROVE  /\ Clockwise(h, t) < Clockwise(h, NextToken(ring, t))
           /\ \A u \in DOMAIN ring :
                Clockwise(h, t) < Clockwise(h, u)
                  => Clockwise(h, NextToken(ring, t)) <= Clockwise(h, u)
<1> DEFINE after == {u \in DOMAIN ring : u > t}
           w == NextToken(ring, t)
<1>1. DOMAIN ring \in SUBSET Nat /\ after \in SUBSET Nat /\ DOMAIN ring # {}
  BY SpaceAssumption DEF Position
<1>2. CASE after = {}
  <2>1. w = Min(DOMAIN ring)
    BY <1>2 DEF NextToken
  <2>2. w \in DOMAIN ring /\ \A u \in DOMAIN ring : w <= u
    BY <1>1, <2>1, MinProperty
  <2>3. \A u \in DOMAIN ring : ~(u > t)
    BY <1>2
  <2> HIDE DEF w
  <2> QED
    BY <2>2, <2>3, SpaceAssumption DEF Clockwise, Position, w
<1>3. CASE after # {}
  <2>1. w = Min(after)
    BY <1>3 DEF NextToken
  <2>2. w \in after /\ \A u \in after : w <= u
    BY <1>1, <1>3, <2>1, MinProperty
  <2>3. w \in DOMAIN ring /\ w > t /\ \A u \in DOMAIN ring : u > t => w <= u
    BY <2>2
  <2> HIDE DEF w, after
  <2> QED
    BY <2>3, SpaceAssumption DEF Clockwise, Position, w
<1> QED
  BY <1>2, <1>3

(* Fewer tokens than the ring has do not make up the ring. *)
LEMMA TokenLeft ==
    ASSUME NEW ring, DOMAIN ring \in SUBSET Position, NEW token,
           NEW i \in Nat, i < Cardinality(DOMAIN ring)
    PROVE  \E u \in DOMAIN ring : \A j \in 1 .. i : u # token[j]
<1> SUFFICES ASSUME \A u \in DOMAIN ring : \E j \in 1 .. i : u = token[j]
             PROVE  FALSE
  OBVIOUS
<1> DEFINE S == {j \in 1 .. i : token[j] \in DOMAIN ring}
           f == [j \in S |-> token[j]]
<1>1. IsFiniteSet(1 .. i) /\ Cardinality(1 .. i) = i
  BY FS_Interval
<1>2. IsFiniteSet(S) /\ Cardinality(S) <= i
  BY <1>1, FS_Subset
<1>3. f \in Surjection(S, DOMAIN ring)
  BY DEF Surjection
<1> HIDE DEF f, S
<1>4. Cardinality(DOMAIN ring) <= Cardinality(S)
  BY <1>2, <1>3, FS_Surjection
<1>5. Cardinality(S) \in Nat /\ Cardinality(DOMAIN ring) \in Nat
  BY <1>2, FS_CardinalityType, RingFinite
<1> QED
  BY <1>2, <1>4, <1>5

(* A round meets the tokens by their distance. *)
LEMMA RoundNearest ==
    ASSUME NEW ring, NEW h \in Position, DOMAIN ring \in SUBSET Position,
           NEW token, IsRound(ring, h, token)
    PROVE  \A i \in 1 .. Cardinality(DOMAIN ring) : NearestSoFar(ring, h, token, i)
<1> DEFINE size == Cardinality(DOMAIN ring)
           c(u) == Clockwise(h, u)
           Good == {i \in Nat : i \in 1 .. size => NearestSoFar(ring, h, token, i)}
<1>1. /\ size \in Nat
      /\ \A i \in 1 .. size : token[i] \in DOMAIN ring
      /\ \A i \in 1 .. size :
           token[i] = IF i = 1 THEN LowerBound(ring, h) ELSE NextToken(ring, token[i - 1])
  BY RingFinite, RoundOnRing DEF IsRound
<1>2. \A u \in DOMAIN ring : u \in Position /\ c(u) \in Nat
  BY ClockwiseProperty
<1>3. \A u, w \in DOMAIN ring : c(u) = c(w) => u = w
  BY <1>2, ClockwiseProperty
<1>4. 0 \in Good
  BY <1>1
<1>5. ASSUME NEW i \in Nat, i \in Good  PROVE i + 1 \in Good
  <2> SUFFICES ASSUME i + 1 \in 1 .. size  PROVE NearestSoFar(ring, h, token, i + 1)
    OBVIOUS
  <2> HIDE DEF size
  <2>1. CASE i = 0
    <3>1. DOMAIN ring # {} /\ token[1] = LowerBound(ring, h)
      BY <1>1, <2>1
    <3>2. \A u \in DOMAIN ring : c(token[1]) <= c(u)
      BY <3>1, LowerBoundNearest
    <3>3. \A u \in DOMAIN ring : ~(c(u) < c(token[1]))
      BY <1>1, <1>2, <2>1, <3>2
    <3> QED
      BY <2>1, <3>3 DEF NearestSoFar
  <2>2. CASE i # 0
    <3> DEFINE t == token[i]
               w == token[i + 1]
    <3>1. i \in 1 .. size /\ i < size /\ (i + 1) - 1 = i /\ i + 1 # 1
      BY <1>1, <2>2
    <3>2. t \in DOMAIN ring /\ w \in DOMAIN ring /\ w = NextToken(ring, t)
      BY <1>1, <3>1
    <3>3. /\ \A j \in 1 .. i - 1 : c(token[j]) < c(t)
          /\ \A u \in DOMAIN ring : c(u) < c(t) => \E j \in 1 .. i - 1 : u = token[j]
      BY <1>5, <3>1 DEF NearestSoFar
    <3>4. PICK u \in DOMAIN ring : \A j \in 1 .. i : u # token[j]
      BY <3>1, TokenLeft DEF size
    <3>5. i \in 1 .. i /\ 1 .. i - 1 \subseteq 1 .. i
      BY <3>1
    <3>6. u # t /\ ~(c(u) < c(t))
      BY <3>3, <3>4, <3>5
    <3>7. c(t) < c(u)
      BY <1>2, <1>3, <3>2, <3>6
    <3>8. /\ c(t) < c(w)
          /\ \A x \in DOMAIN ring : c(t) < c(x) => c(w) <= c(x)
      BY <3>2, <3>7, NextIsNearest
    <3>9. ASSUME NEW j \in 1 .. i  PROVE c(token[j]) < c(w)
      <4>1. j = i \/ j \in 1 .. i - 1
        OBVIOUS
      <4>2. j \in 1 .. size
        BY <1>1, <3>1
      <4>3. token[j] \in DOMAIN ring
        BY <1>1, <4>2
      <4> QED
        BY <1>2, <3>2, <3>3, <3>8, <4>1, <4>3
    <3>10. ASSUME NEW x \in DOMAIN ring, c(x) < c(w)
           PROVE  \E j \in 1 .. i : x = token[j]
      <4>1. ~(c(t) < c(x))
        BY <1>2, <3>2, <3>8, <3>10
      <4>2. x = t \/ c(x) < c(t)
        BY <1>2, <1>3, <3>2, <4>1
      <4> QED
        BY <3>3, <3>5, <4>2
    <3> QED
      BY <3>1, <3>9, <3>10 DEF NearestSoFar
  <2> QED
    BY <2>1, <2>2
<1> HIDE DEF Good
<1>6. \A i \in Nat : i \in Good
  BY <1>4, <1>5, Induction
<1> QED
  BY <1>1, <1>6 DEF Good

(* A round meets every token of the ring. *)
LEMMA RoundComplete ==
    ASSUME NEW ring, NEW h \in Position, DOMAIN ring \in SUBSET Position,
           NEW token, IsRound(ring, h, token), NEW t \in DOMAIN ring
    PROVE  \E i \in 1 .. Cardinality(DOMAIN ring) : t = token[i]
<1> DEFINE size == Cardinality(DOMAIN ring)
           c(u) == Clockwise(h, u)
<1>1. /\ size \in Nat /\ IsFiniteSet(DOMAIN ring)
      /\ \A i \in 1 .. size : token[i] \in DOMAIN ring
      /\ token \in [1 .. size -> DOMAIN ring]
  BY Zenon, RingFinite, RoundOnRing DEF IsRound
<1>2. \A i, j \in 1 .. size : j < i => c(token[j]) < c(token[i])
  BY <1>1, RoundNearest DEF NearestSoFar
<1>3. \A i \in 1 .. size : c(token[i]) \in Nat
  BY <1>1, ClockwiseProperty
<1>4. \A i, j \in 1 .. size : token[i] = token[j] => i = j
  <2> SUFFICES ASSUME NEW i \in 1 .. size, NEW j \in 1 .. size, token[i] = token[j]
               PROVE  i = j
    OBVIOUS
  <2>1. c(token[i]) = c(token[j]) /\ c(token[i]) \in Nat
    BY <1>3
  <2> HIDE DEF c
  <2>2. ~(i < j) /\ ~(j < i)
    BY <1>2, <2>1
  <2> QED
    BY <1>1, <2>2
<1>5. token \in Injection(1 .. size, DOMAIN ring)
  BY <1>1, <1>4 DEF Injection, IsInjective
<1>6. Cardinality(1 .. size) = size
  BY <1>1, FS_Interval
<1>7. token \in Surjection(1 .. size, DOMAIN ring)
  BY <1>1, <1>5, <1>6, FS_Injection
<1> QED
  BY <1>7 DEF Surjection

(* A node not met yet is further away than the tokens passed, and one met  *)
(* for the first time is as far away as the token.                         *)
LEMMA NotMetYet ==
    ASSUME NEW ring, NEW h \in Position, DOMAIN ring \in SUBSET Position,
           NEW token, IsRound(ring, h, token),
           NEW i \in 0 .. Cardinality(DOMAIN ring),
           NEW node \in Range(ring), node \notin Met(ring, token, i)
    PROVE  /\ NearOf(ring, h, node) \in Nat
           /\ \A j \in 1 .. i : Clockwise(h, token[j]) < NearOf(ring, h, node)
           /\ \A j \in 1 .. Cardinality(DOMAIN ring) :
                j = i + 1 /\ ring[token[j]] = node
                  => NearOf(ring, h, node) = Clockwise(h, token[j])
<1> DEFINE size == Cardinality(DOMAIN ring)
           T == {t \in DOMAIN ring : ring[t] = node}
           c(u) == Clockwise(h, u)
<1>1. T \in SUBSET Position /\ T # {} /\ size \in Nat
  BY RingFinite DEF Range
<1>2. /\ NearOf(ring, h, node) \in Nat
      /\ \E t \in T : NearOf(ring, h, node) = c(t)
      /\ \A t \in T : NearOf(ring, h, node) <= c(t)
  <2> HIDE DEF c
  <2>1. NearOf(ring, h, node) = Nearest(h, T)
    BY DEF NearOf
  <2> HIDE DEF T
  <2> QED
    BY <1>1, <2>1, NearestProperty DEF c
<1>3. PICK t \in T : NearOf(ring, h, node) = c(t)
  BY <1>2
<1>4. PICK k \in 1 .. size : t = token[k]
  BY RoundComplete
<1>5. ~(k \in 1 .. i)
  BY <1>3, <1>4 DEF Met
<1>6. k > i
  BY <1>1, <1>5
<1>7. /\ \A a, b \in 1 .. size : a < b => c(token[a]) < c(token[b])
      /\ \A a \in 1 .. size : token[a] \in DOMAIN ring
  BY <1>1, RoundNearest, RoundOnRing DEF NearestSoFar
<1>8. \A j \in 1 .. i : c(token[j]) < c(token[k])
  BY <1>1, <1>6, <1>7
<1>9. ASSUME NEW j \in 1 .. size, j = i + 1, ring[token[j]] = node
      PROVE  NearOf(ring, h, node) = c(token[j])
  <2>1. token[j] \in T
    BY <1>7, <1>9
  <2>2. NearOf(ring, h, node) <= c(token[j]) /\ c(token[j]) \in Nat
    BY <1>1, <1>2, <2>1, ClockwiseProperty
  <2>3. k = j \/ j < k
    BY <1>6, <1>9
  <2>4. c(token[j]) <= c(token[k])
    <3>1. c(token[k]) \in Nat
      BY <1>2, <1>3, <1>4
    <3>2. j < k => c(token[j]) < c(token[k])
      BY <1>7
    <3> HIDE DEF c
    <3> QED
      BY <2>2, <2>3, <3>1, <3>2
  <2> QED
    BY <1>2, <1>3, <1>4, <2>2, <2>4
<1> QED
  BY <1>2, <1>3, <1>4, <1>8, <1>9

(* One more token keeps the order. *)
LEMMA CollectedInOrder ==
    ASSUME NEW ring, NEW h \in Position, DOMAIN ring \in SUBSET Position,
           NEW token, IsRound(ring, h, token), NEW n \in Nat \ {0},
           NEW i \in Nat, i + 1 \in 1 .. Cardinality(DOMAIN ring),
           NEW v \in Seq(Range(ring)), InOrder(ring, h, n, token, i, v)
    PROVE  InOrder(ring, h, n, token, i + 1, Collected(ring, n, v, ring[token[i + 1]]))
<1> DEFINE size == Cardinality(DOMAIN ring)
           node == ring[token[i + 1]]
           near(m) == NearOf(ring, h, m)
           w == Collected(ring, n, v, node)
<1>1. /\ size \in Nat /\ i \in 0 .. size /\ i + 1 \in 0 .. size
      /\ node \in Range(ring)
      /\ Len(v) \in Nat /\ DOMAIN v = 1 .. Len(v)
  BY RingFinite, RoundOnRing, LenProperties DEF Range
<1>a. ASSUME NEW k \in Nat  PROVE (k < n => k # n) /\ (k <= n /\ k # n => k < n)
  OBVIOUS
<1>2. Met(ring, token, i + 1) = Met(ring, token, i) \cup {node}
  <2>1. 1 .. i + 1 = (1 .. i) \cup {i + 1}
    OBVIOUS
  <2> QED
    BY <2>1 DEF Met
<1>3. CASE Len(v) = n \/ node \in Range(v)
  <2>1. w = v
    BY <1>3 DEF Collected
  <2>2. Len(v) < n => Met(ring, token, i + 1) = Met(ring, token, i)
    <3> SUFFICES ASSUME Len(v) < n  PROVE node \in Met(ring, token, i)
      BY Zenon, <1>2
    <3>0. Len(v) # n
      BY <1>1, <1>a, Zenon
    <3>1. node \in Range(v)
      BY <1>3, <3>0, Zenon
    <3> QED
      BY <3>1 DEF InOrder
  <2> HIDE DEF near, w
  <2>3. InOrder(ring, h, n, token, i + 1, v)
    BY <1>2, <2>2 DEF InOrder
  <2> QED
    BY <2>1, <2>3 DEF w
<1>4. CASE ~(Len(v) = n \/ node \in Range(v))
  <2>1. w = Append(v, node)
    BY <1>4 DEF Collected
  <2>2. /\ Len(w) = Len(v) + 1 /\ DOMAIN w = 1 .. Len(v) + 1
        /\ \A a \in 1 .. Len(v) : w[a] = v[a]
        /\ w[Len(v) + 1] = node
    BY <1>1, <2>1, AppendProperties
  <2> HIDE DEF w, near
  <2>3. Range(w) = Range(v) \cup {node}
    <3>1. DOMAIN w = DOMAIN v \cup {Len(v) + 1} /\ \A a \in DOMAIN v : w[a] = v[a]
      BY <1>1, <2>2
    <3>2. \A a \in DOMAIN w : w[a] \in Range(v) \cup {node}
      BY <2>2, <3>1 DEF Range
    <3>3. \A a \in DOMAIN v : v[a] \in Range(w)
      BY <3>1 DEF Range
    <3>4. node \in Range(w)
      BY <2>2, <3>1 DEF Range
    <3> QED
      BY <3>2, <3>3, <3>4 DEF Range
  <2>4. Len(v) < n /\ Range(v) = Met(ring, token, i)
    <3>1. Len(v) <= n /\ (Len(v) < n => Range(v) = Met(ring, token, i))
      BY DEF InOrder
    <3>0. Len(v) # n
      BY <1>4, Zenon
    <3>2. Len(v) < n
      BY <1>1, <1>a, <3>0, <3>1, Zenon
    <3> QED
      BY <3>1, <3>2
  <2>5. near(node) = Clockwise(h, token[i + 1])
    <3>1. node \notin Met(ring, token, i) /\ i + 1 \in 1 .. size
      BY <1>4, <2>4
    <3> HIDE DEF size
    <3>2. \A j \in 1 .. size : j = i + 1 /\ ring[token[j]] = node
            => near(node) = Clockwise(h, token[j])
      BY <1>1, <3>1, NotMetYet DEF near, size
    <3> QED
      BY <3>1, <3>2
  <2>6. \A m \in Range(ring) \ Range(w) : near(node) < near(m)
    <3> SUFFICES ASSUME NEW m \in Range(ring) \ Range(w)  PROVE near(node) < near(m)
      OBVIOUS
    <3>1. m \notin Met(ring, token, i + 1)
      BY <1>2, <2>3, <2>4
    <3>2. i + 1 \in 1 .. i + 1
      OBVIOUS
    <3> QED
      BY <1>1, <2>5, <3>1, <3>2, NotMetYet DEF near
  <2>7. \A a \in DOMAIN v : near(v[a]) < near(node)
    BY Zenon, <1>1, <1>4 DEF InOrder, near
  <2>8. ASSUME NEW a \in DOMAIN w, NEW b \in 1 .. a - 1  PROVE near(w[b]) < near(w[a])
    <3>1. CASE a = Len(v) + 1
      <4>1. b \in DOMAIN v /\ w[b] = v[b] /\ w[a] = node
        BY <1>1, <2>2, <3>1
      <4> QED
        BY <2>7, <4>1
    <3>2. CASE a # Len(v) + 1
      <4>1. a \in DOMAIN v /\ b \in DOMAIN v /\ w[b] = v[b] /\ w[a] = v[a]
        BY <1>1, <2>2, <3>2
      <4> QED
        BY <4>1 DEF InOrder, near
    <3> QED
      BY <3>1, <3>2
  <2>9. ASSUME NEW a \in DOMAIN w, NEW m \in Range(ring) \ Range(w)
        PROVE  near(w[a]) < near(m)
    <3>1. CASE a = Len(v) + 1
      BY <2>2, <2>6, <3>1
    <3>2. CASE a # Len(v) + 1
      <4>1. a \in DOMAIN v /\ w[a] = v[a] /\ m \notin Range(v)
        BY <1>1, <2>2, <2>3, <3>2
      <4> QED
        BY <4>1 DEF InOrder, near
    <3> QED
      BY <3>1, <3>2
  <2>10. Range(w) = Met(ring, token, i + 1) /\ Len(w) <= n
    BY <1>1, <1>2, <2>2, <2>3, <2>4
  <2>11. InOrder(ring, h, n, token, i + 1, w)
    BY <2>8, <2>9, <2>10 DEF InOrder, near
  <2> QED
    BY <2>11 DEF w
<1> QED
  BY <1>3, <1>4

(* Every stage of a visit is in order. *)
LEMMA VisitInOrder ==
    ASSUME NEW ring, NEW h \in Position, DOMAIN ring \in SUBSET Position,
           NEW token, IsRound(ring, h, token), NEW n \in Nat \ {0},
           NEW visited, IsVisit(ring, n, token, visited)
    PROVE  \A i \in 0 .. Cardinality(DOMAIN ring) :
             InOrder(ring, h, n, token, i, visited[i])
<1> DEFINE size == Cardinality(DOMAIN ring)
           Good == {i \in Nat : i \in 0 .. size => InOrder(ring, h, n, token, i, visited[i])}
<1>1. /\ size \in Nat
      /\ \A i \in 0 .. size :
           visited[i] = IF i = 0 THEN << >>
                        ELSE Collected(ring, n, visited[i - 1], ring[token[i]])
  BY RingFinite DEF IsVisit
<1>2. 0 \in Good
  <2>1. 0 \in 0 .. size
    BY <1>1
  <2>2. visited[0] = << >>
    BY <1>1, <2>1
  <2>3. Len(<< >>) = 0 /\ DOMAIN << >> = {} /\ 1 .. 0 = {}
    OBVIOUS
  <2>4. InOrder(ring, h, n, token, 0, << >>)
    BY <2>3 DEF InOrder, Met, Range
  <2> QED
    BY <2>2, <2>4
<1>3. ASSUME NEW i \in Nat, i \in Good  PROVE i + 1 \in Good
  <2> SUFFICES ASSUME i + 1 \in 0 .. size
               PROVE  InOrder(ring, h, n, token, i + 1, visited[i + 1])
    OBVIOUS
  <2>1. i \in 0 .. size /\ i + 1 \in 1 .. size /\ (i + 1) - 1 = i
    BY <1>1
  <2>2. visited[i + 1] = Collected(ring, n, visited[i], ring[token[i + 1]])
    BY <1>1, <2>1
  <2>3. visited[i] \in Seq(Range(ring))
    BY Zenon, <2>1, VisitTyped
  <2>4. InOrder(ring, h, n, token, i, visited[i])
    BY <1>3, <2>1
  <2> QED
    BY <2>1, <2>2, <2>3, <2>4, CollectedInOrder
<1> HIDE DEF Good
<1>4. \A i \in Nat : i \in Good
  BY <1>2, <1>3, Induction
<1> QED
  BY <1>1, <1>4 DEF Good

(* A sequence without repetitions is as long as it has elements. *)
LEMMA LenIsCardinality ==
    ASSUME NEW S, NEW v \in Seq(S), \A a, b \in DOMAIN v : v[a] = v[b] => a = b
    PROVE  IsFiniteSet(Range(v)) /\ Cardinality(Range(v)) = Len(v)
<1>1. Len(v) \in Nat /\ DOMAIN v = 1 .. Len(v)
  BY LenProperties
<1>2. v \in [DOMAIN v -> Range(v)]
  BY <1>1 DEF Range
<1>3. v \in Surjection(DOMAIN v, Range(v))
  BY <1>2 DEF Surjection, Range
<1>4. v \in Injection(DOMAIN v, Range(v))
  BY <1>2 DEF Injection, IsInjective
<1>5. IsFiniteSet(DOMAIN v) /\ Cardinality(DOMAIN v) = Len(v)
  <2>1. /\ IsFiniteSet(1 .. Len(v))
        /\ Cardinality(1 .. Len(v)) = IF 1 > Len(v) THEN 0 ELSE Len(v) - 1 + 1
    <3>1. 1 \in Int /\ Len(v) \in Int
      BY <1>1
    <3> QED
      BY Zenon, <3>1, FS_Interval
  <2>2. (IF 1 > Len(v) THEN 0 ELSE Len(v) - 1 + 1) = Len(v)
    BY <1>1
  <2> QED
    BY Zenon, <1>1, <2>1, <2>2
<1> QED
  BY <1>3, <1>4, <1>5, FS_Surjection

(* get_n_nodes_for_key (ring_store.cpp 55-82) returns the n nodes, or all  *)
(* if there are fewer, whose nearest tokens come first clockwise, in that  *)
(* order and each once; for every ring, hash and n.                        *)
THEOREM NNodesInOrder ==
    ASSUME NEW ring, NEW h \in Position, DOMAIN ring \in SUBSET Position,
           NEW n \in Nat \ {0}
    PROVE  LET v == GetNNodesForKey(ring, h, n)
           IN  /\ v \in Seq(Range(ring))
               /\ Len(v) = Min({n, Cardinality(Range(ring))})
               /\ \A i \in DOMAIN v : \A j \in 1 .. i - 1 :
                    NearOf(ring, h, v[j]) < NearOf(ring, h, v[i])
               /\ \A node \in Range(ring) \ Range(v), i \in DOMAIN v :
                    NearOf(ring, h, v[i]) < NearOf(ring, h, node)
<1> DEFINE size == Cardinality(DOMAIN ring)
           v == GetNNodesForKey(ring, h, n)
           near(m) == NearOf(ring, h, m)
<1>1. PICK token, visited :
        /\ IsRound(ring, h, token)
        /\ IsVisit(ring, n, token, visited)
        /\ v = visited[size]
  BY NNodesIsVisit
<1>2. size \in 0 .. size /\ size \in Nat /\ IsFiniteSet(DOMAIN ring)
  BY RingFinite
<1> HIDE DEF v
<1>3. v \in Seq(Range(ring)) /\ InOrder(ring, h, n, token, size, v)
  BY Zenon, <1>1, <1>2, VisitTyped, VisitInOrder
<1>4. Len(v) \in Nat /\ DOMAIN v = 1 .. Len(v)
  BY <1>3, LenProperties
<1>5. Met(ring, token, size) = Range(ring)
  <2>1. ASSUME NEW m \in Range(ring)  PROVE m \in Met(ring, token, size)
    <3>1. PICK t \in DOMAIN ring : m = ring[t]
      BY DEF Range
    <3>2. PICK i \in 1 .. size : t = token[i]
      BY <1>1, RoundComplete
    <3> QED
      BY <3>1, <3>2 DEF Met
  <2>2. \A i \in 1 .. size : token[i] \in DOMAIN ring
    BY <1>1, RoundOnRing
  <2> QED
    BY <2>1, <2>2 DEF Met, Range
<1>6. IsFiniteSet(Range(ring)) /\ Cardinality(Range(ring)) \in Nat
  <2> DEFINE f == [t \in DOMAIN ring |-> ring[t]]
  <2>1. f \in Surjection(DOMAIN ring, Range(ring))
    BY DEF Surjection, Range
  <2> HIDE DEF f
  <2>2. IsFiniteSet(Range(ring))
    BY <1>2, <2>1, FS_Surjection
  <2> QED
    BY <2>2, FS_CardinalityType
<1>7. ASSUME NEW m \in Range(ring)  PROVE near(m) \in Nat
  <2>1. 0 \in 0 .. size /\ m \notin Met(ring, token, 0)
    BY <1>2 DEF Met
  <2> QED
    BY <1>1, <2>1, NotMetYet
<1>8. /\ Len(v) <= n /\ (Len(v) < n => Range(v) = Range(ring))
      /\ \A i \in DOMAIN v : \A j \in 1 .. i - 1 : near(v[j]) < near(v[i])
      /\ \A node \in Range(ring) \ Range(v), i \in DOMAIN v : near(v[i]) < near(node)
  BY <1>3, <1>5 DEF InOrder
<1>9. \A i, j \in DOMAIN v : v[i] = v[j] => i = j
  <2> SUFFICES ASSUME NEW i \in DOMAIN v, NEW j \in DOMAIN v, v[i] = v[j]
               PROVE  i = j
    OBVIOUS
  <2>1. near(v[i]) = near(v[j]) /\ near(v[i]) \in Nat
    <3>1. v[i] \in Range(ring)
      BY <1>3, ElementOfSeq, <1>4
    <3> QED
      BY <1>7, <3>1
  <2> HIDE DEF near
  <2>2. i < j => i \in 1 .. j - 1
    BY <1>4
  <2>3. j < i => j \in 1 .. i - 1
    BY <1>4
  <2>4. ~(i < j) /\ ~(j < i)
    BY <1>8, <2>1, <2>2, <2>3
  <2> QED
    BY <1>4, <2>4
<1>10. IsFiniteSet(Range(v)) /\ Cardinality(Range(v)) = Len(v)
  BY <1>3, <1>9, LenIsCardinality
<1>11. Range(v) \in SUBSET Range(ring)
  BY <1>3, <1>5 DEF InOrder
<1>12. Len(v) <= Cardinality(Range(ring))
  BY <1>6, <1>10, <1>11, FS_Subset
<1>13. Len(v) < n => Len(v) = Cardinality(Range(ring))
  BY <1>8, <1>10
<1>14. Len(v) = Min({n, Cardinality(Range(ring))})
  BY ZenonT(60), <1>4, <1>6, <1>8, <1>12, <1>13, LeastOfTwo
<1> QED
  BY Zenon, <1>3, <1>8, <1>14 DEF v

-----------------------------------------------------------------------------
(* Membership changes *)

(* The members of Rings are the rings over positions. *)
LEMMA RingShape ==
    ASSUME NEW r
    PROVE  r \in Rings <=>
               /\ r = [t \in DOMAIN r |-> r[t]]
               /\ DOMAIN r \in SUBSET Position
               /\ \A t \in DOMAIN r : r[t] \in Node
BY DEF Rings

(* add_node and remove_node lead from rings to rings. *)
LEMMA RingsTypedStep ==
    ASSUME RingsTyped, [RingNext]_ringVars
    PROVE  RingsTyped'
<1>1. ASSUME NEW node \in Node, Join(node)  PROVE RingsTyped'
  <2>1. PICK tokens \in SUBSET Position :
          current' = AddNode(current, node, tokens) /\ before' = current
    BY <1>1 DEF Join, kSubset
  <2>2. current' \in Rings
    BY <2>1, RingShape DEF RingsTyped, AddNode
  <2>3. QED
    BY <2>1, <2>2 DEF RingsTyped
<1>2. ASSUME NEW node \in Node, Leave(node)  PROVE RingsTyped'
  BY <1>2, RingShape DEF RingsTyped, Leave, RemoveNode, Restrict
<1>3. CASE UNCHANGED ringVars
  BY <1>3 DEF RingsTyped, ringVars
<1>4. QED
  BY <1>1, <1>2, <1>3 DEF RingNext

(* The snapshot and the ring are rings in every reachable state. *)
LEMMA RingsTypedAlways == RingSpec => []RingsTyped
<1>1. RingInit => RingsTyped
  BY Zenon, RingShape DEF RingInit, EmptyRing, RingsTyped
<1>2. RingsTyped /\ [RingNext]_ringVars => RingsTyped'
  BY RingsTypedStep
<1>3. QED
  BY <1>1, <1>2, PTL DEF RingSpec

(* get_node_for_key (ring_store.cpp 44-53) names the owner of the token    *)
(* nearest clockwise to the hash, in every ring that joins and leaves make.*)
THEOREM LookupNearest == RingSpec => []LookupIsNearest
<1>1. RingsTyped => LookupIsNearest
  <2> SUFFICES ASSUME RingsTyped, NEW h \in Position, DOMAIN current # {}
               PROVE  \E t \in DOMAIN current :
                         /\ Clockwise(h, t) = Nearest(h, DOMAIN current)
                         /\ GetNodeForKey(current, h) = current[t]
    BY DEF LookupIsNearest
  <2> DEFINE t == LowerBound(current, h)
  <2>1. DOMAIN current \in SUBSET Position
    BY RingShape DEF RingsTyped
  <2>2. /\ t \in DOMAIN current
        /\ \A u \in DOMAIN current : Clockwise(h, t) <= Clockwise(h, u)
    BY <2>1, LowerBoundNearest
  <2>3. PICK u \in DOMAIN current : Nearest(h, DOMAIN current) = Clockwise(h, u)
    BY <2>1, NearestProperty
  <2>4. Nearest(h, DOMAIN current) \in Nat /\ Nearest(h, DOMAIN current) <= Clockwise(h, t)
    BY <2>1, <2>2, NearestProperty
  <2>5. Clockwise(h, t) \in Nat
    BY <2>1, <2>2, ClockwiseProperty
  <2>6. Clockwise(h, t) = Nearest(h, DOMAIN current)
    BY <2>2, <2>3, <2>4, <2>5
  <2>7. QED
    BY <2>2, <2>6 DEF GetNodeForKey
<1>2. QED
  BY <1>1, RingsTypedAlways, PTL

-----------------------------------------------------------------------------
(* What a change moves *)

(* Of two rings, the one with fewer tokens finds the same token as the     *)
(* other wherever the other's is one of its own.                           *)
LEMMA SameToken ==
    ASSUME NEW r, NEW s, NEW h \in Position,
           DOMAIN s \in SUBSET Position, DOMAIN r \in SUBSET DOMAIN s,
           LowerBound(s, h) \in DOMAIN r
    PROVE  LowerBound(r, h) = LowerBound(s, h)
<1> DEFINE t == LowerBound(r, h)
           u == LowerBound(s, h)
<1>1. /\ DOMAIN r \in SUBSET Position
      /\ DOMAIN r # {} /\ DOMAIN s # {}
  OBVIOUS
<1>2. t \in DOMAIN r /\ Clockwise(h, t) <= Clockwise(h, u)
  BY <1>1, LowerBoundNearest
<1>3. u \in DOMAIN s /\ Clockwise(h, u) <= Clockwise(h, t)
  BY <1>1, <1>2, LowerBoundNearest
<1>4. t \in Position /\ u \in Position
  BY <1>1, <1>2, <1>3
<1>5. Clockwise(h, t) = Clockwise(h, u)
  BY <1>2, <1>3, <1>4, ClockwiseProperty
<1>6. QED
  BY <1>4, <1>5, ClockwiseProperty

(* A node that joins takes positions only for itself. *)
LEMMA JoinMoves ==
    ASSUME NEW r \in Rings, NEW node \in Node, NEW tokens \in SUBSET Position,
           NEW h \in Position,
           GetNodeForKey(AddNode(r, node, tokens), h) # GetNodeForKey(r, h)
    PROVE  GetNodeForKey(AddNode(r, node, tokens), h) = node
<1> DEFINE s == AddNode(r, node, tokens)
           u == LowerBound(s, h)
<1>1. /\ DOMAIN s = DOMAIN r \cup tokens
      /\ \A t \in DOMAIN s : s[t] = IF t \in tokens THEN node ELSE r[t]
  BY DEF AddNode
<1>2. DOMAIN r \in SUBSET DOMAIN s /\ DOMAIN s \in SUBSET Position
  BY <1>1, RingShape
<1>3. CASE DOMAIN s = {}
  BY Zenon, <1>2, <1>3 DEF GetNodeForKey
<1>4. CASE DOMAIN s # {}
  <2>1. u \in DOMAIN s /\ GetNodeForKey(s, h) = s[u]
    BY <1>2, <1>4, LowerBoundNearest DEF GetNodeForKey
  <2>2. CASE u \in tokens
    BY <1>1, <2>1, <2>2
  <2>3. CASE u \notin tokens
    <3>1. u \in DOMAIN r /\ s[u] = r[u]
      BY <1>1, <2>1, <2>3
    <3>2. LowerBound(r, h) = u
      BY <1>2, <3>1, SameToken
    <3>3. QED
      BY <2>1, <3>1, <3>2 DEF GetNodeForKey
  <2>4. QED
    BY <2>2, <2>3
<1>5. QED
  BY <1>3, <1>4

(* A node that leaves gives up only its own positions. *)
LEMMA LeaveMoves ==
    ASSUME NEW r \in Rings, NEW node \in Node, NEW h \in Position,
           GetNodeForKey(RemoveNode(r, node), h) # GetNodeForKey(r, h)
    PROVE  GetNodeForKey(r, h) = node
<1> DEFINE s == RemoveNode(r, node)
           u == LowerBound(r, h)
<1>1. /\ DOMAIN s = {t \in DOMAIN r : r[t] # node}
      /\ \A t \in DOMAIN s : s[t] = r[t]
  BY DEF RemoveNode, Restrict
<1>2. DOMAIN s \in SUBSET DOMAIN r /\ DOMAIN r \in SUBSET Position
  BY <1>1, RingShape
<1>3. CASE DOMAIN r = {}
  BY Zenon, <1>2, <1>3 DEF GetNodeForKey
<1>4. CASE DOMAIN r # {}
  <2>1. u \in DOMAIN r /\ GetNodeForKey(r, h) = r[u]
    BY <1>2, <1>4, LowerBoundNearest DEF GetNodeForKey
  <2>2. ASSUME r[u] # node  PROVE FALSE
    <3>1. u \in DOMAIN s /\ s[u] = r[u]
      BY <1>1, <2>1, <2>2
    <3>2. LowerBound(s, h) = u
      BY <1>2, <3>1, SameToken
    <3>3. QED
      BY <2>1, <3>1, <3>2 DEF GetNodeForKey
  <2>3. QED
    BY <2>1, <2>2
<1>5. QED
  BY <1>3, <1>4

(* Consistent hashing: a step of the ring moves positions to or from one   *)
(* node only (add_node, remove_node: ring_store.cpp 22-42), even where the *)
(* tokens of two nodes collide.                                            *)
THEOREM OneNodeMoves == RingSpec => OnlyOneNodeMoves
<1> DEFINE Moved == \E node \in Node : \A h \in Position :
                       LET old == GetNodeForKey(current, h)
                           new == GetNodeForKey(current, h)'
                       IN  old # new => node \in {old, new}
<1>1. RingsTyped /\ [RingNext]_ringVars => [Moved]_ringVars
  <2> SUFFICES ASSUME RingsTyped, RingNext  PROVE Moved
    OBVIOUS
  <2>1. PICK node \in Node : Join(node) \/ Leave(node)
    BY DEF RingNext
  <2>2. CASE Join(node)
    <3>1. PICK tokens \in SUBSET Position : current' = AddNode(current, node, tokens)
      BY <2>2 DEF Join, kSubset
    <3>2. QED
      BY <3>1, JoinMoves DEF RingsTyped
  <2>3. CASE Leave(node)
    BY <2>3, LeaveMoves DEF RingsTyped, Leave
  <2>4. QED
    BY <2>1, <2>2, <2>3
<1>2. QED
  BY <1>1, RingsTypedAlways, PTL DEF RingSpec, OnlyOneNodeMoves

-----------------------------------------------------------------------------
(* compute_migrations *)

(* A nonempty set of positions has a greatest element, and Max is it. *)
LEMMA MaxProperty ==
    ASSUME NEW S \in SUBSET Position, S # {}
    PROVE  Max(S) \in S /\ \A y \in S : y <= Max(S)
<1> DEFINE T == {Space - 1 - x : x \in S}
<1>0. \A x \in S : Space - 1 - x \in Nat
  BY SpaceAssumption DEF Position
<1>1. T \in SUBSET Nat /\ T # {}
  BY <1>0
<1>2. PICK m \in T : \A y \in T : m <= y
  <2>1. Min(T) \in T /\ \A y \in T : Min(T) <= y
    BY ZenonT(60), <1>1, MinProperty
  <2>2. QED
    BY ZenonT(60), <2>1
<1>3. PICK x \in S : m = Space - 1 - x
  BY <1>2
<1>4. \A y \in S : Space - 1 - x <= Space - 1 - y
  BY <1>2, <1>3
<1>5. \A y \in S : x >= y
  BY <1>4, SpaceAssumption DEF Position
<1>6. \E z \in S : \A y \in S : z >= y
  BY <1>5
<1>7. Max(S) \in S /\ \A y \in S : Max(S) >= y
  BY ZenonT(60), <1>6 DEF Max
<1>8. QED
  BY <1>7, SpaceAssumption DEF Position

(* Every position has a boundary, and only one. *)
LEMMA BoundaryExists ==
    ASSUME NEW B \in SUBSET Position, B # {}, NEW h \in Position
    PROVE  /\ \E t \in B : IsBoundaryOf(B, h, t)
           /\ \A t \in B, u \in B :
                IsBoundaryOf(B, h, t) /\ IsBoundaryOf(B, h, u) => t = u
<1>1. PICK t \in B : Nearest(h, B) = Clockwise(h, t)
  BY NearestProperty
<1>2. \A u \in B : Nearest(h, B) <= Clockwise(h, u)
  BY NearestProperty
<1>3. IsBoundaryOf(B, h, t)
  BY <1>1, <1>2 DEF IsBoundaryOf
<1>4. ASSUME NEW v \in B, NEW u \in B,
             IsBoundaryOf(B, h, v), IsBoundaryOf(B, h, u)
      PROVE  v = u
  <2>1. Clockwise(h, v) <= Clockwise(h, u) /\ Clockwise(h, u) <= Clockwise(h, v)
    BY <1>4 DEF IsBoundaryOf
  <2>2. v \in Position /\ u \in Position
    OBVIOUS
  <2>3. Clockwise(h, v) \in Nat /\ Clockwise(h, u) \in Nat
    BY <2>2, ClockwiseProperty
  <2>4. Clockwise(h, v) = Clockwise(h, u)
    BY <2>1, <2>3
  <2>5. QED
    BY <2>2, <2>4, ClockwiseProperty
<1>5. QED
  BY <1>3, <1>4

(* Going on from a boundary of h, distances from h add up. *)
LEMMA ClockwiseAdds ==
    ASSUME NEW h \in Position, NEW t \in Position, NEW u \in Position,
           Clockwise(h, t) <= Clockwise(h, u)
    PROVE  Clockwise(h, u) = Clockwise(h, t) + Clockwise(t, u)
BY SpaceAssumption DEF Position, Clockwise

(* The lookup gives the same answer at a position and at its boundary, in  *)
(* every ring whose tokens are among the boundaries.                       *)
LEMMA SameAtBoundary ==
    ASSUME NEW B \in SUBSET Position, NEW h \in Position, NEW t \in B,
           IsBoundaryOf(B, h, t),
           NEW r, DOMAIN r \in SUBSET B, DOMAIN r # {}
    PROVE  LowerBound(r, h) = LowerBound(r, t)
<1> DEFINE u == LowerBound(r, h)
           v == LowerBound(r, t)
<1>1. DOMAIN r \in SUBSET Position /\ t \in Position
  OBVIOUS
<1>2. u \in DOMAIN r /\ \A w \in DOMAIN r : Clockwise(h, u) <= Clockwise(h, w)
  BY <1>1, LowerBoundNearest
<1>3. v \in DOMAIN r /\ \A w \in DOMAIN r : Clockwise(t, v) <= Clockwise(t, w)
  BY <1>1, LowerBoundNearest
<1> HIDE DEF u, v
<1>4. u \in Position /\ v \in Position
  BY <1>1, <1>2, <1>3
<1>5. Clockwise(h, t) <= Clockwise(h, u) /\ Clockwise(h, t) <= Clockwise(h, v)
  BY <1>2, <1>3 DEF IsBoundaryOf
<1>6. /\ Clockwise(h, u) = Clockwise(h, t) + Clockwise(t, u)
      /\ Clockwise(h, v) = Clockwise(h, t) + Clockwise(t, v)
  BY <1>1, <1>4, <1>5, ClockwiseAdds
<1>7. Clockwise(h, u) <= Clockwise(h, v) /\ Clockwise(t, v) <= Clockwise(t, u)
  BY <1>2, <1>3
<1>8. /\ Clockwise(h, u) \in Nat /\ Clockwise(h, v) \in Nat
      /\ Clockwise(h, t) \in Nat
      /\ Clockwise(t, u) \in Nat /\ Clockwise(t, v) \in Nat
  BY <1>1, <1>4, ClockwiseProperty
<1>9. Clockwise(h, u) = Clockwise(h, v)
  BY <1>6, <1>7, <1>8
<1>10. u = v
  BY <1>4, <1>9, ClockwiseProperty
<1>11. QED
  BY <1>10 DEF u, v

(* The range that ends at a boundary holds the positions it is boundary of.*)
LEMMA RangeOfBoundary ==
    ASSUME NEW B \in SUBSET Position, NEW t \in B, NEW h \in Position, NEW m,
           m.range_start = Previous(B, t), m.range_end = t
    PROVE  InRange(h, m) <=> IsBoundaryOf(B, h, t)
<1> DEFINE below == {x \in B : x < t}
           p == Previous(B, t)
<1>0. B # {} /\ t \in Position /\ below \in SUBSET Position
  OBVIOUS
<1>1. CASE below = {}
  <2>1. p = Max(B)
    BY <1>1 DEF Previous
  <2>2. p \in B /\ \A y \in B : y <= p
    BY <1>0, <2>1, MaxProperty
  <2>3. \A y \in B : ~(y < t)
    BY <1>1
  <2> HIDE DEF p
  <2>4. InRange(h, m) <=> p < h \/ h <= t
    BY <2>2, <2>3, <1>0, SpaceAssumption DEF InRange, Position, p
  <2>5. QED
    BY <2>2, <2>3, <2>4, <1>0, SpaceAssumption DEF IsBoundaryOf, Clockwise, Position
<1>2. CASE below # {}
  <2>1. p = Max(below)
    BY <1>2 DEF Previous
  <2>2. p \in below /\ \A y \in below : y <= p
    BY <1>0, <1>2, <2>1, MaxProperty
  <2>3. p \in B /\ p < t /\ \A y \in B : y < t => y <= p
    BY <2>2
  <2> HIDE DEF p, below
  <2>4. InRange(h, m) <=> p < h /\ h <= t
    BY <2>3, SpaceAssumption DEF InRange, Position, p
  <2>5. QED
    BY <2>3, <2>4, <1>0, SpaceAssumption DEF IsBoundaryOf, Clockwise, Position
<1>3. QED
  BY <1>1, <1>2

(* compute_migrations (ring_migration.cpp 19-47) lists exactly what a      *)
(* membership change moved: a position whose owner changed lies in one     *)
(* range, which names its two owners; the others lie in none.              *)
THEOREM MigrationsAreExact == RingSpec => []MigrationsExact
<1>1. RingsTyped => MigrationsExact
  <2> SUFFICES ASSUME RingsTyped, DOMAIN before # {}, DOMAIN current # {},
                      NEW h \in Position
               PROVE  {<<m.from_node, m.to_node>> :
                         m \in {x \in ComputeMigrations(before, current) : InRange(h, x)}}
                      = {<<GetNodeForKey(before, h), GetNodeForKey(current, h)>>}
                           \ {<<n, n>> : n \in Node}
    BY DEF MigrationsExact
  <2> DEFINE B == DOMAIN before \cup DOMAIN current
             a == GetNodeForKey(before, h)
             b == GetNodeForKey(current, h)
             M(u) == Migration(Previous(B, u), u, OwnerAt(before, u), OwnerAt(current, u))
             CM == {M(u) : u \in {w \in B : OwnerAt(before, w) # OwnerAt(current, w)}}
  <2>1. /\ DOMAIN before \in SUBSET Position /\ DOMAIN current \in SUBSET Position
        /\ B \in SUBSET Position /\ B # {}
        /\ \A t \in DOMAIN current : current[t] \in Node
    BY RingShape DEF RingsTyped
  <2>2. ComputeMigrations(before, current) = CM
    BY DEF ComputeMigrations
  <2>3. PICK t \in B : IsBoundaryOf(B, h, t)
    BY <2>1, BoundaryExists
  <2>4. OwnerAt(before, t) = a /\ OwnerAt(current, t) = b
    <3>1. /\ LowerBound(before, h) = LowerBound(before, t)
          /\ LowerBound(current, h) = LowerBound(current, t)
      BY <2>1, <2>3, SameAtBoundary
    <3>2. QED
      BY <3>1 DEF OwnerAt, GetNodeForKey
  <2>5. b \in Node
    BY <2>1, LowerBoundNearest DEF GetNodeForKey
  <2>6. \A u \in B : InRange(h, M(u)) <=> u = t
    <3> SUFFICES ASSUME NEW u \in B  PROVE InRange(h, M(u)) <=> u = t
      OBVIOUS
    <3>1. M(u).range_start = Previous(B, u) /\ M(u).range_end = u
      BY DEF Migration
    <3>2. InRange(h, M(u)) <=> IsBoundaryOf(B, h, u)
      BY <2>1, <3>1, RangeOfBoundary
    <3>3. QED
      BY <2>1, <2>3, <3>2, BoundaryExists
  <2>7. \A u \in B : /\ M(u).from_node = OwnerAt(before, u)
                     /\ M(u).to_node = OwnerAt(current, u)
    BY DEF Migration
  <2> HIDE DEF B, a, b, M
  <2>8. {x \in CM : InRange(h, x)} = IF a = b THEN {} ELSE {M(t)}
    BY <2>3, <2>4, <2>6
  <2>9. {<<m.from_node, m.to_node>> : m \in {x \in CM : InRange(h, x)}}
          = IF a = b THEN {} ELSE {<<a, b>>}
    BY <2>3, <2>4, <2>7, <2>8
  <2>10. {<<a, b>>} \ {<<n, n>> : n \in Node} = IF a = b THEN {} ELSE {<<a, b>>}
    BY <2>5
  <2>11. QED
    BY <2>2, <2>9, <2>10 DEF a, b
<1>2. QED
  BY <1>1, RingsTypedAlways, PTL

-----------------------------------------------------------------------------
(* get_n_nodes_for_key *)

(* get_n_nodes_for_key (ring_store.cpp 55-82) returns the n nodes, or all  *)
(* if there are fewer, that come first clockwise, in that order and each   *)
(* once, in every ring that joins and leaves make.                         *)
THEOREM SuccessorsOrdered == RingSpec => []SuccessorsInOrder
<1>1. RingsTyped => SuccessorsInOrder
  <2> SUFFICES ASSUME RingsTyped, NEW h \in Position,
                      NEW n \in 1 .. Cardinality(Node) + 1
               PROVE  LET v == GetNNodesForKey(current, h, n)
                          near(node) == Nearest(h, TokensOf(node))
                      IN  /\ Len(v) = Min({n, Cardinality(Range(current))})
                          /\ \A i \in DOMAIN v : \A j \in 1 .. i - 1 :
                               near(v[j]) < near(v[i])
                          /\ \A node \in Range(current) \ Range(v), i \in DOMAIN v :
                               near(v[i]) < near(node)
    BY Zenon DEF SuccessorsInOrder
  <2>1. DOMAIN current \in SUBSET Position
    BY RingShape DEF RingsTyped
  <2>2. Cardinality(Node) \in Nat
    BY NodeAssumption, FS_CardinalityType
  <2>3. n \in Nat \ {0}
    BY <2>2
  <2>4. \A node : Nearest(h, TokensOf(node)) = NearOf(current, h, node)
    BY DEF TokensOf, NearOf
  <2> DEFINE v == GetNNodesForKey(current, h, n)
  <2>5. /\ Len(v) = Min({n, Cardinality(Range(current))})
        /\ \A i \in DOMAIN v : \A j \in 1 .. i - 1 :
             NearOf(current, h, v[j]) < NearOf(current, h, v[i])
        /\ \A node \in Range(current) \ Range(v), i \in DOMAIN v :
             NearOf(current, h, v[i]) < NearOf(current, h, node)
    BY Zenon, <2>1, <2>3, NNodesInOrder
  <2> HIDE DEF v
  <2>6. /\ \A i \in DOMAIN v : \A j \in 1 .. i - 1 :
             Nearest(h, TokensOf(v[j])) < Nearest(h, TokensOf(v[i]))
        /\ \A node \in Range(current) \ Range(v), i \in DOMAIN v :
             Nearest(h, TokensOf(v[i])) < Nearest(h, TokensOf(node))
    BY Zenon, <2>4, <2>5
  <2> QED
    BY Zenon, <2>5, <2>6 DEF v
<1>2. QED
  BY <1>1, RingsTypedAlways, PTL
=============================================================================
