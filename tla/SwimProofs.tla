----------------------------- MODULE SwimProofs -----------------------------
(***************************************************************************)
(* Proofs about Swim, for clusters of any finite number of nodes, any      *)
(* bounds and any faults: its types, that a node keeps itself on its own   *)
(* ring, that the ring follows the member list, that no stale word revives *)
(* a member, and that incarnations are owned by their nodes.  First what   *)
(* the handlers, probes and timers of a node do to its list, its ring and  *)
(* its queue (ViewInv), then the pending acks (AckInv) and the sequence    *)
(* numbers under way (SeqInv).                                             *)
(***************************************************************************)
EXTENDS SwimInv, FiniteSetTheorems, TLAPS

-----------------------------------------------------------------------------
(* Numbers and folds *)

(* A nonempty set of natural numbers has a least element, and Min is it. *)
LEMMA MinProperty ==
    ASSUME NEW S \in SUBSET Nat, S # {}
    PROVE  Min(S) \in S /\ \A y \in S : Min(S) <= y
<1>1. PICK x \in S : \A y \in S : ~ (<<y, x>> \in OpToRel(<, Nat))
  BY ZenonT(60), NatLessThanWellFounded, WFMin
<1>2. ASSUME NEW a \in Nat, NEW b \in Nat, a < b
      PROVE  <<a, b>> \in OpToRel(<, Nat)
  <2>1. OpToRel(<, Nat) = {ss \in Nat \X Nat : ss[1] < ss[2]}
    BY DEF OpToRel
  <2>2. QED BY ZenonT(60), <2>1, <1>2
<1>3. \A y \in S : ~ (y < x)
  BY ZenonT(60), <1>1, <1>2
<1>4. \A y \in S : x <= y
  BY <1>3
<1>5. QED
  BY ZenonT(60), <1>4 DEF Min

(* Induction, with a set of numbers in place of a predicate. *)
LEMMA Induction ==
    ASSUME NEW S, 0 \in S, \A n \in Nat : n \in S => n + 1 \in S
    PROVE  \A n \in Nat : n \in S
<1> DEFINE Bad == {n \in Nat : n \notin S}
<1> SUFFICES ASSUME Bad # {} PROVE FALSE
  OBVIOUS
<1>1. Bad \in SUBSET Nat
  OBVIOUS
<1>2. Min(Bad) \in Bad /\ \A y \in Bad : Min(Bad) <= y
  BY ZenonT(60), <1>1, MinProperty
<1>3. PICK m \in Bad : \A y \in Bad : m <= y
  BY ZenonT(60), <1>2
<1>4. m \in Nat /\ m # 0 /\ m - 1 \in Nat /\ m - 1 \notin Bad
  BY <1>3
<1>5. m - 1 \in S /\ (m - 1) + 1 = m
  BY <1>4
<1>6. QED
  BY <1>3, <1>4, <1>5

(* One element less. *)
LEMMA OneLess ==
    ASSUME NEW S, IsFiniteSet(S), NEW s \in SUBSET S, NEW x \in s
    PROVE  /\ s \ {x} \in SUBSET S
           /\ Cardinality(s) \in Nat /\ Cardinality(s \ {x}) = Cardinality(s) - 1
           /\ Cardinality(s) # 0
<1>1. IsFiniteSet(s)
  BY FS_Subset
<1>2. Cardinality(s) \in Nat /\ Cardinality(s \ {x}) = Cardinality(s) - 1
  BY <1>1, FS_RemoveElement, FS_CardinalityType
<1>3. Cardinality(s) # 0
  BY <1>1, FS_EmptySet
<1>. QED
  BY <1>2, <1>3

(* Folds over finite sets exist. *)
LEMMA FoldExists ==
    ASSUME NEW S, IsFiniteSet(S), NEW T, NEW base \in T, NEW g \in [S -> [T -> T]],
           NEW ch, \A s \in SUBSET S : s # {} => ch[s] \in s
    PROVE  \E f : IsFold(f, S, T, base, g, ch)
<1>. DEFINE Rest(s) == s \ {ch[s]}
            Part(f, k) == \A s \in SUBSET S : Cardinality(s) <= k =>
                            f[s] = IF s = {} THEN base ELSE g[ch[s]][f[Rest(s)]]
            Good == {k \in Nat : \E f \in [SUBSET S -> T] : Part(f, k)}
<1>1. \A s \in SUBSET S : s # {} =>
        /\ ch[s] \in S /\ Rest(s) \in SUBSET S
        /\ Cardinality(s) \in Nat /\ Cardinality(Rest(s)) = Cardinality(s) - 1
        /\ Cardinality(s) # 0
  BY Zenon, OneLess
<1>2. 0 \in Good
  <2>. DEFINE f == [s \in SUBSET S |-> base]
  <2>1. f \in [SUBSET S -> T]
    OBVIOUS
  <2>2. ASSUME NEW s \in SUBSET S, Cardinality(s) <= 0
        PROVE  f[s] = IF s = {} THEN base ELSE g[ch[s]][f[Rest(s)]]
    <3>1. ASSUME s # {}
          PROVE  FALSE
      <4>1. Cardinality(s) \in Nat /\ Cardinality(s) # 0
        BY Zenon, <1>1, <3>1
      <4>. QED
        BY <2>2, <4>1
    <3>. QED
      BY <3>1
  <2>3. Part(f, 0)
    BY Zenon, <2>2
  <2>. HIDE DEF f, Part
  <2>. QED
    BY <2>1, <2>3
<1>3. ASSUME NEW k \in Nat, k \in Good
      PROVE  k + 1 \in Good
  <2>1. PICK f \in [SUBSET S -> T] : Part(f, k)
    BY Zenon, <1>3
  <2>. DEFINE h == [s \in SUBSET S |-> IF s # {} /\ Cardinality(s) = k + 1
                                       THEN g[ch[s]][f[Rest(s)]] ELSE f[s]]
  <2>2. h \in [SUBSET S -> T]
    <3>1. ASSUME NEW s \in SUBSET S
          PROVE  (IF s # {} /\ Cardinality(s) = k + 1 THEN g[ch[s]][f[Rest(s)]] ELSE f[s]) \in T
      <4>1. s # {} => ch[s] \in S /\ f[Rest(s)] \in T
        BY <1>1
      <4>. HIDE DEF Rest
      <4>. QED
        BY <4>1
    <3>. QED
      BY <3>1
  <2>3. ASSUME NEW s \in SUBSET S, Cardinality(s) <= k + 1
        PROVE  h[s] = IF s = {} THEN base ELSE g[ch[s]][h[Rest(s)]]
    <3>1. CASE s = {}
      <4>1. Cardinality(s) = 0
        BY <3>1, FS_EmptySet
      <4>2. h[s] = f[s]
        BY <3>1
      <4>3. f[s] = base
        <5>1. Cardinality(s) <= k
          BY <4>1
        <5>. HIDE DEF Rest
        <5>2. f[s] = IF s = {} THEN base ELSE g[ch[s]][f[Rest(s)]]
          BY <2>1, <5>1, Zenon
        <5>. QED
          BY <3>1, <5>2
      <4>. QED
        BY <3>1, <4>2, <4>3
    <3>2. CASE s # {}
      <4>1. /\ Rest(s) \in SUBSET S /\ Cardinality(s) \in Nat
            /\ Cardinality(Rest(s)) = Cardinality(s) - 1
        BY Zenon, <1>1, <3>2
      <4>. HIDE DEF Rest
      <4>2. h[Rest(s)] = f[Rest(s)]
        BY <2>3, <4>1
      <4>3. CASE Cardinality(s) = k + 1
        BY <3>2, <4>2, <4>3
      <4>4. CASE Cardinality(s) # k + 1
        <5>1. Cardinality(s) <= k
          BY <2>3, <4>1, <4>4
        <5>2. f[s] = g[ch[s]][f[Rest(s)]]
          BY <2>1, <3>2, <5>1
        <5>. QED
          BY <3>2, <4>2, <4>4, <5>2
      <4>. QED
        BY Zenon, <4>3, <4>4
    <3>. QED
      BY Zenon, <3>1, <3>2
  <2>4. Part(h, k + 1)
    BY <2>3, Zenon
  <2>5. k + 1 \in Nat
    OBVIOUS
  <2>. HIDE DEF h, Part
  <2>. QED
    BY <2>2, <2>4, <2>5
<1>4. Cardinality(S) \in Nat
  BY FS_CardinalityType
<1>5. Cardinality(S) \in Good
  <2>. HIDE DEF Good
  <2>. QED
    BY Zenon, <1>2, <1>3, <1>4, Induction
<1>6. PICK f \in [SUBSET S -> T] : Part(f, Cardinality(S))
  BY Zenon, <1>5
<1>7. \A s \in SUBSET S : Cardinality(s) <= Cardinality(S)
  BY FS_Subset
<1>8. \A s \in SUBSET S : f[s] = IF s = {} THEN base ELSE g[ch[s]][f[s \ {ch[s]}]]
  BY Zenon, <1>6, <1>7
<1>. QED
  BY Zenon, <1>8 DEF IsFold

(* What holds at the start of a fold, and is preserved by its steps, holds *)
(* of its result.                                                          *)
LEMMA FoldKeeps ==
    ASSUME NEW S, IsFiniteSet(S), NEW T, NEW f, f[{}] \in T,
           \A s \in SUBSET S : s # {} => \E x \in s : f[s \ {x}] \in T => f[s] \in T
    PROVE  f[S] \in T
<1>. DEFINE Good == {k \in Nat : \A s \in SUBSET S : Cardinality(s) = k => f[s] \in T}
<1>1. 0 \in Good
  <2>1. ASSUME NEW s \in SUBSET S, Cardinality(s) = 0
        PROVE  s = {}
    BY <2>1, FS_Subset, FS_EmptySet
  <2>. QED
    BY Zenon, <2>1
<1>2. ASSUME NEW k \in Nat, k \in Good
      PROVE  k + 1 \in Good
  <2>1. ASSUME NEW s \in SUBSET S, Cardinality(s) = k + 1
        PROVE  f[s] \in T
    <3>1. s # {}
      <4>1. Cardinality({}) = 0 /\ k + 1 # 0
        BY FS_EmptySet
      <4>. QED
        BY <2>1, <4>1, Zenon
    <3>2. PICK x \in s : f[s \ {x}] \in T => f[s] \in T
      BY <3>1
    <3>3. s \ {x} \in SUBSET S /\ Cardinality(s \ {x}) = k
      BY <2>1, OneLess
    <3>. QED
      BY <1>2, <3>2, <3>3
  <2>. QED
    BY <2>1
<1>3. Cardinality(S) \in Nat
  BY FS_CardinalityType
<1>4. Cardinality(S) \in Good
  <2>. HIDE DEF Good
  <2>. QED
    BY <1>1, <1>2, <1>3, Induction
<1>. QED
  BY <1>4

-----------------------------------------------------------------------------
(* Member lists, rings and queues *)

(* The states and their order. *)
LEMMA Ranks ==
    /\ State = {"Alive", "Suspect", "Dead", "Left"}
    /\ \A st \in State : StateRank[st] \in Nat
    /\ \A st \in State : st # "Alive" => StateRank[st] > StateRank["Alive"]
BY DEF State, StateRank

(* Records only get newer, whatever the steps in between. *)
LEMMA FollowsTwice ==
    ASSUME NEW a, IsList(a), NEW b, IsList(b), NEW c, IsList(c), Follows(a, b), Follows(b, c)
    PROVE  Follows(a, c)
<1>. SUFFICES ASSUME NEW m \in DOMAIN a
              PROVE  m \in DOMAIN c /\ NotOlder(a[m], c[m])
  BY DEF Follows
<1>1. m \in DOMAIN b /\ m \in DOMAIN c /\ NotOlder(a[m], b[m]) /\ NotOlder(b[m], c[m])
  BY DEF Follows
<1>2. a[m] \in Member /\ b[m] \in Member /\ c[m] \in Member
  BY <1>1 DEF IsList
<1>3. /\ a[m].inc \in Nat /\ b[m].inc \in Nat /\ c[m].inc \in Nat
      /\ StateRank[a[m].state] \in Nat /\ StateRank[b[m].state] \in Nat
      /\ StateRank[c[m].state] \in Nat
  BY <1>2, Ranks DEF Member
<1>. QED
  BY <1>1, <1>3 DEF NotOlder

(* A list that stays has no older records. *)
LEMMA FollowsItself ==
    ASSUME NEW a, IsList(a)
    PROVE  Follows(a, a)
BY Ranks DEF Follows, NotOlder, IsList, Member

(* add_node adds a node or replaces an older record. *)
LEMMA AddNodeKeeps ==
    ASSUME NEW list, IsList(list), NEW m \in Node, NEW info \in Member
    PROVE  LET new == AddNode(list, m, info)
           IN  /\ IsList(new) /\ Follows(list, new)
               /\ DOMAIN new = DOMAIN list \cup {m}
               /\ \A o \in DOMAIN list \ {m} : new[o] = list[o]
               /\ new[m] = info \/ (m \in DOMAIN list /\ new[m] = list[m])
<1>. DEFINE new == AddNode(list, m, info)
<1>1. CASE m \in DOMAIN list /\ ~Supersedes(info.state, info.inc, list[m])
  <2>1. new = list
    BY <1>1 DEF AddNode
  <2>. QED
    BY <1>1, <2>1, FollowsItself
<1>2. CASE ~(m \in DOMAIN list /\ ~Supersedes(info.state, info.inc, list[m]))
  <2>1. new = [o \in DOMAIN list \cup {m} |-> IF o = m THEN info ELSE list[o]]
    BY <1>2 DEF AddNode
  <2>2. /\ DOMAIN new = DOMAIN list \cup {m} /\ new[m] = info
        /\ \A o \in DOMAIN list \ {m} : new[o] = list[o]
    BY <2>1
  <2>3. \A o \in DOMAIN new : new[o] \in Member
    BY <2>2 DEF IsList
  <2>4. IsList(new)
    BY <2>1, <2>2, <2>3 DEF IsList
  <2>. HIDE DEF new
  <2>5. ASSUME NEW o \in DOMAIN list
        PROVE  NotOlder(list[o], new[o])
    <3>0. list[o] \in Member /\ StateRank[list[o].state] \in Nat /\ StateRank[info.state] \in Nat
      BY Ranks DEF IsList, Member
    <3>1. CASE o = m
      <4>1. Supersedes(info.state, info.inc, list[m])
        BY <1>2, <3>1
      <4>. QED
        BY <2>2, <3>0, <3>1, <4>1 DEF Supersedes, NotOlder, Member
    <3>2. CASE o # m
      BY <2>2, <3>0, <3>2 DEF NotOlder, Member
    <3>. QED
      BY <3>1, <3>2
  <2>6. Follows(list, new)
    BY <2>2, <2>5 DEF Follows
  <2>. QED
    BY <2>2, <2>4, <2>6 DEF new
<1>. QED
  BY <1>1, <1>2

(* update_state replaces an older record of a node that is known. *)
LEMMA UpdateStateKeeps ==
    ASSUME NEW list, IsList(list), NEW m, NEW state \in State, NEW inc \in Nat
    PROVE  Updated(list, m, state, inc, UpdateState(list, m, state, inc))
<1>. DEFINE new == UpdateState(list, m, state, inc)
<1>1. CASE m \in DOMAIN list /\ Supersedes(state, inc, list[m])
  <2>1. new = [list EXCEPT ![m].state = state, ![m].inc = inc]
    BY <1>1 DEF UpdateState
  <2>2. list[m] \in Member
    BY <1>1 DEF IsList
  <2>3. /\ DOMAIN new = DOMAIN list
        /\ \A o \in DOMAIN list \ {m} : new[o] = list[o]
        /\ new[m].state = state /\ new[m].inc = inc /\ new[m] \in Member
    <3>1. DOMAIN new = DOMAIN list /\ \A o \in DOMAIN list \ {m} : new[o] = list[o]
      BY Zenon, <2>1
    <3>2. new[m] = [list[m] EXCEPT !.state = state, !.inc = inc]
      BY <1>1, <2>1
    <3>3. new[m].state = state /\ new[m].inc = inc /\ new[m] \in Member
      BY Zenon, <2>2, <3>2 DEF Member
    <3>. QED
      BY Zenon, <3>1, <3>3
  <2>4. \A o \in DOMAIN new : new[o] \in Member
    BY <2>3 DEF IsList
  <2>5. new = [o \in DOMAIN new |-> new[o]]
    BY Zenon, <2>1
  <2>. HIDE DEF new
  <2>6. IsList(new)
    BY <2>3, <2>4, <2>5 DEF IsList
  <2>7. ASSUME NEW o \in DOMAIN list
        PROVE  NotOlder(list[o], new[o])
    <3>0. list[o] \in Member /\ StateRank[list[o].state] \in Nat /\ StateRank[state] \in Nat
      BY Ranks DEF IsList, Member
    <3>1. CASE o = m
      BY <1>1, <2>3, <3>0, <3>1 DEF Supersedes, NotOlder, Member
    <3>2. CASE o # m
      BY <2>3, <3>0, <3>2 DEF NotOlder, Member
    <3>. QED
      BY <3>1, <3>2
  <2>. QED
    BY <2>3, <2>6, <2>7 DEF Follows, new, Updated
<1>2. CASE ~(m \in DOMAIN list /\ Supersedes(state, inc, list[m]))
  <2>1. new = list
    BY <1>2 DEF UpdateState
  <2>2. ~(m \in DOMAIN list /\ inc > list[m].inc)
    BY <1>2 DEF Supersedes
  <2>. QED
    BY <2>1, <2>2, FollowsItself DEF Updated
<1>. QED
  BY <1>1, <1>2

(* The callback of main keeps the ring in step with the list. *)
LEMMA OnChangeKeeps ==
    ASSUME NEW old, NEW new, DOMAIN old \subseteq DOMAIN new, NEW ring, RingOf(old, ring)
    PROVE  RingOf(new, OnChange(ring, old, new))
BY DEF RingOf, OnChange, Notified

(* Enqueue keeps one entry for each node. *)
LEMMA EnqueueKeeps ==
    ASSUME NEW q, IsQueue(q), NEW u \in Told
    PROVE  /\ IsQueue(Enqueue(q, u))
           /\ \A m \in DOMAIN Enqueue(q, u) :
                \/ m = u.node /\ Enqueue(q, u)[m].update = u
                \/ m \in DOMAIN q /\ Enqueue(q, u)[m] = q[m]
<1>. DEFINE new == Enqueue(q, u)
<1>1. CASE u.node \in DOMAIN q /\ ~Newer(u, q[u.node].update)
  <2>1. new = q
    BY <1>1 DEF Enqueue
  <2>. QED
    BY <2>1
<1>2. CASE ~(u.node \in DOMAIN q /\ ~Newer(u, q[u.node].update))
  <2>1. new = [m \in DOMAIN q \cup {u.node} |-> IF m = u.node THEN Fresh(u) ELSE q[m]]
    BY <1>2 DEF Enqueue
  <2>2. Fresh(u) \in Entry /\ Fresh(u).update = u
    BY TransmissionAssumption DEF Fresh, Entry
  <2>3. u.node \in Node
    BY DEF Told
  <2>4. /\ DOMAIN new = DOMAIN q \cup {u.node} /\ new[u.node] = Fresh(u)
        /\ \A m \in DOMAIN q \ {u.node} : new[m] = q[m]
    BY <2>1
  <2>5. \A m \in DOMAIN new : new[m] \in Entry /\ new[m].update.node = m
    BY <2>2, <2>4 DEF IsQueue
  <2>6. new = [m \in DOMAIN new |-> new[m]]
    BY <2>1
  <2>. HIDE DEF new
  <2>7. IsQueue(new)
    BY <2>3, <2>4, <2>5, <2>6 DEF IsQueue
  <2>. QED
    BY <2>2, <2>4, <2>7 DEF new
<1>. QED
  BY <1>1, <1>2

(* get_updates counts and erases entries and changes no update. *)
LEMMA CountedKeeps ==
    ASSUME NEW q, IsQueue(q), NEW S
    PROVE  /\ IsQueue(Counted(q, S))
           /\ \A m \in DOMAIN Counted(q, S) :
                m \in DOMAIN q /\ Counted(q, S)[m].update = q[m].update
<1>. DEFINE count(m) == q[m].count + (IF m \in S THEN 1 ELSE 0)
            new == Counted(q, S)
<1>1. new = [m \in {o \in DOMAIN q : count(o) < MaxTransmissions} |->
               [q[m] EXCEPT !.count = count(m)]]
  BY DEF Counted
<1>2. DOMAIN new \subseteq DOMAIN q /\ new = [m \in DOMAIN new |-> new[m]]
  BY <1>1
<1>3. ASSUME NEW m \in DOMAIN new
      PROVE  new[m] \in Entry /\ new[m].update = q[m].update
  <2>1. q[m] \in Entry /\ m \in DOMAIN q
    BY <1>2 DEF IsQueue
  <2>2. count(m) < MaxTransmissions /\ count(m) \in Nat
    BY <1>1, <2>1 DEF Entry
  <2>3. new[m] = [q[m] EXCEPT !.count = count(m)]
    BY <1>1
  <2>. HIDE DEF count, new
  <2>. QED
    BY <2>1, <2>2, <2>3, TransmissionAssumption DEF Entry
<1>. HIDE DEF new
<1>4. \A m \in DOMAIN new : new[m].update.node = m
  BY <1>2, <1>3 DEF IsQueue
<1>5. IsQueue(new)
  BY <1>2, <1>3, <1>4 DEF IsQueue
<1>. QED
  BY <1>2, <1>3, <1>5 DEF new

-----------------------------------------------------------------------------
(* What handle_message does to the state of its node *)

(* The set of member lists. *)
LEMMA ListSet == \A list : list \in Lists <=> IsList(list)
BY DEF Lists, IsList

(* The set of dissemination queues. *)
LEMMA QueueSet == \A q : IsQueue(q) => q \in Queues
BY DEF Queues, IsQueue

(* An accepted change of the list, and the ring after it. *)
LEMMA ChangeKeeps ==
    ASSUME NEW n \in Node, NEW B \in [Node -> Nat], NEW old, IsList(old),
           NEW s, Sound(n, B, old, s),
           NEW new, IsList(new), Follows(s.list, new), new[n] = s.list[n],
           \A m \in DOMAIN new : new[m].inc <= Cap(n, B, s.inc, m)
    PROVE  /\ Sound(n, B, old, Change(s, new))
           /\ Change(s, new).inc = s.inc /\ Change(s, new).list = new
           /\ Change(s, new).queue = s.queue
<1>. DEFINE c == Change(s, new)
<1>1. /\ s \in LocalState /\ s.list \in Lists /\ IsList(s.list)
  BY ListSet DEF Sound, LocalState
<1>2. /\ c.list = new /\ c.ring = OnChange(s.ring, s.list, new)
      /\ c.queue = s.queue /\ c.inc = s.inc
      /\ new \in Lists /\ OnChange(s.ring, s.list, new) \in SUBSET Node => c \in LocalState
  <2>. DEFINE r == OnChange(s.ring, s.list, new)
  <2>1. c = [s EXCEPT !.list = new, !.ring = r]
    BY DEF Change
  <2>. HIDE DEF c, r
  <2>2. c.list = new /\ c.ring = r /\ c.queue = s.queue /\ c.inc = s.inc
    BY <1>1, <2>1 DEF LocalState
  <2>3. ASSUME new \in Lists, r \in SUBSET Node
        PROVE  c \in LocalState
    BY Zenon, <1>1, <2>1, <2>3 DEF LocalState
  <2>. QED
    BY <2>2, <2>3 DEF r
<1>3. DOMAIN s.list \subseteq DOMAIN new /\ n \in DOMAIN new
  BY DEF Follows, Sound
<1>4. RingOf(c.list, c.ring)
  BY <1>2, <1>3, OnChangeKeeps DEF Sound
<1>5. c \in LocalState
  <2>1. c.ring \in SUBSET Node
    BY <1>2, <1>4 DEF RingOf, IsList
  <2>2. new \in Lists
    BY ListSet
  <2>. QED
    BY <1>1, <1>2, <2>1, <2>2 DEF LocalState
<1>6. Follows(old, new)
  BY <1>1, FollowsTwice DEF Sound
<1>. HIDE DEF c
<1>7. Sound(n, B, old, c)
  BY <1>2, <1>3, <1>4, <1>5, <1>6 DEF Sound
<1>. QED
  BY <1>2, <1>7 DEF c

(* An update queued within its bound. *)
LEMMA QueueKeeps ==
    ASSUME NEW n \in Node, NEW B \in [Node -> Nat], NEW old, NEW s, Sound(n, B, old, s),
           NEW u \in Told, u.inc <= Cap(n, B, s.inc, u.node)
    PROVE  Sound(n, B, old, [s EXCEPT !.queue = Enqueue(@, u)])
<1>. DEFINE c == [s EXCEPT !.queue = Enqueue(s.queue, u)]
<1>1. s \in LocalState /\ IsQueue(s.queue)
  BY DEF Sound
<1>2. /\ IsQueue(Enqueue(s.queue, u))
      /\ \A m \in DOMAIN Enqueue(s.queue, u) :
           \/ m = u.node /\ Enqueue(s.queue, u)[m].update = u
           \/ m \in DOMAIN s.queue /\ Enqueue(s.queue, u)[m] = s.queue[m]
  BY <1>1, EnqueueKeeps
<1>3. Enqueue(s.queue, u) \in Queues
  BY <1>2, QueueSet
<1>4. /\ c.list = s.list /\ c.ring = s.ring /\ c.inc = s.inc
      /\ c.queue = Enqueue(s.queue, u) /\ c \in LocalState
  BY <1>1, <1>3 DEF LocalState
<1>. HIDE DEF c
<1>5. \A m \in DOMAIN c.queue : c.queue[m].update.inc <= Cap(n, B, c.inc, m)
  BY <1>2, <1>4 DEF Sound
<1>6. Sound(n, B, old, c)
  BY <1>2, <1>4, <1>5 DEF Sound
<1>. QED
  BY <1>6 DEF c

(* The port read for the sender of a message is a number. *)
LEMMA SenderPortNat ==
    ASSUME NEW n, NEW B, NEW msg, Sensible(n, B, msg)
    PROVE  SenderPort(msg) \in Nat
<1>. DEFINE ports == {u.port : u \in {v \in msg.updates : v.node = msg.from}} \ {0}
<1>1. ports \in SUBSET Nat
  BY DEF Sensible, Told
<1>2. SenderPort(msg) = IF ports = {} THEN 0 ELSE Min(ports)
  BY DEF SenderPort
<1>. HIDE DEF ports
<1>3. CASE ports = {}
  BY <1>2, <1>3
<1>4. CASE ports # {}
  <2>1. Min(ports) \in ports
    BY <1>1, <1>4, MinProperty
  <2>. QED
    BY Zenon, <1>1, <1>2, <1>4, <2>1
<1>. QED
  BY <1>3, <1>4

(* An unknown sender joins the list as Alive. *)
LEMMA MeetSenderKeeps ==
    ASSUME NEW n \in Node, NEW B \in [Node -> Nat], NEW old, IsList(old),
           NEW s, Sound(n, B, old, s), NEW msg, Sensible(n, B, msg)
    PROVE  Sound(n, B, old, MeetSender(n, s, msg)) /\ MeetSender(n, s, msg).inc = s.inc
<1>1. CASE msg.from = n \/ msg.from \in DOMAIN s.list
  BY <1>1 DEF MeetSender
<1>2. CASE ~(msg.from = n \/ msg.from \in DOMAIN s.list)
  <2>. DEFINE info == Info(SenderPort(msg), "Alive", 0)
              new == AddNode(s.list, msg.from, info)
              c == Change(s, new)
              u == Update("Join", msg.from, 0, SenderPort(msg))
  <2>1. SenderPort(msg) \in Nat /\ msg.from \in Node
    BY Zenon, SenderPortNat DEF Sensible
  <2>2. info \in Member /\ info.inc = 0
    BY <2>1, Ranks DEF Info, Member
  <2>3. u \in Told /\ u.inc = 0 /\ u.node = msg.from
    BY <2>1 DEF Update, Told
  <2>4. MeetSender(n, s, msg) = [c EXCEPT !.queue = Enqueue(@, u)]
    BY <1>2 DEF MeetSender
  <2>5. IsList(s.list) /\ n \in DOMAIN s.list
    BY ListSet DEF Sound, LocalState
  <2>. HIDE DEF info, u
  <2>6. /\ IsList(new) /\ Follows(s.list, new)
        /\ DOMAIN new = DOMAIN s.list \cup {msg.from}
        /\ \A o \in DOMAIN s.list \ {msg.from} : new[o] = s.list[o]
        /\ new[msg.from] = info
    BY Zenon, <1>2, <2>1, <2>2, <2>5, AddNodeKeeps
  <2>. HIDE DEF new
  <2>7. \A m \in DOMAIN new : new[m].inc <= Cap(n, B, s.inc, m)
    <3>1. ASSUME NEW m \in DOMAIN s.list
          PROVE  new[m].inc <= Cap(n, B, s.inc, m)
      BY <1>2, <2>6 DEF Sound
    <3>2. new[msg.from].inc <= Cap(n, B, s.inc, msg.from)
      BY <1>2, <2>1, <2>2, <2>6 DEF Cap
    <3>. QED
      BY <2>6, <3>1, <3>2
  <2>8. new[n] = s.list[n]
    BY <1>2, <2>5, <2>6
  <2>9. Sound(n, B, old, c) /\ c.inc = s.inc
    BY <2>6, <2>7, <2>8, ChangeKeeps
  <2>. HIDE DEF c
  <2>10. u.inc <= Cap(n, B, c.inc, u.node)
    BY <1>2, <2>1, <2>3 DEF Cap
  <2>11. Sound(n, B, old, [c EXCEPT !.queue = Enqueue(@, u)])
    BY <2>3, <2>9, <2>10, QueueKeeps
  <2>12. [c EXCEPT !.queue = Enqueue(@, u)].inc = c.inc
    BY <2>9 DEF Sound, LocalState
  <2>. QED
    BY <2>4, <2>9, <2>11, <2>12
<1>. QED
  BY <1>1, <1>2

(* A refutation raises the node's own incarnation and nothing else. *)
LEMMA RefuteKeeps ==
    ASSUME NEW n \in Node, NEW B \in [Node -> Nat], NEW old, IsList(old),
           NEW s, Sound(n, B, old, s)
    PROVE  Sound(n, B, old, Refute(n, s)) /\ Refute(n, s).inc = s.inc + 1
<1>. DEFINE new == UpdateState(s.list, n, "Alive", s.inc + 1)
            ring == OnChange(s.ring, s.list, new)
            u == Update("Alive", n, s.inc + 1, Port[n])
            r == Refute(n, s)
<1>1. s \in LocalState /\ IsList(s.list) /\ s.inc \in Nat /\ s.inc + 1 \in Nat
  BY ListSet DEF Sound, LocalState
<1>2. u \in Told /\ u.node = n /\ u.inc = s.inc + 1
  BY <1>1, SwimAssumption DEF Update, Told
<1>3. /\ IsList(new) /\ Follows(s.list, new) /\ DOMAIN new = DOMAIN s.list
      /\ \A o \in DOMAIN s.list \ {n} : new[o] = s.list[o]
      /\ new[n].state = "Alive" /\ new[n].inc = s.inc + 1
  <2>1. n \in DOMAIN s.list /\ s.inc + 1 > s.list[n].inc
    BY <1>1 DEF Sound
  <2>2. "Alive" \in State
    BY Ranks
  <2>. QED
    <3>1. Updated(s.list, n, "Alive", s.inc + 1, new)
      BY Zenon, <1>1, <2>2, UpdateStateKeeps
    <3>. HIDE DEF new
    <3>. QED
      BY <2>1, <3>1 DEF Updated
<1>4. r = [[s EXCEPT !.list = new, !.ring = ring]
             EXCEPT !.inc = s.inc + 1, !.queue = Enqueue(@, u)]
  BY DEF Refute, Change
<1>5. /\ IsQueue(Enqueue(s.queue, u))
      /\ \A m \in DOMAIN Enqueue(s.queue, u) :
           \/ m = u.node /\ Enqueue(s.queue, u)[m].update = u
           \/ m \in DOMAIN s.queue /\ Enqueue(s.queue, u)[m] = s.queue[m]
  BY <1>2, EnqueueKeeps DEF Sound
<1>6. RingOf(new, ring)
  BY Zenon, <1>3, OnChangeKeeps DEF Sound
<1>7. ring \in SUBSET Node /\ new \in Lists /\ Enqueue(s.queue, u) \in Queues
  BY <1>3, <1>5, <1>6, ListSet, QueueSet DEF RingOf, IsList
<1>. HIDE DEF new, ring, u, r
<1>8. /\ r.list = new /\ r.ring = ring /\ r.queue = Enqueue(s.queue, u) /\ r.inc = s.inc + 1
      /\ r \in LocalState
  BY Zenon, <1>1, <1>4, <1>7 DEF LocalState
<1>9. Follows(old, new)
  BY <1>1, <1>3, FollowsTwice DEF Sound
<1>10. \A m \in DOMAIN r.list : r.list[m].inc <= Cap(n, B, r.inc, m)
  BY <1>1, <1>3, <1>8 DEF Sound, Cap
<1>11. \A m \in DOMAIN r.queue : r.queue[m].update.inc <= Cap(n, B, r.inc, m)
  <2>. SUFFICES ASSUME NEW m \in DOMAIN r.queue
                PROVE  r.queue[m].update.inc <= Cap(n, B, r.inc, m)
    OBVIOUS
  <2>1. CASE m = n /\ r.queue[m].update = u
    BY <1>1, <1>2, <1>8, <2>1 DEF Cap
  <2>2. CASE m \in DOMAIN s.queue /\ r.queue[m] = s.queue[m]
    <3>1. s.queue[m].update.inc <= Cap(n, B, s.inc, m) /\ s.queue[m].update.inc \in Nat
      BY <2>2 DEF Sound, IsQueue, Entry, Told
    <3>. QED
      BY <1>1, <1>8, <2>2, <3>1 DEF Cap
  <2>. QED
    BY <1>2, <1>5, <1>8, <2>1, <2>2
<1>12. n \in DOMAIN r.list /\ r.list[n].state = "Alive" /\ r.list[n].inc = r.inc
  BY <1>3, <1>8 DEF Sound
<1>13. Sound(n, B, old, r)
  BY <1>5, <1>6, <1>8, <1>9, <1>10, <1>11, <1>12 DEF Sound
<1>. QED
  BY <1>8, <1>13 DEF r

(* One turn of apply_updates. *)
LEMMA ApplyUpdateKeeps ==
    ASSUME NEW n \in Node, NEW B \in [Node -> Nat], NEW old, IsList(old),
           NEW s, Sound(n, B, old, s), NEW u \in Told, u.node # n => u.inc <= B[u.node]
    PROVE  Sound(n, B, old, ApplyUpdate(n, u, s)) /\ ApplyUpdate(n, u, s).inc >= s.inc
<1>1. IsList(s.list) /\ s.inc \in Nat /\ n \in DOMAIN s.list
  BY ListSet DEF Sound, LocalState
<1>2. u.node \in Node /\ u.inc \in Nat /\ u.port \in Nat
      /\ u.type \in {"Join", "Alive", "Suspect", "Dead"}
  BY DEF Told
<1>3. CASE u.node = n
  BY <1>1, <1>3, RefuteKeeps DEF ApplyUpdate
<1>4. CASE u.node # n /\ u.type \in {"Join", "Alive"}
  <2>. DEFINE info == Info(u.port, "Alive", u.inc)
              new == AddNode(s.list, u.node, info)
  <2>1. info \in Member /\ info.inc = u.inc
    BY <1>2, Ranks DEF Info, Member
  <2>. HIDE DEF info
  <2>2. /\ IsList(new) /\ Follows(s.list, new)
        /\ DOMAIN new = DOMAIN s.list \cup {u.node}
        /\ \A o \in DOMAIN s.list \ {u.node} : new[o] = s.list[o]
        /\ new[u.node] = info \/ (u.node \in DOMAIN s.list /\ new[u.node] = s.list[u.node])
    BY Zenon, <1>1, <1>2, <2>1, AddNodeKeeps
  <2>. HIDE DEF new
  <2>3. \A m \in DOMAIN new : new[m].inc <= Cap(n, B, s.inc, m)
    BY <1>2, <1>4, <2>1, <2>2 DEF Sound, Cap
  <2>4. new[n] = s.list[n]
    BY <1>1, <1>4, <2>2
  <2>5. Sound(n, B, old, Change(s, new)) /\ Change(s, new).inc = s.inc
    BY <2>2, <2>3, <2>4, ChangeKeeps
  <2>6. ApplyUpdate(n, u, s) = Change(s, new)
    BY <1>4 DEF ApplyUpdate, new, info
  <2>. QED
    BY <1>1, <2>5, <2>6
<1>5. CASE u.node # n /\ u.type \notin {"Join", "Alive"}
  <2>. DEFINE new == UpdateState(s.list, u.node, u.type, u.inc)
  <2>1. u.type \in State
    BY <1>2, <1>5, Ranks
  <2>2. /\ IsList(new) /\ Follows(s.list, new) /\ DOMAIN new = DOMAIN s.list
        /\ \A o \in DOMAIN s.list \ {u.node} : new[o] = s.list[o]
        /\ u.node \in DOMAIN s.list => \/ new[u.node].inc = u.inc
                                       \/ new[u.node] = s.list[u.node]
    <3>1. u.inc \in Nat
      BY <1>2
    <3>2. Updated(s.list, u.node, u.type, u.inc, new)
      BY Zenon, <1>1, <2>1, <3>1, UpdateStateKeeps
    <3>. HIDE DEF new
    <3>. QED
      BY <3>2 DEF Updated
  <2>. HIDE DEF new
  <2>3. \A m \in DOMAIN new : new[m].inc <= Cap(n, B, s.inc, m)
    BY <1>2, <1>5, <2>2 DEF Sound, Cap
  <2>4. new[n] = s.list[n]
    BY <1>1, <1>5, <2>2
  <2>5. Sound(n, B, old, Change(s, new)) /\ Change(s, new).inc = s.inc
    BY <2>2, <2>3, <2>4, ChangeKeeps
  <2>6. ApplyUpdate(n, u, s) = Change(s, new)
    BY <1>5 DEF ApplyUpdate, new
  <2>. QED
    BY <1>1, <2>5, <2>6
<1>. QED
  BY <1>3, <1>4, <1>5

(* apply_updates takes the updates of the message one after the other. *)
LEMMA HeardKeeps ==
    ASSUME NEW n \in Node, NEW B \in [Node -> Nat], NEW old, IsList(old),
           Sound(n, B, old, Local(n)), NEW msg, Sensible(n, B, msg)
    PROVE  Sound(n, B, old, Heard(n, msg)) /\ Heard(n, msg).inc >= incarnation[n]
<1>. DEFINE U == msg.updates
            base == MeetSender(n, Local(n), msg)
            T == {s \in LocalState : Sound(n, B, old, s) /\ s.inc >= incarnation[n]}
            elt(s) == CHOOSE x \in s : TRUE
            Is(f) == f = [s \in SUBSET U |-> IF s = {} THEN base
                                             ELSE ApplyUpdate(n, elt(s), f[s \ {elt(s)}])]
<1>1. Heard(n, msg) = (CHOOSE f : Is(f))[U]
  BY DEF Heard, FoldSet, MapThenFoldSet
<1>2. incarnation[n] \in Nat /\ Local(n).inc = incarnation[n]
  BY DEF Sound, LocalState, Local
<1>3. base \in T
  <2>1. Sound(n, B, old, base) /\ base.inc = incarnation[n]
    BY <1>2, MeetSenderKeeps
  <2>2. base \in LocalState
    BY <2>1 DEF Sound
  <2>. HIDE DEF base
  <2>. QED
    BY <1>2, <2>1, <2>2
<1>4. IsFiniteSet(U) /\ U \subseteq Told
  BY DEF Sensible
<1>5. ASSUME NEW u \in U, NEW s \in T
      PROVE  ApplyUpdate(n, u, s) \in T
  <2>1. u \in Told /\ (u.node # n => u.inc <= B[u.node])
    BY DEF Sensible
  <2>2. Sound(n, B, old, s) /\ s.inc >= incarnation[n] /\ s.inc \in Nat
    BY DEF LocalState
  <2>. DEFINE a == ApplyUpdate(n, u, s)
  <2>3. Sound(n, B, old, a) /\ a.inc >= s.inc
    BY <2>1, <2>2, ApplyUpdateKeeps
  <2>. HIDE DEF a
  <2>4. a \in LocalState /\ a.inc \in Nat
    BY <2>3 DEF Sound, LocalState
  <2>5. a.inc >= incarnation[n]
    BY <1>2, <2>2, <2>3, <2>4
  <2>. QED
    BY <2>3, <2>4, <2>5 DEF a
<1>6. \A s \in SUBSET U : s # {} => elt(s) \in s /\ elt(s) \in U /\ s \ {elt(s)} \in SUBSET U
  OBVIOUS
<1>. HIDE DEF U, base, T, elt
<1>7. \E f : Is(f)
  <2>. DEFINE g == [u \in U |-> [s \in T |-> ApplyUpdate(n, u, s)]]
              ch == [s \in SUBSET U |-> elt(s)]
  <2>1. g \in [U -> [T -> T]]
    BY <1>5
  <2>2. \A s \in SUBSET U : s # {} => ch[s] \in s
    BY <1>6
  <2>3. \A u \in U, s \in T : g[u][s] = ApplyUpdate(n, u, s)
    OBVIOUS
  <2>4. \A s \in SUBSET U : ch[s] = elt(s)
    OBVIOUS
  <2>. HIDE DEF g, ch
  <2>5. PICK f : IsFold(f, U, T, base, g, ch)
    BY Zenon, <1>3, <1>4, <2>1, <2>2, FoldExists
  <2>6. f \in [SUBSET U -> T]
    BY <2>5 DEF IsFold
  <2>7. ASSUME NEW s \in SUBSET U
        PROVE  f[s] = IF s = {} THEN base ELSE ApplyUpdate(n, elt(s), f[s \ {elt(s)}])
    <3>1. f[s] = IF s = {} THEN base ELSE g[elt(s)][f[s \ {elt(s)}]]
      BY Zenon, <2>4, <2>5 DEF IsFold
    <3>2. CASE s = {}
      BY <3>1, <3>2
    <3>3. CASE s # {}
      <4>1. elt(s) \in U /\ f[s \ {elt(s)}] \in T
        BY <1>6, <2>6, <3>3
      <4>. QED
        BY <2>3, <3>1, <3>3, <4>1
    <3>. QED
      BY <3>2, <3>3
  <2>8. Is(f)
    BY <2>6, <2>7
  <2>. QED
    BY <2>8
<1>. DEFINE f == CHOOSE h : Is(h)
<1>8. Is(f)
  BY Zenon, <1>7
<1>9. f[{}] = base /\ \A s \in SUBSET U : s # {} =>
        f[s] = ApplyUpdate(n, elt(s), f[s \ {elt(s)}])
  <2>. HIDE DEF f
  <2>. QED
    BY Zenon, <1>8
<1>10. Heard(n, msg) = f[U]
  BY <1>1
<1>. HIDE DEF f, Is
<1>11. \A s \in SUBSET U : s # {} => \E x \in s : f[s \ {x}] \in T => f[s] \in T
  <2>. SUFFICES ASSUME NEW s \in SUBSET U, s # {}
                PROVE  \E x \in s : f[s \ {x}] \in T => f[s] \in T
    OBVIOUS
  <2>1. elt(s) \in s /\ elt(s) \in U
    BY <1>6
  <2>2. f[s] = ApplyUpdate(n, elt(s), f[s \ {elt(s)}])
    BY <1>9
  <2>3. f[s \ {elt(s)}] \in T => f[s] \in T
    BY <1>5, <2>1, <2>2
  <2>. QED
    BY <2>1, <2>3
<1>12. f[U] \in T
  BY Zenon, <1>3, <1>4, <1>9, <1>11, FoldKeeps
<1>. QED
  BY <1>10, <1>12 DEF T

(* on_ack revives nobody: the record it finds has the same incarnation. *)
LEMMA RevivedKeeps ==
    ASSUME NEW n \in Node, NEW B \in [Node -> Nat], NEW old, IsList(old),
           NEW s, Sound(n, B, old, s), NEW m \in DOMAIN s.list, s.list[m].state # "Alive"
    PROVE  /\ Sound(n, B, old, Revived(s, m))
           /\ Revived(s, m).inc = s.inc /\ Revived(s, m).queue = s.queue
<1>. DEFINE new == UpdateState(s.list, m, "Alive", s.list[m].inc)
<1>1. IsList(s.list) /\ n \in DOMAIN s.list /\ m # n
  BY ListSet DEF Sound, LocalState
<1>2. s.list[m] \in Member /\ s.list[m].inc \in Nat
  BY <1>1 DEF IsList, Member
<1>3. ~Supersedes("Alive", s.list[m].inc, s.list[m])
  BY <1>2, Ranks DEF Supersedes, Member
<1>4. new = s.list
  BY <1>3 DEF UpdateState
<1>5. Follows(s.list, new)
  BY <1>1, <1>4, FollowsItself
<1>6. Revived(s, m) = Change(s, new)
  BY DEF Revived
<1>. HIDE DEF new
<1>7. \A o \in DOMAIN new : new[o].inc <= Cap(n, B, s.inc, o)
  BY <1>4 DEF Sound
<1>. QED
  BY <1>1, <1>4, <1>5, <1>6, <1>7, ChangeKeeps

-----------------------------------------------------------------------------
(* The invariant of the members' views *)

(* The bound of an incarnation is a number. *)
LEMMA BoundType ==
    ASSUME ViewInv
    PROVE  /\ Bound \in [Node -> Nat]
           /\ \A m \in Node : Bound[m] <= MaxIncarnation
BY SwimAssumption DEF ViewInv, Bound, Incarnation

(* What is in order stays so when others may know more. *)
LEMMA SoundWeaker ==
    ASSUME NEW n \in Node, NEW B \in [Node -> Nat], NEW C \in [Node -> Nat],
           \A m \in Node \ {n} : B[m] <= C[m], NEW old, NEW s, Sound(n, B, old, s)
    PROVE  Sound(n, C, old, s)
<1>1. IsList(s.list) /\ IsQueue(s.queue) /\ s.inc \in Nat
  BY ListSet DEF Sound, LocalState
<1>2. \A m \in DOMAIN s.list : m \in Node /\ s.list[m].inc \in Nat
  BY <1>1 DEF IsList, Member
<1>3. \A m \in DOMAIN s.queue : m \in Node /\ s.queue[m].update.inc \in Nat
  BY <1>1 DEF IsQueue, Entry, Told
<1>4. \A m \in DOMAIN s.list : s.list[m].inc <= Cap(n, C, s.inc, m)
  BY <1>1, <1>2 DEF Sound, Cap
<1>5. \A m \in DOMAIN s.queue : s.queue[m].update.inc <= Cap(n, C, s.inc, m)
  BY <1>1, <1>3 DEF Sound, Cap
<1>. QED
  BY <1>4, <1>5 DEF Sound

(* A message within bounds is within larger ones. *)
LEMMA MailWeaker ==
    ASSUME NEW B \in [Node -> Nat], NEW C \in [Node -> Nat], \A m \in Node : B[m] <= C[m],
           NEW x, Mail(B, x)
    PROVE  Mail(C, x)
<1>1. ASSUME NEW u \in x.updates
      PROVE  u.inc <= C[u.node]
  <2>1. u \in Told /\ u.inc <= B[u.node]
    BY DEF Mail
  <2>2. u.inc \in Nat /\ u.node \in Node
    BY <2>1 DEF Told
  <2>. QED
    BY <2>1, <2>2
<1>. QED
  BY <1>1 DEF Mail

(* What a node sends of its queue is in order. *)
LEMMA SentInOrder ==
    ASSUME NEW n \in Node, NEW B \in [Node -> Nat], NEW old, NEW s, Sound(n, B, old, s),
           s.inc <= B[n],
           NEW x, x.from \in Node, x.updates \subseteq {s.queue[m].update : m \in DOMAIN s.queue}
    PROVE  Mail(B, x)
<1>. DEFINE all == {s.queue[m].update : m \in DOMAIN s.queue}
            f == [m \in DOMAIN s.queue |-> s.queue[m].update]
<1>1. IsQueue(s.queue) /\ s.inc \in Nat
  BY DEF Sound, LocalState
<1>2. IsFiniteSet(DOMAIN s.queue)
  BY <1>1, SwimAssumption, FS_Subset DEF IsQueue
<1>3. f \in Surjection(DOMAIN s.queue, all)
  BY DEF Surjection
<1>4. IsFiniteSet(all)
  <2>. HIDE DEF f, all
  <2>. QED
    BY <1>2, <1>3, FS_Surjection
<1>5. IsFiniteSet(x.updates)
  BY <1>4, FS_Subset
<1>6. ASSUME NEW u \in x.updates
      PROVE  u \in Told /\ u.inc <= B[u.node]
  <2>1. PICK m \in DOMAIN s.queue : u = s.queue[m].update
    OBVIOUS
  <2>2. u \in Told /\ u.node = m /\ u.inc <= Cap(n, B, s.inc, m)
    BY <1>1, <2>1 DEF Sound, IsQueue, Entry
  <2>3. u.inc \in Nat /\ m \in Node
    BY <2>2 DEF Told
  <2>. QED
    BY <1>1, <2>2, <2>3 DEF Cap
<1>. QED
  BY <1>5, <1>6 DEF Mail

-----------------------------------------------------------------------------
(* Steps of one node *)

(* A node moves to the state s and its queue to q, which has no other      *)
(* updates, and sends x at most, with updates of s.  Its records only get  *)
(* newer and everything stays in order.                                    *)
LEMMA LocalStep ==
    ASSUME ViewInv, NEW n \in up, NEW s, Sound(n, Bound, members[n], s),
           incarnation[n] <= s.inc, s.inc <= MaxIncarnation,
           NEW q, NEW x, Retells(s.queue, q, x), Settle(n, s, q), up' = up,
           net' \subseteq net \cup {x}
    PROVE  ViewInv' /\ \A o \in up : Follows(members[o], members'[o])
<1>0. /\ IsQueue(q)
      /\ \A m \in DOMAIN q : m \in DOMAIN s.queue /\ q[m].update = s.queue[m].update
      /\ x.from \in Node
      /\ x.updates \subseteq {s.queue[m].update : m \in DOMAIN s.queue}
  BY Zenon DEF Retells
<1>1. /\ n \in Node /\ MaxIncarnation \in Nat
      /\ members \in [Node -> Lists] /\ onRing \in [Node -> SUBSET Node]
      /\ queue \in [Node -> Queues] /\ incarnation \in [Node -> Incarnation]
      /\ s \in LocalState /\ incarnation[n] \in Nat
  <2>1. /\ n \in Node
        /\ members \in [Node -> Lists] /\ onRing \in [Node -> SUBSET Node]
        /\ queue \in [Node -> Queues] /\ incarnation \in [Node -> Incarnation]
        /\ s \in LocalState
    BY Zenon DEF ViewInv, Sound
  <2>2. MaxIncarnation \in Nat
    BY Zenon, SwimAssumption
  <2>3. incarnation[n] \in Incarnation
    BY Zenon, <2>1
  <2>4. incarnation[n] \in Nat
    BY <2>2, <2>3 DEF Incarnation
  <2>. QED
    BY Zenon, <2>1, <2>2, <2>4
<1>2. /\ s.list \in Lists /\ s.ring \in SUBSET Node /\ s.inc \in Nat /\ s.inc \in Incarnation
  BY <1>1 DEF LocalState, Incarnation
<1>3. q \in Queues
  BY <1>0, QueueSet
<1>4. /\ members' \in [Node -> Lists] /\ members'[n] = s.list
      /\ \A o \in Node \ {n} : members'[o] = members[o]
  BY <1>1, <1>2 DEF Settle
<1>5. /\ onRing' \in [Node -> SUBSET Node] /\ onRing'[n] = s.ring
      /\ \A o \in Node \ {n} : onRing'[o] = onRing[o]
  BY <1>1, <1>2 DEF Settle
<1>6. /\ queue' \in [Node -> Queues] /\ queue'[n] = q
      /\ \A o \in Node \ {n} : queue'[o] = queue[o]
  BY <1>1, <1>3 DEF Settle
<1>7. /\ incarnation' \in [Node -> Incarnation] /\ incarnation'[n] = s.inc
      /\ \A o \in Node \ {n} : incarnation'[o] = incarnation[o]
  BY Zenon, <1>1, <1>2 DEF Settle
<1>8. Bound \in [Node -> Nat] /\ Bound[n] \in Nat
  BY Zenon, <1>1, BoundType
<1>9. /\ Bound' \in [Node -> Nat] /\ \A m \in Node \ {n} : Bound'[m] = Bound[m]
      /\ Bound[n] <= Bound'[n] /\ s.inc <= Bound'[n]
  <2>1. \A m \in Node : Bound'[m] = IF "restart" \notin Faults /\ m \in up
                                    THEN incarnation'[m] ELSE MaxIncarnation
    BY Zenon DEF Bound
  <2>2. \A m \in Node : Bound[m] = IF "restart" \notin Faults /\ m \in up
                                   THEN incarnation[m] ELSE MaxIncarnation
    BY DEF Bound
  <2>3. \A m \in Node : Bound'[m] \in Nat
    <3>1. ASSUME NEW m \in Node
          PROVE  Bound'[m] \in Nat
      <4>1. incarnation'[m] \in Incarnation
        BY Zenon, <1>7
      <4>2. incarnation'[m] \in Nat /\ MaxIncarnation \in Nat
        BY <1>1, <4>1 DEF Incarnation
      <4>. QED
        BY Zenon, <2>1, <4>2
    <3>. QED
      BY Zenon, <3>1
  <2>4. Bound' = [m \in Node |-> Bound'[m]]
    BY Zenon DEF Bound
  <2>. QED
    BY <1>1, <1>2, <1>7, <2>1, <2>2, <2>3, <2>4
<1>10. Sound(n, Bound', s.list, s)
  <2>1. Sound(n, Bound', members[n], s)
    <3>1. \A m \in Node \ {n} : Bound[m] <= Bound'[m]
      BY <1>8, <1>9
    <3>2. n \in Node /\ Bound \in [Node -> Nat] /\ Bound' \in [Node -> Nat]
      BY Zenon, <1>1, <1>8, <1>9
    <3>. QED
      BY Zenon, <3>1, <3>2, SoundWeaker
  <2>2. Follows(s.list, s.list)
    BY Zenon, <1>2, ListSet, FollowsItself
  <2>. QED
    BY Zenon, <2>1, <2>2 DEF Sound
<1>11. Sound(n, Bound', members'[n], Local(n)')
  <2>. DEFINE c == [list |-> s.list, ring |-> s.ring, queue |-> q, inc |-> s.inc]
  <2>1. Local(n)' = c
    BY Zenon, <1>4, <1>5, <1>6, <1>7 DEF Local
  <2>2. c \in LocalState /\ c.list = s.list /\ c.ring = s.ring /\ c.queue = q /\ c.inc = s.inc
    BY Zenon, <1>2, <1>3 DEF LocalState
  <2>. HIDE DEF c
  <2>3. \A m \in DOMAIN q : q[m].update.inc <= Cap(n, Bound', s.inc, m)
    BY Zenon, <1>0, <1>10 DEF Sound
  <2>4. Sound(n, Bound', s.list, c)
    BY Zenon, <1>0, <1>10, <2>2, <2>3 DEF Sound
  <2>. QED
    BY Zenon, <1>4, <2>1, <2>4
<1>12. ASSUME NEW o \in up \ {n}
       PROVE  Sound(o, Bound', members'[o], Local(o)')
  <2>1. o \in Node /\ Sound(o, Bound, members[o], Local(o))
    BY Zenon DEF ViewInv
  <2>2. \A m \in Node : Bound[m] <= Bound'[m]
    BY <1>8, <1>9
  <2>3. Sound(o, Bound', members[o], Local(o))
    BY Zenon, <1>8, <1>9, <2>1, <2>2, SoundWeaker
  <2>4. members'[o] = members[o] /\ Local(o)' = Local(o)
    BY Zenon, <1>4, <1>5, <1>6, <1>7, <2>1 DEF Local
  <2>. QED
    BY Zenon, <2>3, <2>4
<1>13. ASSUME NEW y \in net'
       PROVE  Mail(Bound', y)
  <2>1. CASE y \in net
    <3>1. Mail(Bound, y)
      BY <2>1 DEF ViewInv
    <3>2. \A m \in Node : Bound[m] <= Bound'[m]
      BY <1>8, <1>9
    <3>. QED
      BY Zenon, <1>8, <1>9, <3>1, <3>2, MailWeaker
  <2>2. CASE y = x
    BY <1>0, <1>1, <1>9, <1>10, <2>2, SentInOrder
  <2>. QED
    BY Zenon, <2>1, <2>2
<1>14. IsFiniteSet(net')
  <2>1. IsFiniteSet(net)
    BY DEF ViewInv
  <2>2. IsFiniteSet(net \cup {x})
    BY <2>1, FS_AddElement
  <2>. QED
    BY <2>2, FS_Subset
<1>15. \A o \in Node \ up : /\ members'[o] = <<>> /\ onRing'[o] = {}
                            /\ queue'[o] = <<>> /\ incarnation'[o] = 0
  BY Zenon, <1>4, <1>5, <1>6, <1>7 DEF ViewInv
<1>16. ViewInv'
  <2>1. \A o \in up' : Sound(o, Bound', members'[o], Local(o)')
    BY Zenon, <1>11, <1>12
  <2>2. up' \subseteq Node
    BY Zenon DEF ViewInv
  <2>. QED
    BY Zenon, <1>4, <1>5, <1>6, <1>7, <1>13, <1>14, <1>15, <2>1, <2>2 DEF ViewInv
<1>17. \A o \in up : Follows(members[o], members'[o])
  <2>1. Follows(members[n], members'[n])
    BY <1>4 DEF Sound
  <2>2. ASSUME NEW o \in up \ {n}
        PROVE  Follows(members[o], members'[o])
    <3>1. o \in Node /\ Follows(members[o], members[o])
      BY Zenon DEF ViewInv, Sound, Local
    <3>. QED
      BY <1>4, <3>1
  <2>. QED
    BY Zenon, <2>1, <2>2
<1>. QED
  BY <1>16, <1>17

(* A step that changes nothing but a queue's counts and the network. *)
LEMMA QueueStep ==
    ASSUME ViewInv, NEW n \in up, NEW q, NEW x, Retells(queue[n], q, x),
           queue' = [queue EXCEPT ![n] = q],
           UNCHANGED <<up, members, onRing, incarnation>>,
           net' \subseteq net \cup {x}
    PROVE  ViewInv' /\ \A o \in up : Follows(members[o], members'[o])
<1>. DEFINE s == Local(n)
<1>1. /\ s.list = members[n] /\ s.ring = onRing[n] /\ s.queue = queue[n]
      /\ s.inc = incarnation[n]
  BY DEF Local
<1>2. n \in Node /\ Sound(n, Bound, members[n], s)
  BY DEF ViewInv
<1>3. incarnation[n] <= s.inc /\ s.inc <= MaxIncarnation
  BY <1>1, <1>2, SwimAssumption DEF ViewInv, Incarnation
<1>4. Settle(n, s, q)
  BY <1>1, <1>2 DEF Settle, ViewInv
<1>5. Retells(s.queue, q, x)
  BY Zenon, <1>1
<1>. HIDE DEF s
<1>. QED
  BY Zenon, <1>2, <1>3, <1>4, <1>5, LocalStep

(* A step that changes no view and takes messages away. *)
LEMMA NoViewStep ==
    ASSUME ViewInv, UNCHANGED <<up, members, onRing, queue, incarnation>>, net' \subseteq net
    PROVE  ViewInv' /\ \A o \in up : Follows(members[o], members'[o])
<1>1. Bound' = Bound /\ \A n : Local(n)' = Local(n)
  BY DEF Bound, Local
<1>2. IsFiniteSet(net')
  BY FS_Subset DEF ViewInv
<1>3. \A o \in up : Follows(members[o], members[o])
  BY Zenon DEF ViewInv, Sound, Local
<1>4. ViewInv'
  BY <1>1, <1>2 DEF ViewInv
<1>. QED
  BY <1>3, <1>4

-----------------------------------------------------------------------------
(* The steps of the probe loop and of the reaper *)

(* Sending adds at most the message sent. *)
LEMMA SendsAtMost ==
    ASSUME NEW rest \in SUBSET net, NEW msg, Send(rest, msg)
    PROVE  net' \subseteq net \cup {msg}
BY DEF Send

(* A message with updates of the queue, which get_updates counts. *)
LEMMA PiggybackStep ==
    ASSUME ViewInv, NEW n \in up, NEW S \in Picks(queue[n], MaxPiggyback),
           NEW type, NEW seq, NEW to, NEW target,
           queue' = [queue EXCEPT ![n] = Counted(@, S)],
           Send(net, Message(type, seq, n, to, target, Updates(queue[n], S))),
           UNCHANGED <<up, members, onRing, incarnation>>
    PROVE  ViewInv' /\ \A o \in up : Follows(members[o], members'[o])
<1>. DEFINE x == Message(type, seq, n, to, target, Updates(queue[n], S))
            q == Counted(queue[n], S)
<1>1. n \in Node /\ IsQueue(queue[n])
  BY Zenon DEF ViewInv, Sound, Local
<1>2. x.from \in Node /\ x.updates \subseteq {queue[n][m].update : m \in DOMAIN queue[n]}
  BY Zenon, <1>1 DEF Message, Updates, Picks
<1>3. net' \subseteq net \cup {x}
  BY SendsAtMost
<1>4. /\ IsQueue(q)
      /\ \A m \in DOMAIN q : m \in DOMAIN queue[n] /\ q[m].update = queue[n][m].update
  BY <1>1, CountedKeeps
<1>5. queue' = [queue EXCEPT ![n] = q]
  BY <1>1
<1>. HIDE DEF x, q
<1>6. Retells(queue[n], q, x)
  BY Zenon, <1>2, <1>4 DEF Retells
<1>. QED
  BY Zenon, <1>3, <1>5, <1>6, QueueStep

(* A change of the list of n by its own timers, and what it queues. *)
LEMMA TimerStep ==
    ASSUME ViewInv, NEW n \in up, UNCHANGED <<up, incarnation, net>>,
           NEW new, IsList(new), Follows(members[n], new), new[n] = members[n][n],
           \A m \in DOMAIN new : new[m].inc <= Cap(n, Bound, incarnation[n], m),
           NEW q, IsQueue(q),
           \A m \in DOMAIN q : q[m].update.inc <= Cap(n, Bound, incarnation[n], m),
           members' = [members EXCEPT ![n] = new],
           onRing' = [onRing EXCEPT ![n] = OnChange(@, members[n], new)],
           queue' = [queue EXCEPT ![n] = q]
    PROVE  ViewInv' /\ \A o \in up : Follows(members[o], members'[o])
<1>. DEFINE c == Change(Local(n), new)
            s == [c EXCEPT !.queue = q]
            x == Message("Ack", 0, n, n, NoNode, {})
<1>1. /\ n \in Node /\ Sound(n, Bound, members[n], Local(n)) /\ Bound \in [Node -> Nat]
      /\ IsList(members[n]) /\ n \in DOMAIN onRing
  BY Zenon, BoundType, ListSet DEF ViewInv
<1>2. /\ Local(n).list = members[n] /\ Local(n).ring = onRing[n]
      /\ Local(n).inc = incarnation[n]
  BY DEF Local
<1>3. /\ Sound(n, Bound, members[n], c)
      /\ c.inc = incarnation[n] /\ c.list = new
  BY <1>1, <1>2, ChangeKeeps
<1>4. c.ring = OnChange(onRing[n], members[n], new)
  BY <1>2 DEF Change, Local
<1>. HIDE DEF c
<1>5. /\ s.list = new /\ s.ring = c.ring /\ s.inc = incarnation[n] /\ s.queue = q
      /\ s \in LocalState
  <2>1. q \in Queues /\ c \in LocalState
    BY <1>3, QueueSet DEF Sound
  <2>. QED
    BY <1>3, <2>1 DEF LocalState
<1>. HIDE DEF s
<1>6. Sound(n, Bound, members[n], s)
  BY Zenon, <1>3, <1>5 DEF Sound
<1>7. Settle(n, s, q)
  BY <1>1, <1>4, <1>5 DEF Settle, ViewInv
<1>8. incarnation[n] <= s.inc /\ s.inc <= MaxIncarnation
  BY <1>1, <1>5, SwimAssumption DEF ViewInv, Incarnation
<1>9. x.from \in Node /\ x.updates = {}
  BY <1>1 DEF Message
<1>. HIDE DEF x
<1>10. /\ \A m \in DOMAIN q : m \in DOMAIN s.queue /\ q[m].update = s.queue[m].update
       /\ x.updates \subseteq {s.queue[m].update : m \in DOMAIN s.queue}
       /\ net' \subseteq net \cup {x}
  BY Zenon, <1>5, <1>9
<1>. QED
  <2>1. Retells(s.queue, q, x)
    BY Zenon, <1>9, <1>10 DEF Retells
  <2>. QED
    BY Zenon, <1>6, <1>7, <1>8, <1>10, <2>1, LocalStep

(* Suspecting the target of a probe keeps views in order. *)
LEMMA SuspectView ==
    ASSUME SwimInv, NEW n \in Node, Suspect(n)
    PROVE  ViewInv' /\ \A o \in up : Follows(members[o], members'[o])
<1>. DEFINE m == probe[n].target
            new == UpdateState(members[n], m, "Suspect", members[n][m].inc)
            u == Update("Suspect", m, members[n][m].inc, 0)
            q == IF new = members[n] THEN queue[n] ELSE Enqueue(queue[n], u)
<1>1. /\ n \in up /\ UNCHANGED <<up, incarnation, net>>
      /\ members' = [members EXCEPT ![n] = new]
      /\ onRing' = [onRing EXCEPT ![n] = OnChange(@, members[n], new)]
      /\ queue' = [queue EXCEPT ![n] = IF new = members[n] THEN @ ELSE Enqueue(@, u)]
      /\ probe[n].stage # "idle"
  BY Zenon DEF Suspect, Suspicion
<1>2. m \in Node \ {n}
  BY <1>1 DEF SwimInv, AckInv, AcksOf, Pending
<1>. HIDE DEF m
<1>3. /\ ViewInv /\ Sound(n, Bound, members[n], Local(n)) /\ IsList(members[n])
      /\ n \in DOMAIN members[n] /\ IsQueue(queue[n]) /\ queue \in [Node -> Queues]
      /\ \A o \in DOMAIN members[n] : members[n][o].inc <= Cap(n, Bound, incarnation[n], o)
      /\ \A o \in DOMAIN queue[n] : queue[n][o].update.inc <= Cap(n, Bound, incarnation[n], o)
  BY Zenon, <1>1, ListSet DEF SwimInv, ViewInv, Sound, Local
<1>4. queue' = [queue EXCEPT ![n] = q]
  BY Zenon, <1>1, <1>3
<1>5. CASE m \in DOMAIN members[n]
  <2>1. members[n][m] \in Member /\ members[n][m].inc \in Nat /\ "Suspect" \in State
    BY Zenon, <1>3, <1>5, Ranks DEF IsList, Member
  <2>2. /\ IsList(new) /\ Follows(members[n], new) /\ DOMAIN new = DOMAIN members[n]
        /\ \A o \in DOMAIN members[n] \ {m} : new[o] = members[n][o]
        /\ \/ new[m].inc = members[n][m].inc
           \/ new[m] = members[n][m]
    <3>1. Updated(members[n], m, "Suspect", members[n][m].inc, new)
      BY Zenon, <1>3, <2>1, UpdateStateKeeps
    <3>. HIDE DEF new
    <3>. QED
      BY <1>5, <3>1 DEF Updated
  <2>. HIDE DEF new
  <2>3. new[n] = members[n][n] /\ \A o \in DOMAIN new : new[o].inc <= Cap(n, Bound, incarnation[n], o)
    BY Zenon, <1>2, <1>3, <1>5, <2>2
  <2>4. u \in Told /\ u.node = m /\ u.inc = members[n][m].inc
    BY Zenon, <1>2, <2>1 DEF Update, Told
  <2>. HIDE DEF u
  <2>5. /\ IsQueue(Enqueue(queue[n], u))
        /\ \A o \in DOMAIN Enqueue(queue[n], u) :
             \/ o = u.node /\ Enqueue(queue[n], u)[o].update = u
             \/ o \in DOMAIN queue[n] /\ Enqueue(queue[n], u)[o] = queue[n][o]
    BY Zenon, <1>3, <2>4, EnqueueKeeps
  <2>6. \A o \in DOMAIN Enqueue(queue[n], u) :
          Enqueue(queue[n], u)[o].update.inc <= Cap(n, Bound, incarnation[n], o)
    BY Zenon, <1>3, <1>5, <2>4, <2>5
  <2>7. IsQueue(q) /\ \A o \in DOMAIN q : q[o].update.inc <= Cap(n, Bound, incarnation[n], o)
    BY Zenon, <1>3, <2>5, <2>6
  <2>. HIDE DEF q
  <2>. QED
    BY Zenon, <1>1, <1>3, <1>4, <2>2, <2>3, <2>7, TimerStep
<1>6. CASE m \notin DOMAIN members[n]
  <2>1. new = members[n]
    BY <1>6 DEF UpdateState
  <2>2. q = queue[n]
    BY <2>1
  <2>3. Follows(members[n], new)
    BY <1>3, <2>1, FollowsItself
  <2>. HIDE DEF new, q
  <2>. QED
    BY Zenon, <1>1, <1>3, <1>4, <2>1, <2>2, <2>3, TimerStep
<1>. QED
  BY <1>5, <1>6

(* The reaper queues a Dead for each of the suspects that timed out. *)
LEMMA AnnouncedKeeps ==
    ASSUME NEW n, NEW B, NEW inc, NEW list, NEW S \in SUBSET Node,
           \A m \in S : list[m].inc \in Nat /\ list[m].inc <= Cap(n, B, inc, m),
           NEW q, IsQueue(q), \A m \in DOMAIN q : q[m].update.inc <= Cap(n, B, inc, m)
    PROVE  /\ IsQueue(Announced(q, S, list))
           /\ \A m \in DOMAIN Announced(q, S, list) :
                Announced(q, S, list)[m].update.inc <= Cap(n, B, inc, m)
<1>. DEFINE u(m) == Update("Dead", m, list[m].inc, 0)
            In(r) == IsQueue(r) /\ \A m \in DOMAIN r : r[m].update.inc <= Cap(n, B, inc, m)
            T == {r \in Queues : In(r)}
            elt(s) == CHOOSE x \in s : TRUE
            Is(f) == f = [s \in SUBSET S |-> IF s = {} THEN q
                                             ELSE Enqueue(f[s \ {elt(s)}], u(elt(s)))]
<1>1. Announced(q, S, list) = (CHOOSE f : Is(f))[S]
  BY DEF Announced, FoldSet, MapThenFoldSet
<1>2. q \in T
  BY QueueSet
<1>3. IsFiniteSet(S)
  BY SwimAssumption, FS_Subset
<1>4. ASSUME NEW m \in S, NEW r \in T
      PROVE  Enqueue(r, u(m)) \in T
  <2>1. u(m) \in Told /\ u(m).node = m /\ u(m).inc = list[m].inc
    BY DEF Update, Told
  <2>. DEFINE v == u(m)
              e == Enqueue(r, v)
  <2>. HIDE DEF u, v
  <2>2. IsQueue(r) /\ \A o \in DOMAIN r : r[o].update.inc <= Cap(n, B, inc, o)
    OBVIOUS
  <2>3. v \in Told /\ v.node = m /\ v.inc = list[m].inc
    BY <2>1 DEF v
  <2>4. /\ IsQueue(e)
        /\ \A o \in DOMAIN e : \/ o = m /\ e[o].update = v
                               \/ o \in DOMAIN r /\ e[o] = r[o]
    BY <2>2, <2>3, EnqueueKeeps
  <2>. HIDE DEF e
  <2>5. \A o \in DOMAIN e : e[o].update.inc <= Cap(n, B, inc, o)
    BY <2>2, <2>3, <2>4
  <2>6. e \in T
    BY <2>4, <2>5, QueueSet
  <2>. QED
    BY <2>6 DEF e, v
<1>5. \A s \in SUBSET S : s # {} => elt(s) \in s /\ elt(s) \in S /\ s \ {elt(s)} \in SUBSET S
  OBVIOUS
<1>6. \A r \in T : In(r)
  OBVIOUS
<1>. HIDE DEF T, elt, u, In
<1>7. \E f : Is(f)
  <2>. DEFINE g == [m \in S |-> [r \in T |-> Enqueue(r, u(m))]]
              ch == [s \in SUBSET S |-> elt(s)]
  <2>1. g \in [S -> [T -> T]]
    BY <1>4
  <2>2. \A s \in SUBSET S : s # {} => ch[s] \in s
    BY <1>5
  <2>3. \A m \in S, r \in T : g[m][r] = Enqueue(r, u(m))
    OBVIOUS
  <2>4. \A s \in SUBSET S : ch[s] = elt(s)
    OBVIOUS
  <2>. HIDE DEF g, ch
  <2>5. PICK f : IsFold(f, S, T, q, g, ch)
    BY Zenon, <1>2, <1>3, <2>1, <2>2, FoldExists
  <2>6. f \in [SUBSET S -> T]
    BY <2>5 DEF IsFold
  <2>7. ASSUME NEW s \in SUBSET S
        PROVE  f[s] = IF s = {} THEN q ELSE Enqueue(f[s \ {elt(s)}], u(elt(s)))
    <3>1. f[s] = IF s = {} THEN q ELSE g[elt(s)][f[s \ {elt(s)}]]
      BY Zenon, <2>4, <2>5 DEF IsFold
    <3>2. CASE s = {}
      BY <3>1, <3>2
    <3>3. CASE s # {}
      <4>1. elt(s) \in S /\ f[s \ {elt(s)}] \in T
        BY <1>5, <2>6, <3>3
      <4>. QED
        BY <2>3, <3>1, <3>3, <4>1
    <3>. QED
      BY <3>2, <3>3
  <2>8. Is(f)
    BY <2>6, <2>7
  <2>. QED
    BY Zenon, <2>8
<1>. DEFINE f == CHOOSE h : Is(h)
<1>8. Is(f)
  BY Zenon, <1>7
<1>9. f[{}] = q /\ \A s \in SUBSET S : s # {} => f[s] = Enqueue(f[s \ {elt(s)}], u(elt(s)))
  <2>. HIDE DEF f
  <2>. QED
    BY Zenon, <1>8
<1>10. Announced(q, S, list) = f[S]
  BY <1>1
<1>. HIDE DEF f, Is
<1>11. \A s \in SUBSET S : s # {} => \E x \in s : f[s \ {x}] \in T => f[s] \in T
  <2>. SUFFICES ASSUME NEW s \in SUBSET S, s # {}
                PROVE  \E x \in s : f[s \ {x}] \in T => f[s] \in T
    OBVIOUS
  <2>1. elt(s) \in s /\ elt(s) \in S
    BY <1>5
  <2>2. f[s] = Enqueue(f[s \ {elt(s)}], u(elt(s)))
    BY <1>9
  <2>3. f[s \ {elt(s)}] \in T => f[s] \in T
    BY <1>4, <2>1, <2>2
  <2>. QED
    BY Zenon, <2>1, <2>3
<1>12. f[S] \in T
  BY Zenon, <1>2, <1>3, <1>9, <1>11, FoldKeeps
<1>. QED
  BY <1>6, <1>10, <1>12 DEF In

(* Declaring suspects dead keeps views in order. *)
LEMMA ReapView ==
    ASSUME SwimInv, NEW n \in Node, Reap(n)
    PROVE  ViewInv' /\ \A o \in up : Follows(members[o], members'[o])
<1>1. PICK S \in SUBSET Suspects(n) \ {{}} :
        /\ members' = [members EXCEPT ![n] = Declared(n, S)]
        /\ onRing' = [onRing EXCEPT ![n] = OnChange(@, members[n], Declared(n, S))]
        /\ queue' = [queue EXCEPT ![n] = Announced(@, S, Declared(n, S))]
  BY Zenon DEF Reap
<1>. DEFINE new == Declared(n, S)
            q == Announced(queue[n], S, new)
<1>2. n \in up /\ UNCHANGED <<up, incarnation, net>>
  BY DEF Reap
<1>3. /\ ViewInv /\ Sound(n, Bound, members[n], Local(n)) /\ IsList(members[n])
      /\ n \in DOMAIN members[n] /\ IsQueue(queue[n]) /\ queue \in [Node -> Queues]
      /\ \A o \in DOMAIN members[n] : members[n][o].inc <= Cap(n, Bound, incarnation[n], o)
      /\ \A o \in DOMAIN queue[n] : queue[n][o].update.inc <= Cap(n, Bound, incarnation[n], o)
  BY Zenon, <1>2, ListSet DEF SwimInv, ViewInv, Sound, Local
<1>4. queue' = [queue EXCEPT ![n] = q]
  BY Zenon, <1>1, <1>3
<1>5. S \subseteq DOMAIN members[n] \ {n} /\ \A m \in S : members[n][m].state = "Suspect"
  BY DEF Suspects
<1>6. \A m \in DOMAIN members[n] : members[n][m] \in Member
  BY <1>3 DEF IsList
<1>7. /\ DOMAIN new = DOMAIN members[n] /\ new = [m \in DOMAIN new |-> new[m]]
      /\ \A m \in DOMAIN new \ S : new[m] = members[n][m]
      /\ \A m \in S : new[m] = UpdateState(members[n], m, "Dead", members[n][m].inc)[m]
  BY Zenon, <1>5 DEF Declared
<1>8. ASSUME NEW m \in S
      PROVE  new[m] \in Member /\ new[m].inc = members[n][m].inc /\ NotOlder(members[n][m], new[m])
  <2>. DEFINE l == UpdateState(members[n], m, "Dead", members[n][m].inc)
  <2>1. m \in DOMAIN members[n] /\ members[n][m].inc \in Nat /\ "Dead" \in State
    BY <1>5, <1>6, Ranks DEF Member
  <2>2. /\ IsList(l) /\ Follows(members[n], l) /\ DOMAIN l = DOMAIN members[n]
        /\ \/ l[m].inc = members[n][m].inc
           \/ l[m] = members[n][m]
    <3>1. Updated(members[n], m, "Dead", members[n][m].inc, l)
      BY Zenon, <1>3, <2>1, UpdateStateKeeps
    <3>. HIDE DEF l
    <3>. QED
      BY <2>1, <3>1 DEF Updated
  <2>3. l[m] \in Member /\ l[m].inc = members[n][m].inc /\ NotOlder(members[n][m], l[m])
    BY <2>1, <2>2 DEF IsList, Follows
  <2>. QED
    BY <1>7, <2>3
<1>. HIDE DEF new
<1>9. \A m \in DOMAIN new : new[m] \in Member /\ new[m].inc = members[n][m].inc
  BY <1>6, <1>7, <1>8
<1>10. IsList(new)
  BY <1>3, <1>7, <1>9 DEF IsList
<1>11. Follows(members[n], new)
  <2>1. Follows(members[n], members[n])
    BY Zenon, <1>3, FollowsItself
  <2>. QED
    BY <1>7, <1>8, <2>1 DEF Follows
<1>12. new[n] = members[n][n] /\ \A o \in DOMAIN new : new[o].inc <= Cap(n, Bound, incarnation[n], o)
  BY <1>3, <1>5, <1>7, <1>9
<1>13. IsQueue(q) /\ \A o \in DOMAIN q : q[o].update.inc <= Cap(n, Bound, incarnation[n], o)
  <2>1. S \in SUBSET Node
    BY Zenon, <1>3, <1>5 DEF IsList
  <2>2. \A m \in S : new[m].inc \in Nat /\ new[m].inc <= Cap(n, Bound, incarnation[n], m)
    BY <1>5, <1>7, <1>9, <1>12 DEF Member
  <2>. QED
    BY Zenon, <1>3, <2>1, <2>2, AnnouncedKeeps
<1>. HIDE DEF q
<1>14. /\ members' = [members EXCEPT ![n] = new]
       /\ onRing' = [onRing EXCEPT ![n] = OnChange(@, members[n], new)]
  BY <1>1 DEF new
<1>. QED
  BY Zenon, <1>2, <1>3, <1>4, <1>10, <1>11, <1>12, <1>13, <1>14, TimerStep

-----------------------------------------------------------------------------
(* The receive loop, and the faults *)

(* Handling a message keeps views in order, and no record gets older. *)
LEMMA ReceiveView ==
    ASSUME SwimInv, NEW n \in Node, Receive(n)
    PROVE  ViewInv' /\ \A o \in up : Follows(members[o], members'[o])
<1>1. PICK msg \in net, rest \in SUBSET net :
        /\ Heard(n, msg).inc <= MaxIncarnation
        /\ \/ OnPing(n, msg, Heard(n, msg), rest)
           \/ OnAck(n, msg, Heard(n, msg), rest)
           \/ OnPingReq(n, msg, Heard(n, msg), rest)
  BY DEF Receive
<1>. DEFINE s == Heard(n, msg)
<1>2. /\ ViewInv /\ n \in up /\ Bound \in [Node -> Nat] /\ incarnation[n] \in Nat
      /\ Sound(n, Bound, members[n], Local(n)) /\ IsList(members[n])
  BY BoundType, ListSet DEF SwimInv, ViewInv, Receive, Incarnation
<1>3. Sensible(n, Bound, msg)
  BY Zenon, <1>2 DEF ViewInv, Mail, Sensible
<1>4. Sound(n, Bound, members[n], s) /\ s.inc >= incarnation[n] /\ s.inc <= MaxIncarnation
  BY Zenon, <1>1, <1>2, <1>3, HeardKeeps
<1>5. s \in LocalState /\ IsQueue(s.queue) /\ s.inc \in Nat /\ incarnation[n] <= s.inc
  BY Zenon, <1>2, <1>4 DEF Sound, LocalState
<1>. HIDE DEF s
<1>6. CASE OnPing(n, msg, s, rest)
  <2>1. PICK S \in Picks(s.queue, MaxPiggyback) :
          /\ Settle(n, s, Counted(s.queue, S))
          /\ Send(rest, Message("Ack", msg.seq, n, msg.from, NoNode, Updates(s.queue, S)))
    BY <1>6 DEF OnPing
  <2>. DEFINE x == Message("Ack", msg.seq, n, msg.from, NoNode, Updates(s.queue, S))
              q == Counted(s.queue, S)
  <2>2. x.from \in Node /\ x.updates \subseteq {s.queue[m].update : m \in DOMAIN s.queue}
    BY Zenon DEF Message, Updates, Picks
  <2>3. net' \subseteq net \cup {x}
    BY <2>1, SendsAtMost
  <2>4. /\ IsQueue(q)
        /\ \A m \in DOMAIN q : m \in DOMAIN s.queue /\ q[m].update = s.queue[m].update
    BY <1>5, CountedKeeps
  <2>5. Settle(n, s, q) /\ up' = up
    BY <1>6, <2>1 DEF OnPing
  <2>. HIDE DEF x, q
  <2>. QED
    <3>1. Retells(s.queue, q, x)
      BY Zenon, <2>2, <2>4 DEF Retells
    <3>. QED
      BY Zenon, <1>2, <1>4, <1>5, <2>3, <2>5, <3>1, LocalStep
<1>7. CASE OnAck(n, msg, s, rest)
  <2>. DEFINE r == IF msg.from \in DOMAIN s.list /\ s.list[msg.from].state \in {"Suspect", "Dead"}
                   THEN Revived(s, msg.from) ELSE s
              x == Message("Ack", 0, n, n, NoNode, {})
  <2>1. Settle(n, r, r.queue) /\ net' = rest /\ up' = up
    BY <1>7 DEF OnAck
  <2>2. Sound(n, Bound, members[n], r) /\ r.inc = s.inc /\ r.queue = s.queue
    <3>1. CASE msg.from \in DOMAIN s.list /\ s.list[msg.from].state \in {"Suspect", "Dead"}
      <4>1. r = Revived(s, msg.from) /\ s.list[msg.from].state # "Alive"
        BY <3>1
      <4>2. /\ Sound(n, Bound, members[n], Revived(s, msg.from))
            /\ Revived(s, msg.from).inc = s.inc /\ Revived(s, msg.from).queue = s.queue
        <5>. HIDE DEF r
        <5>. QED
          BY Zenon, <1>2, <1>4, <3>1, <4>1, RevivedKeeps
      <4>. HIDE DEF r
      <4>. QED
        BY Zenon, <4>1, <4>2
    <3>2. CASE ~(msg.from \in DOMAIN s.list /\ s.list[msg.from].state \in {"Suspect", "Dead"})
      BY Zenon, <1>4, <3>2
    <3>. QED
      BY Zenon, <3>1, <3>2
  <2>3. x.from \in Node /\ x.updates = {} /\ net' \subseteq net \cup {x}
    BY Zenon, <2>1 DEF Message
  <2>. HIDE DEF r, x
  <2>4. IsQueue(r.queue) /\ incarnation[n] <= r.inc /\ r.inc <= MaxIncarnation
    BY Zenon, <1>4, <1>5, <2>2
  <2>5. /\ \A m \in DOMAIN r.queue : m \in DOMAIN r.queue /\ r.queue[m].update = r.queue[m].update
        /\ x.updates \subseteq {r.queue[m].update : m \in DOMAIN r.queue}
    BY <2>3
  <2>. QED
    <3>1. Retells(r.queue, r.queue, x)
      BY Zenon, <2>3, <2>4, <2>5 DEF Retells
    <3>. QED
      BY Zenon, <1>2, <2>1, <2>2, <2>3, <2>4, <3>1, LocalStep
<1>8. CASE OnPingReq(n, msg, s, rest)
  <2>0. PICK seq : Send(rest, Message("Ping", seq, n, msg.target, NoNode, {}))
    BY <1>8 DEF OnPingReq
  <2>. DEFINE x == Message("Ping", seq, n, msg.target, NoNode, {})
  <2>1. Settle(n, s, s.queue) /\ Send(rest, x) /\ up' = up
    BY <1>8, <2>0 DEF OnPingReq
  <2>2. x.from \in Node /\ x.updates = {}
    BY DEF Message
  <2>. HIDE DEF x
  <2>3. net' \subseteq net \cup {x}
    BY <2>1, SendsAtMost
  <2>4. /\ \A m \in DOMAIN s.queue : m \in DOMAIN s.queue /\ s.queue[m].update = s.queue[m].update
        /\ x.updates \subseteq {s.queue[m].update : m \in DOMAIN s.queue}
    BY <2>2
  <2>. QED
    <3>1. Retells(s.queue, s.queue, x)
      BY Zenon, <1>5, <2>2, <2>4 DEF Retells
    <3>. QED
      BY Zenon, <1>2, <1>4, <1>5, <2>1, <2>3, <3>1, LocalStep
<1>. QED
  BY <1>1, <1>6, <1>7, <1>8 DEF s

(* The end of a relay keeps views in order. *)
LEMMA RelayView ==
    ASSUME SwimInv, NEW n \in Node, RelayEnd(n)
    PROVE  ViewInv' /\ \A o \in up : Follows(members[o], members'[o])
<1>1. /\ ViewInv /\ n \in up
      /\ UNCHANGED <<up, members, onRing, queue, incarnation>>
  BY Zenon DEF SwimInv, RelayEnd
<1>2. PICK r \in relays[n] :
        IF acks[n][r.seq] THEN Send(net, Message("Ack", r.orig, n, r.requester, NoNode, {}))
        ELSE net' = net
  BY Zenon DEF RelayEnd
<1>. DEFINE x == Message("Ack", r.orig, n, r.requester, NoNode, {})
<1>3. x.from \in Node /\ x.updates = {}
  BY DEF Message
<1>4. Send(net, x) \/ net' = net
  BY <1>2
<1>. HIDE DEF x
<1>5. net' \subseteq net \cup {x}
  BY <1>4, SendsAtMost
<1>6. IsQueue(queue[n]) /\ queue \in [Node -> Queues]
  BY Zenon, <1>1 DEF ViewInv, Sound, Local
<1>7. queue' = [queue EXCEPT ![n] = queue[n]]
  BY Zenon, <1>1, <1>6
<1>8. /\ \A m \in DOMAIN queue[n] : m \in DOMAIN queue[n] /\ queue[n][m].update = queue[n][m].update
      /\ x.updates \subseteq {queue[n][m].update : m \in DOMAIN queue[n]}
  BY <1>3
<1>9. Retells(queue[n], queue[n], x)
  BY Zenon, <1>3, <1>6, <1>8 DEF Retells
<1>. QED
  BY Zenon, <1>1, <1>5, <1>7, <1>9, QueueStep

(* A node that knows the nodes of D, all Alive, and tells at most of       *)
(* itself is in order.                                                     *)
LEMMA StartSound ==
    ASSUME NEW n \in Node, NEW B \in [Node -> Nat], NEW D \in SUBSET Node, n \in D,
           NEW q \in {<<>>, StartQueue(n)}, NEW list, NEW s,
           list = [m \in D |-> Info(Port[m], "Alive", 0)],
           s = [list |-> list, ring |-> D, queue |-> q, inc |-> 0]
    PROVE  IsList(list) /\ IsQueue(q) /\ Sound(n, B, list, s)
<1>1. DOMAIN list = D /\ \A m \in D : list[m] = Info(Port[m], "Alive", 0)
  OBVIOUS
<1>2. \A m \in D : /\ Info(Port[m], "Alive", 0) \in Member
                   /\ Info(Port[m], "Alive", 0).state = "Alive"
                   /\ Info(Port[m], "Alive", 0).inc = 0
  BY SwimAssumption, Ranks DEF Info, Member
<1>3. \A m \in D : list[m] \in Member /\ list[m].state = "Alive" /\ list[m].inc = 0
  BY <1>1, <1>2
<1>4. IsList(list)
  BY <1>1, <1>3 DEF IsList
<1>. DEFINE u == Update("Join", n, 0, Port[n])
<1>5. u \in Told /\ u.node = n /\ u.inc = 0
  BY Zenon, SwimAssumption DEF Update, Told
<1>6. IsQueue(<<>>) /\ DOMAIN <<>> = {}
  BY DEF IsQueue
<1>7. StartQueue(n) = Enqueue(<<>>, u)
  BY DEF StartQueue
<1>. HIDE DEF u
<1>8. /\ IsQueue(Enqueue(<<>>, u))
      /\ \A m \in DOMAIN Enqueue(<<>>, u) : m = u.node /\ Enqueue(<<>>, u)[m].update = u
  BY <1>5, <1>6, EnqueueKeeps
<1>9. IsQueue(q) /\ \A m \in DOMAIN q : q[m].update.inc = 0
  BY <1>5, <1>6, <1>7, <1>8
<1>10. \A m \in Node : Cap(n, B, 0, m) \in Nat
  BY DEF Cap
<1>11. s.list = list /\ s.ring = D /\ s.queue = q /\ s.inc = 0 /\ s \in LocalState
  BY <1>4, <1>9, ListSet, QueueSet DEF LocalState
<1>12. Follows(list, list)
  BY <1>4, FollowsItself
<1>13. RingOf(list, D)
  BY <1>1, <1>3 DEF RingOf
<1>14. \A m \in DOMAIN list : list[m].inc <= Cap(n, B, 0, m)
  BY <1>1, <1>3, <1>10
<1>15. \A m \in DOMAIN q : q[m].update.inc <= Cap(n, B, 0, m)
  BY <1>9, <1>10 DEF IsQueue
<1>16. Sound(n, B, list, s)
  BY Zenon, <1>1, <1>3, <1>9, <1>11, <1>12, <1>13, <1>14, <1>15 DEF Sound
<1>. QED
  BY <1>4, <1>9, <1>16

(* A node starts with a list of nodes of incarnation 0, itself among them. *)
LEMMA StartListDomain ==
    ASSUME NEW n \in Node
    PROVE  /\ StartList(n) = [m \in DOMAIN StartList(n) |-> Info(Port[m], "Alive", 0)]
           /\ DOMAIN StartList(n) \in SUBSET Node /\ n \in DOMAIN StartList(n)
BY SwimAssumption DEF StartList

(* A crash keeps the views of the others in order. *)
LEMMA CrashView ==
    ASSUME SwimInv, NEW n \in Node, Crash(n)
    PROVE  ViewInv' /\ \A o \in up \cap up' : Follows(members[o], members'[o])
<1>1. /\ ViewInv /\ n \in up /\ up \subseteq Node /\ up' = up \ {n}
      /\ members \in [Node -> Lists] /\ onRing \in [Node -> SUBSET Node]
      /\ queue \in [Node -> Queues] /\ incarnation \in [Node -> Incarnation]
      /\ members' = [members EXCEPT ![n] = <<>>] /\ onRing' = [onRing EXCEPT ![n] = {}]
      /\ queue' = [queue EXCEPT ![n] = <<>>] /\ incarnation' = [incarnation EXCEPT ![n] = 0]
      /\ net' = net
  BY DEF SwimInv, ViewInv, Crash
<1>2. /\ members'[n] = <<>> /\ onRing'[n] = {} /\ queue'[n] = <<>> /\ incarnation'[n] = 0
      /\ \A o \in Node \ {n} : /\ members'[o] = members[o] /\ onRing'[o] = onRing[o]
                               /\ queue'[o] = queue[o] /\ incarnation'[o] = incarnation[o]
  BY <1>1
<1>3. IsList(<<>>) /\ IsQueue(<<>>)
  BY DEF IsList, IsQueue
<1>4. <<>> \in Lists /\ <<>> \in Queues /\ 0 \in Incarnation
  BY <1>3, ListSet, QueueSet, SwimAssumption DEF Incarnation
<1>5. /\ members' \in [Node -> Lists] /\ onRing' \in [Node -> SUBSET Node]
      /\ queue' \in [Node -> Queues] /\ incarnation' \in [Node -> Incarnation]
  BY <1>1, <1>4
<1>6. /\ Bound \in [Node -> Nat] /\ Bound' \in [Node -> Nat]
      /\ \A m \in Node : Bound[m] <= Bound'[m]
  <2>1. Bound \in [Node -> Nat] /\ \A m \in Node : Bound[m] <= MaxIncarnation
    BY Zenon, <1>1, BoundType
  <2>2. MaxIncarnation \in Nat /\ \A m \in Node : incarnation'[m] \in Nat
    BY <1>5, SwimAssumption DEF Incarnation
  <2>3. Bound' \in [Node -> Nat]
    BY <2>2 DEF Bound
  <2>4. \A m \in Node : Bound'[m] = Bound[m] \/ Bound'[m] = MaxIncarnation
    BY <1>1, <1>2 DEF Bound
  <2>5. \A m \in Node : Bound[m] \in Nat
    BY <2>1
  <2>. QED
    BY <2>1, <2>2, <2>3, <2>4, <2>5
<1>7. ASSUME NEW o \in up'
      PROVE  Sound(o, Bound', members'[o], Local(o)') /\ Follows(members[o], members'[o])
  <2>1. o \in up /\ o \in Node \ {n} /\ Local(o)' = Local(o) /\ members'[o] = members[o]
    BY <1>1, <1>2 DEF Local
  <2>2. Sound(o, Bound, members[o], Local(o)) /\ IsList(members[o])
    BY Zenon, <1>1, <2>1, ListSet DEF ViewInv
  <2>3. Sound(o, Bound', members[o], Local(o))
    BY <1>6, <2>1, <2>2, SoundWeaker
  <2>. QED
    BY Zenon, <2>1, <2>2, <2>3, FollowsItself
<1>8. \A o \in Node \ up' : /\ members'[o] = <<>> /\ onRing'[o] = {}
                            /\ queue'[o] = <<>> /\ incarnation'[o] = 0
  BY Zenon, <1>1, <1>2 DEF ViewInv
<1>9. IsFiniteSet(net') /\ \A x \in net' : Mail(Bound', x)
  BY Zenon, <1>1, <1>6, MailWeaker DEF ViewInv
<1>. QED
  BY Zenon, <1>1, <1>5, <1>7, <1>8, <1>9 DEF ViewInv

(* A node that starts again has a view in order. *)
LEMMA RestartView ==
    ASSUME SwimInv, NEW n \in Node, Restart(n)
    PROVE  ViewInv' /\ \A o \in up \cap up' : Follows(members[o], members'[o])
<1>. DEFINE list == StartList(n)
            D == DOMAIN StartList(n)
<1>1. /\ ViewInv /\ n \notin up /\ up \subseteq Node /\ up' = up \cup {n}
      /\ members \in [Node -> Lists] /\ onRing \in [Node -> SUBSET Node]
      /\ queue \in [Node -> Queues] /\ incarnation \in [Node -> Incarnation]
      /\ members' = [members EXCEPT ![n] = list] /\ onRing' = [onRing EXCEPT ![n] = D]
      /\ queue' = [queue EXCEPT ![n] = StartQueue(n)] /\ incarnation' = incarnation
      /\ net' = net /\ incarnation[n] = 0 /\ "restart" \in Faults
  BY DEF SwimInv, ViewInv, Restart
<1>2. Bound' = Bound /\ Bound \in [Node -> Nat]
  BY <1>1, BoundType DEF Bound
<1>. DEFINE s == [list |-> list, ring |-> D, queue |-> StartQueue(n), inc |-> 0]
<1>3. /\ list = [m \in D |-> Info(Port[m], "Alive", 0)]
      /\ D \in SUBSET Node /\ n \in D
  BY StartListDomain
<1>4. IsList(list) /\ IsQueue(StartQueue(n)) /\ Sound(n, Bound, list, s)
  <2>. DEFINE q == StartQueue(n)
  <2>1. q \in {<<>>, StartQueue(n)}
    OBVIOUS
  <2>. HIDE DEF list, D, q
  <2>2. IsList(list) /\ IsQueue(q) /\ Sound(n, Bound, list, [list |-> list, ring |-> D, queue |-> q, inc |-> 0])
    BY <1>2, <1>3, <2>1, StartSound
  <2>. QED
    BY <2>2 DEF q
<1>. HIDE DEF list, D
<1>5. /\ members'[n] = list /\ onRing'[n] = D /\ queue'[n] = StartQueue(n)
      /\ \A o \in Node \ {n} : /\ members'[o] = members[o] /\ onRing'[o] = onRing[o]
                               /\ queue'[o] = queue[o]
  BY <1>1
<1>6. /\ members' \in [Node -> Lists] /\ onRing' \in [Node -> SUBSET Node]
      /\ queue' \in [Node -> Queues]
  BY <1>1, <1>3, <1>4, ListSet, QueueSet
<1>7. ASSUME NEW o \in up
      PROVE  Sound(o, Bound', members'[o], Local(o)') /\ Follows(members[o], members'[o])
  <2>1. o \in Node \ {n} /\ Local(o)' = Local(o) /\ members'[o] = members[o]
    BY <1>1, <1>5 DEF Local
  <2>2. Sound(o, Bound, members[o], Local(o)) /\ IsList(members[o])
    BY Zenon, <1>1, <2>1, ListSet DEF ViewInv
  <2>. QED
    BY Zenon, <1>2, <2>1, <2>2, FollowsItself
<1>8. Sound(n, Bound', members'[n], Local(n)')
  <2>1. Local(n)' = s
    BY <1>1, <1>5 DEF Local
  <2>. QED
    BY Zenon, <1>2, <1>4, <1>5, <2>1
<1>9. \A o \in up' : Sound(o, Bound', members'[o], Local(o)')
  BY <1>1, <1>7, <1>8
<1>10. \A o \in Node \ up' : /\ members'[o] = <<>> /\ onRing'[o] = {}
                             /\ queue'[o] = <<>> /\ incarnation'[o] = 0
  BY Zenon, <1>1, <1>5 DEF ViewInv
<1>11. IsFiniteSet(net') /\ \A x \in net' : Mail(Bound', x)
  BY Zenon, <1>1, <1>2 DEF ViewInv
<1>. QED
  BY Zenon, <1>1, <1>6, <1>7, <1>9, <1>10, <1>11 DEF ViewInv

(* The cluster starts in order, whichever of its nodes are still to join. *)
LEMMA InitView ==
    ASSUME NEW Late \in SUBSET Node, InitWith(Late)
    PROVE  ViewInv
<1>. DEFINE known(n) == IF n \in Late THEN DOMAIN StartList(n) ELSE Node \ Late
<1>1. /\ up = Node /\ net = {}
      /\ members = [n \in Node |-> [m \in known(n) |-> Info(Port[m], "Alive", 0)]]
      /\ onRing = [n \in Node |-> known(n)]
      /\ queue = [n \in Node |-> IF n \in Late THEN StartQueue(n) ELSE <<>>]
      /\ incarnation = [n \in Node |-> 0]
  BY Zenon DEF InitWith
<1>2. \A n \in Node : known(n) \in SUBSET Node /\ n \in known(n)
  BY StartListDomain
<1>. HIDE DEF known
<1>3. incarnation \in [Node -> Incarnation] /\ \A n \in Node : incarnation[n] = 0
  <2>1. 0 \in Incarnation
    BY SwimAssumption DEF Incarnation
  <2>2. incarnation = [n \in Node |-> 0]
    BY Zenon, <1>1
  <2>. QED
    BY Zenon, <2>1, <2>2
<1>4. Bound \in [Node -> Nat]
  <2>1. MaxIncarnation \in Nat
    BY Zenon, SwimAssumption
  <2>2. \A m \in Node : incarnation[m] \in Nat
    BY <1>3
  <2>. QED
    BY <2>1, <2>2, Zenon DEF Bound
<1>5. ASSUME NEW n \in Node
      PROVE  IsList(members[n]) /\ IsQueue(queue[n]) /\ Sound(n, Bound, members[n], Local(n))
  <2>1. /\ members[n] = [m \in known(n) |-> Info(Port[m], "Alive", 0)]
        /\ onRing[n] = known(n) /\ queue[n] \in {<<>>, StartQueue(n)} /\ incarnation[n] = 0
    BY <1>1
  <2>2. Local(n) = [list |-> members[n], ring |-> known(n), queue |-> queue[n], inc |-> 0]
    BY Zenon, <2>1 DEF Local
  <2>. QED
    BY Zenon, <1>2, <1>4, <2>1, <2>2, StartSound
<1>6. members \in [Node -> Lists] /\ queue \in [Node -> Queues]
  BY Zenon, <1>1, <1>5, ListSet, QueueSet
<1>7. onRing \in [Node -> SUBSET Node]
  BY <1>1, <1>2
<1>8. IsFiniteSet(net)
  BY <1>1, FS_EmptySet
<1>. QED
  BY <1>1, <1>3, <1>5, <1>6, <1>7, <1>8 DEF ViewInv

-----------------------------------------------------------------------------
(* Sequence numbers *)

(* The image of a finite set is finite. *)
LEMMA FiniteImage ==
    ASSUME NEW S, IsFiniteSet(S), NEW f, DOMAIN f = S
    PROVE  IsFiniteSet({f[x] : x \in S})
<1>. DEFINE T == {f[x] : x \in S}
            g == [x \in S |-> f[x]]
<1>1. g \in Surjection(S, T)
  BY DEF Surjection
<1>. HIDE DEF T, g
<1>2. IsFiniteSet(T)
  BY <1>1, FS_Surjection
<1>. QED
  BY <1>2 DEF T

(* A number drawn by next_seq() belongs to no pending ack of the node. *)
LEMMA NextSeqFresh ==
    ASSUME SwimInv, NEW n \in Node, NEW seq \in NextSeq(n)
    PROVE  seq \in Nat \ DOMAIN acks[n]
<1>. DEFINE near == {y \in net : n = IF y.type = "Ack" THEN y.to ELSE y.from}
            mine == {t \in UNION {relays[o] : o \in Node} : t.requester = n}
            A == {x.seq : x \in near}
            B == {r.orig : r \in mine}
            R == {r.seq : r \in relays[n]}
            used == DOMAIN acks[n] \cup (A \cup B)
            least == Min((0 .. Cardinality(used)) \ used)
<1>1. \A o \in Node : IsFiniteSet(relays[o])
  BY DEF SwimInv, AckInv, AcksOf, Pending
<1>2. IsFiniteSet(A)
  <2>1. IsFiniteSet(near)
    BY Zenon, FS_Subset DEF SwimInv, ViewInv
  <2>. DEFINE f == [x \in near |-> x.seq]
  <2>2. A = {f[x] : x \in near} /\ DOMAIN f = near
    BY Zenon
  <2>. HIDE DEF f, near, A
  <2>. QED
    BY <2>1, <2>2, FiniteImage
<1>3. IsFiniteSet(B)
  <2>. DEFINE all == {relays[o] : o \in Node}
              g == [o \in Node |-> relays[o]]
              f == [r \in mine |-> r.orig]
  <2>1. all = {g[o] : o \in Node} /\ DOMAIN g = Node /\ IsFiniteSet(Node)
    BY SwimAssumption
  <2>2. \A T \in all : IsFiniteSet(T)
    BY Zenon, <1>1
  <2>3. mine \subseteq UNION all
    OBVIOUS
  <2>4. B = {f[r] : r \in mine} /\ DOMAIN f = mine
    BY Zenon
  <2>. HIDE DEF all, g, f, mine, B
  <2>5. IsFiniteSet(all)
    BY Zenon, <2>1, FiniteImage
  <2>6. IsFiniteSet(UNION all)
    BY Zenon, <2>2, <2>5, FS_UNION
  <2>7. IsFiniteSet(mine)
    BY <2>3, <2>6, FS_Subset
  <2>. QED
    BY <2>4, <2>7, FiniteImage
<1>4. IsFiniteSet(DOMAIN acks[n])
  <2>. DEFINE f == [r \in relays[n] |-> r.seq]
              P == IF probe[n] = Idle THEN {} ELSE {probe[n].seq}
  <2>1. R = {f[r] : r \in relays[n]} /\ DOMAIN f = relays[n]
    BY Zenon
  <2>2. DOMAIN acks[n] = R \cup P
    BY DEF SwimInv, AckInv, AcksOf, Pending
  <2>3. IsFiniteSet(P)
    BY Zenon, FS_EmptySet, FS_Singleton
  <2>. HIDE DEF f, R, P
  <2>4. IsFiniteSet(R)
    BY <1>1, <2>1, FiniteImage
  <2>5. IsFiniteSet(R \cup P)
    BY Zenon, <2>3, <2>4, FS_Union
  <2>. QED
    BY <2>2, <2>5
<1>5. seq = least \/ seq \in stale[n] \ DOMAIN acks[n]
  <2>1. A \cup B = Outstanding(n)
    BY Zenon DEF Outstanding
  <2>. QED
    BY Zenon, <2>1 DEF NextSeq
<1>6. IsFiniteSet(used)
  <2>. HIDE DEF A, B
  <2>1. IsFiniteSet(A \cup B)
    BY Zenon, <1>2, <1>3, FS_Union
  <2>. QED
    BY Zenon, <1>4, <2>1, FS_Union
<1>7. DOMAIN acks[n] \subseteq used
  OBVIOUS
<1>. HIDE DEF used
<1>. DEFINE free == (0 .. Cardinality(used)) \ used
<1>8. Cardinality(used) \in Nat
  BY <1>6, FS_CardinalityType
<1>9. Cardinality(0 .. Cardinality(used)) = Cardinality(used) + 1
  BY <1>8, FS_Interval
<1>10. free # {}
  <2>1. SUFFICES ASSUME free = {} PROVE FALSE
    OBVIOUS
  <2>2. 0 .. Cardinality(used) \in SUBSET used
    BY <2>1
  <2>3. Cardinality(0 .. Cardinality(used)) <= Cardinality(used)
    BY Zenon, <1>6, <2>2, FS_Subset
  <2>. QED
    BY <1>8, <1>9, <2>3
<1>11. free \in SUBSET Nat /\ \A x \in free : x \notin used
  BY <1>8
<1>. HIDE DEF free
<1>12. Min(free) \in free
  BY <1>10, <1>11, MinProperty
<1>13. least = Min(free)
  BY DEF free
<1>14. stale[n] \subseteq Nat
  BY DEF SwimInv, SeqInv
<1>. HIDE DEF least
<1>. QED
  BY Zenon, <1>5, <1>7, <1>11, <1>12, <1>13, <1>14

(* The probe, the relays and the pending acks of one node change. *)
LEMMA AckStep ==
    ASSUME AckInv, NEW n \in Node, NEW A, NEW p \in Probes, NEW R, Pending(n, A, p, R),
           acks' = [acks EXCEPT ![n] = A], probe' = [probe EXCEPT ![n] = p],
           relays' = [relays EXCEPT ![n] = R],
           up \ {n} = up' \ {n}, n \notin up' => A = <<>> /\ p = Idle /\ R = {}
    PROVE  AckInv'
<1>1. /\ probe \in [Node -> Probes]
      /\ acks = [o \in Node |-> acks[o]] /\ relays = [o \in Node |-> relays[o]]
  BY DEF AckInv
<1>2. /\ probe' \in [Node -> Probes]
      /\ acks' = [o \in Node |-> acks'[o]] /\ relays' = [o \in Node |-> relays'[o]]
      /\ acks'[n] = A /\ probe'[n] = p /\ relays'[n] = R
      /\ \A o \in Node \ {n} : /\ acks'[o] = acks[o] /\ probe'[o] = probe[o]
                               /\ relays'[o] = relays[o]
  BY Zenon, <1>1
<1>3. AcksOf(n)'
  <2>1. Pending(n, acks'[n], probe'[n], relays'[n])
    BY <1>2
  <2>2. Pending(n, acks[n], probe[n], relays[n])'
    BY Zenon, <2>1 DEF Pending, Idle
  <2>. QED
    BY <1>2, <2>2 DEF AcksOf
<1>4. ASSUME NEW o \in Node \ {n}
      PROVE  AcksOf(o)'
  <2>1. AcksOf(o) /\ (o \in up' <=> o \in up)
    BY DEF AckInv
  <2>. QED
    BY Zenon, <1>2, <2>1 DEF AcksOf, Pending, Idle
<1>. QED
  BY <1>2, <1>3, <1>4 DEF AckInv

(* Steps that touch neither acks nor tasks keep AckInv. *)
LEMMA NoAckStep ==
    ASSUME AckInv, UNCHANGED <<acks, probe, relays>>, up \subseteq up'
    PROVE  AckInv'
BY DEF AckInv, AcksOf, Pending, Idle

(* One more exchange is awaited, or one less. *)
LEMMA AwaitingDomain ==
    ASSUME NEW A, NEW k
    PROVE  /\ DOMAIN Awaiting(A, k) = DOMAIN A \cup {k}
           /\ DOMAIN Without(A, k) = DOMAIN A \ {k}
BY DEF Awaiting, Without

(* The idle probe is a probe. *)
LEMMA IdleProbe == Idle \in Probes /\ Idle.stage = "idle"
BY DEF Idle, Probes

(* A probe that awaits a fresh number, in place of the one it awaited      *)
(* before, keeps the pending acks in order.                                *)
LEMMA ProbeBegins ==
    ASSUME NEW n \in Node, NEW A, NEW p, NEW R, Pending(n, A, p, R),
           NEW k \in Nat \ DOMAIN A, NEW q \in Probes, q.seq = k, q.stage # "idle",
           q.target \in Node \ {n}, NEW C,
           \/ p = Idle /\ DOMAIN C = DOMAIN A \cup {k}
           \/ p # Idle /\ DOMAIN C = (DOMAIN A \ {p.seq}) \cup {k}
    PROVE  Pending(n, C, q, R)
<1>1. q # Idle
  BY IdleProbe
<1>2. \A r \in R : r.seq \in DOMAIN A /\ r.seq # k
  BY Zenon DEF Pending
<1>3. DOMAIN C = {r.seq : r \in R} \cup {k}
  <2>1. CASE p = Idle
    BY <2>1 DEF Pending
  <2>2. CASE p # Idle
    <3>1. DOMAIN A = {r.seq : r \in R} \cup {p.seq} /\ p.seq \notin {r.seq : r \in R}
      BY <2>2 DEF Pending
    <3>. QED
      BY Zenon, <2>2, <3>1
  <2>. QED
    BY <2>1, <2>2
<1>. QED
  BY Zenon, <1>1, <1>2, <1>3 DEF Pending

(* A probe that ends takes its pending ack with it. *)
LEMMA ProbeEnds ==
    ASSUME NEW n \in Node, NEW A, NEW p, NEW R, Pending(n, A, p, R), p # Idle
    PROVE  Pending(n, Without(A, p.seq), Idle, R)
<1>1. DOMAIN A = {r.seq : r \in R} \cup {p.seq} /\ p.seq \notin {r.seq : r \in R}
  BY DEF Pending
<1>2. DOMAIN Without(A, p.seq) = {r.seq : r \in R}
  <2>. DEFINE S == {r.seq : r \in R}
  <2>1. DOMAIN Without(A, p.seq) = DOMAIN A \ {p.seq}
    BY Zenon, AwaitingDomain
  <2>2. DOMAIN A = S \cup {p.seq} /\ p.seq \notin S
    BY <1>1
  <2>. HIDE DEF S
  <2>3. DOMAIN Without(A, p.seq) = S
    BY <2>1, <2>2
  <2>. QED
    BY <2>3 DEF S
<1>. QED
  BY <1>2, IdleProbe DEF Pending

(* A relay that awaits a fresh number keeps the pending acks in order. *)
LEMMA RelayBegins ==
    ASSUME NEW n \in Node, NEW A, NEW p, NEW R, Pending(n, A, p, R),
           NEW k \in Nat \ DOMAIN A, NEW r, r.seq = k
    PROVE  Pending(n, Awaiting(A, k), p, R \cup {r})
<1>1. \A t \in R : t.seq \in DOMAIN A /\ t.seq # k
  BY DEF Pending
<1>2. p # Idle => p.seq \in DOMAIN A /\ p.seq # k
  BY DEF Pending
<1>3. DOMAIN Awaiting(A, k) = {t.seq : t \in R \cup {r}}
                                \cup (IF p = Idle THEN {} ELSE {p.seq})
  <2>. DEFINE S == {t.seq : t \in R}
              T == {t.seq : t \in R \cup {r}}
              P == IF p = Idle THEN {} ELSE {p.seq}
  <2>1. DOMAIN Awaiting(A, k) = DOMAIN A \cup {k}
    BY AwaitingDomain
  <2>2. DOMAIN A = S \cup P
    BY DEF Pending
  <2>3. T = S \cup {k}
    BY Zenon
  <2>. HIDE DEF S, T, P
  <2>4. DOMAIN Awaiting(A, k) = T \cup P
    BY <2>1, <2>2, <2>3
  <2>. QED
    BY <2>4 DEF T, P
<1>4. IsFiniteSet(R \cup {r})
  BY FS_AddElement DEF Pending
<1>. QED
  BY Zenon, <1>1, <1>2, <1>3, <1>4 DEF Pending

(* A relay that ends takes its pending ack with it. *)
LEMMA RelayEnds ==
    ASSUME NEW n \in Node, NEW A, NEW p, NEW R, Pending(n, A, p, R), NEW r \in R
    PROVE  Pending(n, Without(A, r.seq), p, R \ {r})
<1>1. \A t \in R \ {r} : t.seq # r.seq
  BY DEF Pending
<1>2. p # Idle => p.seq # r.seq
  BY DEF Pending
<1>3. {t.seq : t \in R} \ {r.seq} = {t.seq : t \in R \ {r}}
  BY <1>1
<1>4. DOMAIN Without(A, r.seq) = {t.seq : t \in R \ {r}}
                                   \cup (IF p = Idle THEN {} ELSE {p.seq})
  <2>. DEFINE S == {t.seq : t \in R}
              T == {t.seq : t \in R \ {r}}
              P == IF p = Idle THEN {} ELSE {p.seq}
  <2>1. DOMAIN Without(A, r.seq) = DOMAIN A \ {r.seq}
    BY Zenon, AwaitingDomain
  <2>2. DOMAIN A = S \cup P /\ r.seq \notin P
    BY <1>2 DEF Pending
  <2>3. T = S \ {r.seq}
    BY <1>3
  <2>. HIDE DEF S, T, P
  <2>4. DOMAIN Without(A, r.seq) = T \cup P
    BY <2>1, <2>2, <2>3
  <2>. QED
    BY <2>4 DEF T, P
<1>5. IsFiniteSet(R \ {r})
  BY FS_RemoveElement DEF Pending
<1>. QED
  BY Zenon, <1>4, <1>5 DEF Pending

(* The steps of the probe and of the relays keep the pending acks in       *)
(* order.                                                                  *)
LEMMA ProbeStartAcks ==
    ASSUME SwimInv, NEW n \in Node, NEW m \in Node, ProbeStart(n, m)
    PROVE  AckInv'
<1>0. PICK k \in NextSeq(n) :
        /\ acks' = [acks EXCEPT ![n] = Awaiting(@, k)]
        /\ probe' = [probe EXCEPT ![n] =
                       [stage |-> "direct", target |-> m, seq |-> k, todo |-> {}]]
  BY Zenon DEF ProbeStart
<1>. DEFINE q == [stage |-> "direct", target |-> m, seq |-> k, todo |-> {}]
            C == Awaiting(acks[n], k)
<1>1. /\ AckInv /\ n \in up /\ up' = up /\ relays' = relays
      /\ probe[n].stage = "idle" /\ m \in AlivePeers(members[n], n)
      /\ acks' = [acks EXCEPT ![n] = Awaiting(@, k)]
      /\ probe' = [probe EXCEPT ![n] = q]
  BY Zenon, <1>0 DEF SwimInv, ProbeStart
<1>2. k \in Nat \ DOMAIN acks[n]
  BY NextSeqFresh
<1>3. m \in Node \ {n}
  BY Zenon, <1>1 DEF AlivePeers
<1>4. q \in Probes /\ q.seq = k /\ q.stage # "idle" /\ q.target \in Node \ {n}
  BY Zenon, <1>2, <1>3 DEF Probes
<1>. HIDE DEF q
<1>5. Pending(n, acks[n], probe[n], relays[n]) /\ probe[n] = Idle
  BY <1>1 DEF AckInv, AcksOf, Pending
<1>6. DOMAIN C = DOMAIN acks[n] \cup {k}
  BY Zenon, AwaitingDomain
<1>7. acks' = [acks EXCEPT ![n] = C] /\ relays' = [relays EXCEPT ![n] = relays[n]]
  BY <1>1 DEF AckInv
<1>. HIDE DEF C
<1>8. Pending(n, C, q, relays[n])
  BY Zenon, <1>2, <1>4, <1>5, <1>6, ProbeBegins
<1>. QED
  BY Zenon, <1>1, <1>4, <1>7, <1>8, AckStep

(* The end of a probe keeps AckInv. *)
LEMMA ProbeOverAcks ==
    ASSUME SwimInv, NEW n \in Node, n \in up, probe[n].stage # "idle", up' = up, relays' = relays,
           acks' = [acks EXCEPT ![n] = Without(@, probe[n].seq)],
           probe' = [probe EXCEPT ![n] = Idle]
    PROVE  AckInv'
<1>. DEFINE C == Without(acks[n], probe[n].seq)
<1>1. AckInv /\ Pending(n, acks[n], probe[n], relays[n]) /\ probe[n] # Idle
  BY IdleProbe DEF SwimInv, AckInv, AcksOf
<1>2. Pending(n, C, Idle, relays[n])
  BY Zenon, <1>1, ProbeEnds
<1>3. acks' = [acks EXCEPT ![n] = C] /\ relays' = [relays EXCEPT ![n] = relays[n]]
  BY <1>1 DEF AckInv
<1>. HIDE DEF C
<1>. QED
  BY Zenon, <1>1, <1>2, <1>3, IdleProbe, AckStep

(* The start of the indirect probe keeps AckInv. *)
LEMMA StartIndirectAcks ==
    ASSUME SwimInv, NEW n \in Node, StartIndirect(n)
    PROVE  AckInv'
<1>1. PICK k \in NextSeq(n), S \in Intermediaries(n) :
        /\ probe' = [probe EXCEPT ![n].stage = "indirect", ![n].todo = S, ![n].seq = k]
        /\ acks' = [acks EXCEPT ![n] = Awaiting(Without(@, probe[n].seq), k)]
  BY Zenon DEF StartIndirect
<1>. DEFINE q == [probe[n] EXCEPT !.stage = "indirect", !.todo = S, !.seq = k]
            C == Awaiting(Without(acks[n], probe[n].seq), k)
<1>2. /\ AckInv /\ n \in up /\ up' = up /\ relays' = relays /\ probe[n].stage = "direct"
      /\ acks' = [acks EXCEPT ![n] = Awaiting(Without(@, probe[n].seq), k)]
  BY Zenon, <1>1 DEF SwimInv, StartIndirect
<1>3. k \in Nat \ DOMAIN acks[n]
  BY NextSeqFresh
<1>4. S \subseteq Node
  <2>1. AlivePeers(members[n], n) \subseteq Node
    BY <1>2, ListSet DEF SwimInv, ViewInv, AlivePeers, IsList
  <2>2. S \subseteq AlivePeers(members[n], n)
    BY DEF Intermediaries
  <2>. QED
    BY <2>1, <2>2
<1>5. /\ Pending(n, acks[n], probe[n], relays[n]) /\ probe[n] \in Probes /\ probe[n] # Idle
      /\ probe[n].target \in Node \ {n}
  BY <1>2, IdleProbe DEF AckInv, AcksOf, Pending
<1>6. q \in Probes /\ q.seq = k /\ q.stage = "indirect" /\ q.target = probe[n].target
  BY Zenon, <1>3, <1>4, <1>5 DEF Probes
<1>7. probe' = [probe EXCEPT ![n] = q]
  BY Zenon, <1>1, <1>5 DEF Probes
<1>. HIDE DEF q
<1>8. DOMAIN C = (DOMAIN acks[n] \ {probe[n].seq}) \cup {k}
  <2>. DEFINE W == Without(acks[n], probe[n].seq)
  <2>1. DOMAIN W = DOMAIN acks[n] \ {probe[n].seq}
    BY Zenon, AwaitingDomain
  <2>. HIDE DEF W
  <2>2. DOMAIN Awaiting(W, k) = DOMAIN W \cup {k}
    BY Zenon, AwaitingDomain
  <2>. QED
    BY Zenon, <2>1, <2>2 DEF W
<1>9. acks' = [acks EXCEPT ![n] = C] /\ relays' = [relays EXCEPT ![n] = relays[n]]
  BY <1>2 DEF AckInv
<1>. HIDE DEF C
<1>10. q.stage # "idle" /\ q.target \in Node \ {n}
  BY <1>5, <1>6
<1>11. Pending(n, C, q, relays[n])
  BY Zenon, <1>3, <1>5, <1>6, <1>8, <1>10, ProbeBegins
<1>12. AckInv /\ n \in up /\ up' = up /\ q \in Probes
  BY <1>2, <1>6
<1>. QED
  BY Zenon, <1>7, <1>9, <1>11, <1>12, AckStep

(* A Ping-Req sent keeps AckInv. *)
LEMMA SendPingReqAcks ==
    ASSUME SwimInv, NEW n \in Node, NEW r \in Node, SendPingReq(n, r)
    PROVE  AckInv'
<1>. DEFINE q == [probe[n] EXCEPT !.todo = probe[n].todo \ {r}]
<1>1. /\ AckInv /\ n \in up /\ up' = up /\ UNCHANGED <<acks, relays>>
      /\ probe[n].stage = "indirect" /\ probe' = [probe EXCEPT ![n].todo = @ \ {r}]
  BY DEF SwimInv, SendPingReq
<1>2. Pending(n, acks[n], probe[n], relays[n]) /\ probe[n] \in Probes /\ probe[n] # Idle
  BY <1>1, IdleProbe DEF AckInv, AcksOf
<1>3. /\ q \in Probes /\ q.seq = probe[n].seq /\ q.stage = probe[n].stage
      /\ q.target = probe[n].target
  BY <1>2 DEF Probes
<1>4. probe' = [probe EXCEPT ![n] = q]
  BY <1>1
<1>. HIDE DEF q
<1>5. q # Idle
  BY <1>1, <1>3, IdleProbe
<1>6. Pending(n, acks[n], q, relays[n])
  BY <1>1, <1>2, <1>3, <1>5 DEF Pending
<1>7. acks' = [acks EXCEPT ![n] = acks[n]] /\ relays' = [relays EXCEPT ![n] = relays[n]]
  BY Zenon, <1>1 DEF AckInv
<1>8. AckInv /\ n \in up /\ up' = up /\ q \in Probes
  BY <1>1, <1>3
<1>. QED
  BY Zenon, <1>4, <1>6, <1>7, <1>8, AckStep

(* Handling a message keeps AckInv. *)
LEMMA ReceiveAcks ==
    ASSUME SwimInv, NEW n \in Node, Receive(n)
    PROVE  AckInv'
<1>1. PICK msg \in net, rest \in SUBSET net :
        \/ OnPing(n, msg, Heard(n, msg), rest)
        \/ OnAck(n, msg, Heard(n, msg), rest)
        \/ OnPingReq(n, msg, Heard(n, msg), rest)
  BY DEF Receive
<1>. DEFINE s == Heard(n, msg)
<1>2. /\ AckInv /\ n \in up /\ Pending(n, acks[n], probe[n], relays[n])
      /\ probe[n] \in Probes /\ probe \in [Node -> Probes]
      /\ acks = [o \in Node |-> acks[o]] /\ relays = [o \in Node |-> relays[o]]
  BY DEF SwimInv, AckInv, AcksOf, Receive
<1>3. CASE OnPing(n, msg, s, rest)
  BY <1>2, <1>3, NoAckStep DEF OnPing
<1>4. CASE OnAck(n, msg, s, rest)
  <2>. DEFINE C == [q \in DOMAIN acks[n] |-> acks[n][q] \/ q = msg.seq]
  <2>1. /\ up' = up /\ acks' = [acks EXCEPT ![n] = C]
        /\ probe' = [probe EXCEPT ![n] = probe[n]] /\ relays' = [relays EXCEPT ![n] = relays[n]]
    BY <1>2, <1>4 DEF OnAck
  <2>2. DOMAIN C = DOMAIN acks[n]
    OBVIOUS
  <2>. HIDE DEF C
  <2>3. Pending(n, C, probe[n], relays[n])
    BY <1>2, <2>2 DEF Pending
  <2>. QED
    BY Zenon, <1>2, <2>1, <2>3, AckStep
<1>5. CASE OnPingReq(n, msg, s, rest)
  <2>0. PICK k \in NextSeq(n) :
          /\ acks' = [acks EXCEPT ![n] = Awaiting(@, k)]
          /\ relays' = [relays EXCEPT ![n] = @ \cup
                          {[requester |-> msg.from, orig |-> msg.seq, seq |-> k]}]
    BY Zenon, <1>5 DEF OnPingReq
  <2>. DEFINE r == [requester |-> msg.from, orig |-> msg.seq, seq |-> k]
              C == Awaiting(acks[n], k)
              R == relays[n] \cup {r}
  <2>1. /\ up' = up /\ acks' = [acks EXCEPT ![n] = C]
        /\ probe' = [probe EXCEPT ![n] = probe[n]] /\ relays' = [relays EXCEPT ![n] = R]
    BY Zenon, <1>2, <1>5, <2>0 DEF OnPingReq
  <2>2. k \in Nat \ DOMAIN acks[n]
    BY NextSeqFresh
  <2>3. r.seq = k
    OBVIOUS
  <2>. HIDE DEF r
  <2>4. Pending(n, C, probe[n], R)
    BY <1>2, <2>2, <2>3, RelayBegins
  <2>. HIDE DEF C, R
  <2>. QED
    BY Zenon, <1>2, <2>1, <2>4, AckStep
<1>. QED
  BY <1>1, <1>3, <1>4, <1>5

(* The end of a relay keeps AckInv. *)
LEMMA RelayEndAcks ==
    ASSUME SwimInv, NEW n \in Node, RelayEnd(n)
    PROVE  AckInv'
<1>1. PICK r \in relays[n] : /\ relays' = [relays EXCEPT ![n] = @ \ {r}]
                             /\ acks' = [acks EXCEPT ![n] = Without(@, r.seq)]
  BY Zenon DEF RelayEnd
<1>. DEFINE C == Without(acks[n], r.seq)
            R == relays[n] \ {r}
<1>2. /\ AckInv /\ n \in up /\ up' = up /\ Pending(n, acks[n], probe[n], relays[n])
      /\ probe[n] \in Probes /\ probe \in [Node -> Probes] /\ probe' = probe
      /\ acks = [o \in Node |-> acks[o]] /\ relays = [o \in Node |-> relays[o]]
  BY Zenon DEF SwimInv, AckInv, AcksOf, RelayEnd
<1>3. /\ acks' = [acks EXCEPT ![n] = C] /\ relays' = [relays EXCEPT ![n] = R]
      /\ probe' = [probe EXCEPT ![n] = probe[n]]
  BY <1>1, <1>2
<1>4. Pending(n, C, probe[n], R)
  BY <1>2, RelayEnds
<1>. HIDE DEF C, R
<1>. QED
  BY Zenon, <1>2, <1>3, <1>4, AckStep

(* A crash keeps AckInv: the tasks and the pending acks of the node are    *)
(* gone.                                                                   *)
LEMMA CrashAcks ==
    ASSUME SwimInv, NEW n \in Node, Crash(n)
    PROVE  AckInv'
<1>1. /\ AckInv /\ up' = up \ {n} /\ acks' = [acks EXCEPT ![n] = <<>>]
      /\ probe' = [probe EXCEPT ![n] = Idle] /\ relays' = [relays EXCEPT ![n] = {}]
  BY DEF SwimInv, Crash
<1>2. IsFiniteSet({}) /\ DOMAIN <<>> = {}
  BY FS_EmptySet
<1>3. Pending(n, <<>>, Idle, {})
  BY <1>2, IdleProbe DEF Pending
<1>. QED
  BY Zenon, <1>1, <1>3, IdleProbe, AckStep

(* No acks are pending at the start. *)
LEMMA InitAcks ==
    ASSUME NEW Late, InitWith(Late)
    PROVE  AckInv
<1>1. /\ up = Node /\ acks = [n \in Node |-> <<>>] /\ probe = [n \in Node |-> Idle]
      /\ relays = [n \in Node |-> {}]
  BY Zenon DEF InitWith
<1>2. IsFiniteSet({}) /\ DOMAIN <<>> = {}
  BY FS_EmptySet
<1>3. ASSUME NEW n \in Node
      PROVE  AcksOf(n)
  <2>1. Pending(n, <<>>, Idle, {})
    BY <1>2, IdleProbe DEF Pending
  <2>2. acks[n] = <<>> /\ probe[n] = Idle /\ relays[n] = {}
    BY <1>1
  <2>. QED
    BY <2>1, <2>2 DEF AcksOf
<1>. QED
  BY <1>1, <1>3, IdleProbe DEF AckInv

-----------------------------------------------------------------------------
(* The numbers under way *)

(* After a send of a numbered message all in flight are numbered. *)
LEMMA SendSeq ==
    ASSUME SwimInv, NEW rest, rest \subseteq net, NEW x, x.seq \in Nat, Send(rest, x)
    PROVE  \A y \in net' : y.seq \in Nat
BY SendsAtMost DEF SwimInv, SeqInv

(* A number that is drawn is a number, and so are those left in stale. *)
LEMMA DrawSeq ==
    ASSUME SwimInv, NEW n \in Node, NEW seq \in NextSeq(n), Draw(n, seq)
    PROVE  seq \in Nat /\ stale' \in [Node -> SUBSET Nat]
BY NextSeqFresh DEF SwimInv, SeqInv, Draw

(* Every step keeps SeqInv. *)
LEMMA SeqStep ==
    ASSUME SwimInv, [Next]_vars
    PROVE  SeqInv'
<1>0. /\ stale \in [Node -> SUBSET Nat] /\ \A x \in net : x.seq \in Nat
      /\ \A n \in Node : probe[n].seq \in Nat
      /\ \A n \in Node : \A r \in relays[n] : r.orig \in Nat
      /\ relays = [o \in Node |-> relays[o]]
  BY DEF SwimInv, SeqInv, AckInv, Probes
<1>1. ASSUME NEW n \in Node, NEW m \in Node, ProbeStart(n, m)  PROVE SeqInv'
  <2>1. PICK seq \in NextSeq(n), S \in Picks(queue[n], MaxPiggyback) :
          Draw(n, seq) /\ Send(net, Message("Ping", seq, n, m, NoNode, Updates(queue[n], S)))
    BY Zenon, <1>1 DEF ProbeStart
  <2>. DEFINE x == Message("Ping", seq, n, m, NoNode, Updates(queue[n], S))
  <2>2. seq \in Nat /\ stale' \in [Node -> SUBSET Nat] /\ relays' = relays
    BY Zenon, <1>1, <2>1, DrawSeq DEF ProbeStart
  <2>3. x.seq \in Nat
    BY <2>2 DEF Message
  <2>. HIDE DEF x
  <2>4. \A y \in net' : y.seq \in Nat
    BY <2>1, <2>3, SendSeq DEF x
  <2>. QED
    BY <1>0, <2>2, <2>4 DEF SeqInv
<1>2. ASSUME NEW n \in Node, NEW m \in Node, SendPingReq(n, m)  PROVE SeqInv'
  <2>1. PICK S : Send(net, Message("PingReq", probe[n].seq, n, m, probe[n].target,
                                   Updates(queue[n], S)))
    BY Zenon, <1>2 DEF SendPingReq
  <2>. DEFINE x == Message("PingReq", probe[n].seq, n, m, probe[n].target,
                           Updates(queue[n], S))
  <2>2. UNCHANGED <<stale, relays>>
    BY <1>2 DEF SendPingReq
  <2>3. x.seq \in Nat
    BY <1>0 DEF Message
  <2>. HIDE DEF x
  <2>4. \A y \in net' : y.seq \in Nat
    BY Zenon, <2>1, <2>3, SendSeq DEF x
  <2>. QED
    BY <1>0, <2>2, <2>4 DEF SeqInv
<1>3. ASSUME NEW n \in Node, StartIndirect(n)  PROVE SeqInv'
  <2>1. PICK seq \in NextSeq(n) : Draw(n, seq)
    BY Zenon, <1>3 DEF StartIndirect
  <2>2. stale' \in [Node -> SUBSET Nat] /\ UNCHANGED <<relays, net>>
    BY <1>3, <2>1, DrawSeq DEF StartIndirect
  <2>. QED
    BY <1>0, <2>2 DEF SeqInv
<1>4. ASSUME NEW n \in Node, Receive(n)  PROVE SeqInv'
  <2>1. PICK msg \in net, rest \in SUBSET net :
          \/ OnPing(n, msg, Heard(n, msg), rest)
          \/ OnAck(n, msg, Heard(n, msg), rest)
          \/ OnPingReq(n, msg, Heard(n, msg), rest)
    BY <1>4 DEF Receive
  <2>. DEFINE s == Heard(n, msg)
  <2>2. CASE OnPing(n, msg, s, rest)
    <3>. HIDE DEF s
    <3>1. PICK S : Send(rest, Message("Ack", msg.seq, n, msg.from, NoNode,
                                      Updates(s.queue, S)))
      BY Zenon, <2>2 DEF OnPing
    <3>. DEFINE x == Message("Ack", msg.seq, n, msg.from, NoNode, Updates(s.queue, S))
    <3>2. UNCHANGED <<stale, relays>>
      BY <2>2 DEF OnPing
    <3>3. x.seq \in Nat
      BY <1>0 DEF Message
    <3>. HIDE DEF x
    <3>4. \A y \in net' : y.seq \in Nat
      BY <3>1, <3>3, SendSeq DEF x
    <3>. QED
      BY <1>0, <3>2, <3>4 DEF SeqInv
  <2>3. CASE OnAck(n, msg, s, rest)
    <3>1. UNCHANGED <<stale, relays>> /\ net' = rest
      BY <2>3 DEF OnAck
    <3>. QED
      BY <1>0, <3>1 DEF SeqInv
  <2>4. CASE OnPingReq(n, msg, s, rest)
    <3>. HIDE DEF s
    <3>1. PICK seq \in NextSeq(n) :
            /\ Draw(n, seq)
            /\ relays' = [relays EXCEPT ![n] = @ \cup
                            {[requester |-> msg.from, orig |-> msg.seq, seq |-> seq]}]
            /\ Send(rest, Message("Ping", seq, n, msg.target, NoNode, {}))
      BY Zenon, <2>4 DEF OnPingReq
    <3>. DEFINE x == Message("Ping", seq, n, msg.target, NoNode, {})
    <3>2. seq \in Nat /\ stale' \in [Node -> SUBSET Nat] /\ msg.seq \in Nat
      BY <1>0, <3>1, DrawSeq
    <3>3. x.seq \in Nat
      BY <3>2 DEF Message
    <3>. HIDE DEF x
    <3>4. \A y \in net' : y.seq \in Nat
      BY <3>1, <3>3, SendSeq DEF x
    <3>5. \A o \in Node : \A r \in relays'[o] : r.orig \in Nat
      BY <1>0, <3>1, <3>2
    <3>. QED
      BY <3>2, <3>4, <3>5 DEF SeqInv
  <2>. QED
    BY <2>1, <2>2, <2>3, <2>4
<1>5. ASSUME NEW n \in Node, RelayEnd(n)  PROVE SeqInv'
  <2>1. PICK r \in relays[n] :
          /\ IF acks[n][r.seq] THEN Send(net, Message("Ack", r.orig, n, r.requester, NoNode, {}))
             ELSE net' = net
          /\ relays' = [relays EXCEPT ![n] = @ \ {r}]
    BY Zenon, <1>5 DEF RelayEnd
  <2>. DEFINE x == Message("Ack", r.orig, n, r.requester, NoNode, {})
  <2>2. stale' = stale /\ r.orig \in Nat
    BY <1>0, <1>5 DEF RelayEnd
  <2>3. x.seq \in Nat /\ (Send(net, x) \/ net' = net)
    BY Zenon, <2>1, <2>2 DEF Message
  <2>. HIDE DEF x
  <2>4. \A y \in net' : y.seq \in Nat
    BY <1>0, <2>3, SendSeq
  <2>5. \A o \in Node : \A t \in relays'[o] : t.orig \in Nat
    BY <1>0, <2>1
  <2>. QED
    BY <1>0, <2>2, <2>4, <2>5 DEF SeqInv
<1>6. ASSUME NEW n \in Node, Crash(n)  PROVE SeqInv'
  <2>1. /\ stale' = [stale EXCEPT ![n] = Outstanding(n)] /\ net' = net
        /\ relays' = [relays EXCEPT ![n] = {}]
    BY <1>6 DEF Crash
  <2>2. Outstanding(n) \subseteq Nat
    BY <1>0 DEF Outstanding
  <2>3. \A o \in Node : \A t \in relays'[o] : t.orig \in Nat
    BY <1>0, <2>1
  <2>. QED
    BY <1>0, <2>1, <2>2, <2>3 DEF SeqInv
<1>7. ASSUME NEW n \in Node, \/ DirectAcked(n) \/ IndirectAcked(n) \/ Suspect(n)
                              \/ Reap(n) \/ Restart(n)
      PROVE  SeqInv'
  <2>1. UNCHANGED <<stale, relays, net>>
    BY Zenon, <1>7 DEF DirectAcked, IndirectAcked, Suspect, Reap, Restart
  <2>. QED
    BY <1>0, <2>1 DEF SeqInv
<1>8. CASE Lose \/ UNCHANGED vars
  <2>1. UNCHANGED <<stale, relays>> /\ net' \subseteq net
    BY <1>8 DEF Lose, vars
  <2>. QED
    BY <1>0, <2>1 DEF SeqInv
<1>. QED
  BY Zenon, <1>1, <1>2, <1>3, <1>4, <1>5, <1>6, <1>7, <1>8 DEF Next

-----------------------------------------------------------------------------
(* The invariant, and what it gives *)

(* Every step keeps the invariant and no record of a running node gets     *)
(* older.                                                                  *)
LEMMA SwimStep ==
    ASSUME SwimInv, [Next]_vars
    PROVE  SwimInv' /\ \A o \in up \cap up' : Follows(members[o], members'[o])
<1>. USE DEF SwimInv
<1>0. SeqInv'
  BY SeqStep
<1>1. ASSUME NEW n \in Node, NEW m \in Node, ProbeStart(n, m)
      PROVE  SwimInv' /\ \A o \in up : Follows(members[o], members'[o])
  <2>1. n \in up /\ UNCHANGED <<up, members, onRing, incarnation>>
    BY Zenon, <1>1 DEF ProbeStart
  <2>2. PICK seq \in NextSeq(n), S \in Picks(queue[n], MaxPiggyback) :
          /\ queue' = [queue EXCEPT ![n] = Counted(@, S)]
          /\ Send(net, Message("Ping", seq, n, m, NoNode, Updates(queue[n], S)))
    BY Zenon, <1>1 DEF ProbeStart
  <2>3. ViewInv' /\ \A o \in up : Follows(members[o], members'[o])
    BY Zenon, <2>1, <2>2, PiggybackStep
  <2>. QED
    BY Zenon, <1>0, <1>1, <2>3, ProbeStartAcks
<1>2. ASSUME NEW n \in Node, NEW m \in Node, SendPingReq(n, m)
      PROVE  SwimInv' /\ \A o \in up : Follows(members[o], members'[o])
  <2>1. n \in up /\ UNCHANGED <<up, members, onRing, incarnation>>
    BY <1>2 DEF SendPingReq
  <2>2. PICK S \in Picks(queue[n], MaxPiggyback) :
          /\ queue' = [queue EXCEPT ![n] = Counted(@, S)]
          /\ Send(net, Message("PingReq", probe[n].seq, n, m, probe[n].target,
                               Updates(queue[n], S)))
    BY Zenon, <1>2 DEF SendPingReq
  <2>3. ViewInv' /\ \A o \in up : Follows(members[o], members'[o])
    BY Zenon, <2>1, <2>2, PiggybackStep
  <2>. QED
    BY Zenon, <1>0, <1>2, <2>3, SendPingReqAcks
<1>3. ASSUME NEW n \in Node, DirectAcked(n) \/ IndirectAcked(n)
      PROVE  SwimInv' /\ \A o \in up : Follows(members[o], members'[o])
  <2>1. ViewInv' /\ \A o \in up : Follows(members[o], members'[o])
    BY Zenon, <1>3, NoViewStep DEF DirectAcked, IndirectAcked
  <2>2. AckInv'
    BY Zenon, <1>3, ProbeOverAcks DEF DirectAcked, IndirectAcked
  <2>. QED
    BY Zenon, <1>0, <2>1, <2>2
<1>4. ASSUME NEW n \in Node, StartIndirect(n)
      PROVE  SwimInv' /\ \A o \in up : Follows(members[o], members'[o])
  <2>1. ViewInv' /\ \A o \in up : Follows(members[o], members'[o])
    BY <1>4, NoViewStep DEF StartIndirect
  <2>. QED
    BY Zenon, <1>0, <1>4, <2>1, StartIndirectAcks
<1>5. ASSUME NEW n \in Node, Suspect(n)
      PROVE  SwimInv' /\ \A o \in up : Follows(members[o], members'[o])
  <2>1. AckInv'
    BY Zenon, <1>5, ProbeOverAcks DEF Suspect
  <2>. QED
    BY <1>0, <1>5, <2>1, SuspectView
<1>6. ASSUME NEW n \in Node, Reap(n)
      PROVE  SwimInv' /\ \A o \in up : Follows(members[o], members'[o])
  <2>1. AckInv'
    BY <1>6, NoAckStep DEF Reap
  <2>. QED
    BY <1>0, <1>6, <2>1, ReapView
<1>7. ASSUME NEW n \in Node, Receive(n)
      PROVE  SwimInv' /\ \A o \in up : Follows(members[o], members'[o])
  BY <1>0, <1>7, ReceiveView, ReceiveAcks
<1>8. ASSUME NEW n \in Node, RelayEnd(n)
      PROVE  SwimInv' /\ \A o \in up : Follows(members[o], members'[o])
  BY <1>0, <1>8, RelayView, RelayEndAcks
<1>9. ASSUME NEW n \in Node, Crash(n)
      PROVE  SwimInv' /\ \A o \in up \cap up' : Follows(members[o], members'[o])
  BY <1>0, <1>9, CrashView, CrashAcks
<1>10. ASSUME NEW n \in Node, Restart(n)
       PROVE  SwimInv' /\ \A o \in up \cap up' : Follows(members[o], members'[o])
  <2>1. AckInv'
    BY <1>10, NoAckStep DEF Restart
  <2>. QED
    BY <1>0, <1>10, <2>1, RestartView
<1>11. CASE Lose \/ UNCHANGED vars
  <2>1. ViewInv' /\ \A o \in up : Follows(members[o], members'[o])
    BY Zenon, <1>11, NoViewStep DEF Lose, vars
  <2>2. AckInv'
    BY <1>11, NoAckStep DEF Lose, vars
  <2>. QED
    BY <1>0, <2>1, <2>2
<1>. QED
  BY Zenon, <1>1, <1>2, <1>3, <1>4, <1>5, <1>6, <1>7, <1>8, <1>9, <1>10, <1>11 DEF Next

(* The invariant holds throughout, whoever starts late. *)
LEMMA SwimInvHolds ==
    ASSUME NEW Late \in SUBSET Node
    PROVE  InitWith(Late) /\ [][Next]_vars => []SwimInv
<1>1. InitWith(Late) => SwimInv
  <2>1. InitWith(Late) => SeqInv
    BY Zenon DEF InitWith, SeqInv
  <2>. QED
    BY <2>1, InitView, InitAcks DEF SwimInv
<1>2. SwimInv /\ [Next]_vars => SwimInv'
  BY Zenon, SwimStep
<1>. QED
  BY <1>1, <1>2, PTL

(* The invariant holds throughout, from both initial states. *)
LEMMA InvHolds == (Spec => []SwimInv) /\ (FormedSpec => []SwimInv)
<1>. DEFINE All == Node
            None == {}
<1>1. All \in SUBSET Node /\ None \in SUBSET Node
  OBVIOUS
<1>2. Init = InitWith(All) /\ FormedInit = InitWith(None)
  BY DEF Init, FormedInit
<1>. HIDE DEF All, None
<1>3. InitWith(All) /\ [][Next]_vars => []SwimInv
  BY <1>1, SwimInvHolds
<1>4. InitWith(None) /\ [][Next]_vars => []SwimInv
  BY <1>1, SwimInvHolds
<1>5. (Init => InitWith(All)) /\ (FormedInit => InitWith(None))
  BY <1>2
<1>. QED
  BY <1>3, <1>4, <1>5, PTL DEF Spec, FormedSpec

(* The pending acks are as many as the relays and the probe. *)
LEMMA AcksCounted ==
    ASSUME NEW n, NEW A, NEW p, NEW R, Pending(n, A, p, R)
    PROVE  Cardinality(DOMAIN A) = Cardinality(R) + (IF p = Idle THEN 0 ELSE 1)
<1>. DEFINE S == {r.seq : r \in R}
            f == [r \in R |-> r.seq]
<1>1. /\ IsFiniteSet(R) /\ \A r \in R, t \in R : r.seq = t.seq => r = t
      /\ DOMAIN A = S \cup (IF p = Idle THEN {} ELSE {p.seq})
      /\ p # Idle => p.seq \notin S
  BY Zenon DEF Pending
<1>2. f \in Bijection(R, S)
  BY Zenon, <1>1 DEF Bijection, Injection, Surjection, IsInjective
<1>. HIDE DEF S, f
<1>3. IsFiniteSet(S) /\ Cardinality(S) = Cardinality(R)
  BY Zenon, <1>1, <1>2, FS_Bijection DEF ExistsBijection
<1>4. Cardinality(S) \in Nat
  BY <1>3, FS_CardinalityType
<1>5. CASE p = Idle
  <2>1. DOMAIN A = S
    BY <1>1, <1>5
  <2>. QED
    BY <1>3, <1>4, <1>5, <2>1
<1>6. CASE p # Idle
  <2>1. DOMAIN A = S \cup {p.seq} /\ p.seq \notin S
    BY <1>1, <1>6
  <2>2. Cardinality(S \cup {p.seq}) = Cardinality(S) + 1
    BY <1>3, <2>1, FS_AddElement
  <2>. QED
    BY Zenon, <1>3, <1>4, <1>6, <2>1, <2>2
<1>. QED
  BY <1>5, <1>6

(* A number below one within the bound of the model is an incarnation. *)
LEMMA IncarnationRange ==
    ASSUME NEW i \in Nat, NEW c \in Nat, i <= c, c <= MaxIncarnation
    PROVE  i \in Incarnation
BY SwimAssumption DEF Incarnation

(* The invariant implies the type invariant. *)
LEMMA InvTypes ==
    ASSUME SwimInv
    PROVE  TypeOK
<1>1. /\ ViewInv /\ AckInv /\ MaxIncarnation \in Nat /\ Bound \in [Node -> Nat]
      /\ \A m \in Node : Bound[m] <= MaxIncarnation
  BY BoundType, SwimAssumption DEF SwimInv
<1>2. ASSUME NEW n \in up
      PROVE  /\ n \in Node /\ IsList(members[n]) /\ IsQueue(queue[n])
             /\ onRing[n] \subseteq DOMAIN members[n]
             /\ incarnation[n] \in Nat /\ incarnation[n] <= MaxIncarnation
             /\ \A m \in DOMAIN members[n] : members[n][m].inc <= Cap(n, Bound, incarnation[n], m)
             /\ \A m \in DOMAIN queue[n] : queue[n][m].update.inc <= Cap(n, Bound, incarnation[n], m)
  <2>1. n \in Node /\ Sound(n, Bound, members[n], Local(n)) /\ incarnation[n] \in Incarnation
    BY <1>1 DEF ViewInv
  <2>2. IsList(members[n]) /\ IsQueue(queue[n])
    BY Zenon, <1>1, <2>1, ListSet DEF ViewInv, Sound, Local
  <2>3. onRing[n] \subseteq DOMAIN members[n]
    BY Zenon, <2>1 DEF Sound, Local, RingOf
  <2>4. incarnation[n] \in Nat /\ incarnation[n] <= MaxIncarnation
    <3>1. incarnation[n] \in Incarnation /\ MaxIncarnation \in Nat
      BY Zenon, <1>1, <2>1
    <3>. QED
      BY <3>1 DEF Incarnation
  <2>5. /\ \A m \in DOMAIN members[n] : members[n][m].inc <= Cap(n, Bound, incarnation[n], m)
        /\ \A m \in DOMAIN queue[n] : queue[n][m].update.inc <= Cap(n, Bound, incarnation[n], m)
    BY Zenon, <2>1 DEF Sound, Local
  <2>. QED
    BY Zenon, <2>1, <2>2, <2>3, <2>4, <2>5
<1>3. \A n \in up, m \in Node : /\ Cap(n, Bound, incarnation[n], m) \in Nat
                                /\ Cap(n, Bound, incarnation[n], m) <= MaxIncarnation
  BY Zenon, <1>1, <1>2 DEF Cap
<1>4. ASSUME NEW n \in up
      PROVE  /\ DOMAIN members[n] \subseteq Node
             /\ \A m \in DOMAIN members[n] :
                  members[n][m] \in [port : Nat, state : State, inc : Incarnation]
             /\ \A m \in DOMAIN queue[n] :
                  /\ queue[n][m].update \in UpdateType /\ queue[n][m].update.node = m
                  /\ queue[n][m].count \in 0 .. MaxTransmissions - 1
  <2>1. DOMAIN members[n] \subseteq Node /\ \A m \in DOMAIN members[n] : members[n][m] \in Member
    BY Zenon, <1>2 DEF IsList
  <2>2. \A m \in DOMAIN queue[n] : /\ m \in Node /\ queue[n][m] \in Entry
                                   /\ queue[n][m].update.node = m
    BY Zenon, <1>2 DEF IsQueue
  <2>3. ASSUME NEW m \in DOMAIN members[n]
        PROVE  members[n][m] \in [port : Nat, state : State, inc : Incarnation]
    <3>1. m \in Node /\ members[n][m] \in Member
      BY <2>1
    <3>2. members[n][m].inc \in Nat /\ members[n][m].inc <= Cap(n, Bound, incarnation[n], m)
      BY Zenon, <1>2, <3>1 DEF Member
    <3>3. members[n][m].inc \in Incarnation
      BY Zenon, <1>3, <3>1, <3>2, IncarnationRange
    <3>. QED
      BY <3>1, <3>3 DEF Member
  <2>4. ASSUME NEW m \in DOMAIN queue[n]
        PROVE  queue[n][m].update \in UpdateType /\ queue[n][m].count \in 0 .. MaxTransmissions - 1
    <3>. DEFINE u == queue[n][m].update
    <3>1. m \in Node /\ u \in Told /\ queue[n][m].count \in 0 .. MaxTransmissions - 1
      BY <2>2 DEF Entry
    <3>2. u.inc <= Cap(n, Bound, incarnation[n], m)
      BY Zenon, <1>2
    <3>. HIDE DEF u
    <3>3. u.inc \in Incarnation
      <4>1. u.inc \in Nat
        BY <3>1 DEF Told
      <4>. QED
        BY Zenon, <1>3, <3>1, <3>2, <4>1, IncarnationRange
    <3>4. u \in UpdateType
      BY Zenon, <3>1, <3>3 DEF UpdateType, Told, TypeRank
    <3>. QED
      BY <3>1, <3>4 DEF u
  <2>. QED
    BY Zenon, <2>1, <2>2, <2>3, <2>4
<1>5. ASSUME NEW n \in Node
      PROVE  /\ DOMAIN members[n] \subseteq Node
             /\ \A m \in DOMAIN members[n] :
                  members[n][m] \in [port : Nat, state : State, inc : Incarnation]
             /\ onRing[n] \subseteq DOMAIN members[n]
             /\ \A m \in DOMAIN queue[n] :
                  /\ queue[n][m].update \in UpdateType /\ queue[n][m].update.node = m
                  /\ queue[n][m].count \in 0 .. MaxTransmissions - 1
             /\ incarnation[n] \in Incarnation
  <2>1. incarnation[n] \in Incarnation
    BY <1>1 DEF ViewInv
  <2>2. CASE n \in up
    BY Zenon, <1>2, <1>4, <2>1, <2>2
  <2>3. CASE n \notin up
    <3>1. members[n] = <<>> /\ onRing[n] = {} /\ queue[n] = <<>>
      BY <1>1, <2>3 DEF ViewInv
    <3>2. DOMAIN members[n] = {} /\ DOMAIN queue[n] = {}
      BY <3>1
    <3>. QED
      BY Zenon, <2>1, <3>1, <3>2
  <2>. QED
    BY Zenon, <2>2, <2>3
<1>6. ASSUME NEW n \in Node
      PROVE  /\ DOMAIN acks[n] = {r.seq : r \in relays[n]}
                                   \cup (IF probe[n] = Idle THEN {} ELSE {probe[n].seq})
             /\ Cardinality(DOMAIN acks[n]) =
                  Cardinality(relays[n]) + (IF probe[n] = Idle THEN 0 ELSE 1)
  <2>1. Pending(n, acks[n], probe[n], relays[n])
    BY <1>1 DEF AckInv, AcksOf
  <2>2. DOMAIN acks[n] = {r.seq : r \in relays[n]}
                           \cup (IF probe[n] = Idle THEN {} ELSE {probe[n].seq})
    BY Zenon, <2>1 DEF Pending
  <2>. QED
    BY Zenon, <2>1, <2>2, AcksCounted
<1>7. ASSUME NEW n \in Node, n \notin up
      PROVE  members[n] = <<>> /\ queue[n] = <<>> /\ acks[n] = <<>>
  BY Zenon, <1>1, <1>7 DEF ViewInv, AckInv, AcksOf
<1>8. ASSUME NEW x \in net, NEW u \in x.updates
      PROVE  u \in UpdateType
  <2>1. u \in Told /\ u.inc <= Bound[u.node]
    BY Zenon, <1>1 DEF ViewInv, Mail
  <2>2. u.node \in Node /\ u.inc \in Nat
    BY <2>1 DEF Told
  <2>3. u.inc \in Incarnation
    BY <1>1, <2>1, <2>2 DEF Incarnation
  <2>. QED
    BY Zenon, <2>1, <2>3 DEF UpdateType, Told, TypeRank
<1>9. up \subseteq Node
  BY <1>1 DEF ViewInv
<1>. QED
  BY Zenon, <1>5, <1>6, <1>7, <1>8, <1>9 DEF TypeOK

(* The records, queues, pending acks and messages of every node have their *)
(* types, however many nodes there are and whatever the network does: each *)
(* pending sequence number belongs to the probe or to one relay task       *)
(* (swim_protocol.cpp).                                                    *)
THEOREM SwimTypes == (Spec => []TypeOK) /\ (FormedSpec => []TypeOK)
<1>1. SwimInv => TypeOK
  BY InvTypes
<1>. QED
  BY <1>1, InvHolds, PTL

(* A running node holds itself Alive, at its own incarnation and on its    *)
(* own ring, whatever is said of it (apply_updates, swim_protocol.cpp      *)
(* 238-247).                                                               *)
THEOREM SelfStaysAlive == (Spec => []SelfAlive) /\ (FormedSpec => []SelfAlive)
<1>1. SwimInv => SelfAlive
  <2>. SUFFICES ASSUME SwimInv, NEW n \in up
                PROVE  /\ n \in DOMAIN members[n] /\ n \in onRing[n]
                       /\ members[n][n].state = "Alive"
                       /\ members[n][n].inc = incarnation[n]
    BY Zenon DEF SelfAlive
  <2>1. Sound(n, Bound, members[n], Local(n))
    BY Zenon DEF SwimInv, ViewInv
  <2>. QED
    BY Zenon, <2>1 DEF Sound, Local, RingOf
<1>. QED
  BY <1>1, InvHolds, PTL

(* The ring of a running node holds each member that it thinks Alive and   *)
(* none that it thinks Dead or Left (the callback of main.cpp 83-97).      *)
THEOREM RingsFollow == (Spec => []RingFollowsMembers) /\ (FormedSpec => []RingFollowsMembers)
<1>1. SwimInv => RingFollowsMembers
  <2>. SUFFICES ASSUME SwimInv, NEW n \in up, NEW m \in DOMAIN members[n]
                PROVE  /\ members[n][m].state = "Alive" => m \in onRing[n]
                       /\ members[n][m].state \in {"Dead", "Left"} => m \notin onRing[n]
    BY Zenon DEF RingFollowsMembers
  <2>1. Sound(n, Bound, members[n], Local(n))
    BY Zenon DEF SwimInv, ViewInv
  <2>. QED
    BY Zenon, <2>1 DEF Sound, Local, RingOf
<1>. QED
  BY <1>1, InvHolds, PTL

(* While no node restarts, nobody knows a later incarnation of a running   *)
(* node than the node itself, in a list, a queued update or a message: the *)
(* next incarnation refutes every suspicion (swim_protocol.cpp 240-246).   *)
THEOREM IncarnationsAreOwned ==
    ASSUME "restart" \notin Faults
    PROVE  (Spec => []IncarnationsOwned) /\ (FormedSpec => []IncarnationsOwned)
<1>1. SwimInv => IncarnationsOwned
  <2>. SUFFICES ASSUME SwimInv, NEW m \in up
                PROVE  /\ \A n \in up :
                            /\ m \in DOMAIN members[n] => members[n][m].inc <= incarnation[m]
                            /\ m \in DOMAIN queue[n] =>
                                 queue[n][m].update.inc <= incarnation[m]
                       /\ \A x \in net : \A u \in x.updates :
                            u.node = m => u.inc <= incarnation[m]
    BY Zenon DEF IncarnationsOwned
  <2>1. m \in Node /\ Bound[m] = incarnation[m]
    BY Zenon DEF SwimInv, ViewInv, Bound
  <2>2. ASSUME NEW n \in up
        PROVE  /\ m \in DOMAIN members[n] => members[n][m].inc <= incarnation[m]
               /\ m \in DOMAIN queue[n] => queue[n][m].update.inc <= incarnation[m]
    <3>1. Sound(n, Bound, members[n], Local(n))
      BY Zenon DEF SwimInv, ViewInv
    <3>2. Cap(n, Bound, incarnation[n], m) = incarnation[m]
      BY <2>1 DEF Cap
    <3>. QED
      BY Zenon, <3>1, <3>2 DEF Sound, Local
  <2>3. ASSUME NEW x \in net, NEW u \in x.updates, u.node = m
        PROVE  u.inc <= incarnation[m]
    BY Zenon, <2>1, <2>3 DEF SwimInv, ViewInv, Mail
  <2>. QED
    BY Zenon, <2>2, <2>3
<1>. QED
  BY <1>1, InvHolds, PTL

(* A member that a running node holds Suspect or Dead is held Alive again  *)
(* only at a later incarnation, and no member is ever forgotten, whatever  *)
(* acks, joins and updates are late, lost, reordered or duplicated         *)
(* (member_list.cpp 7-57).                                                 *)
THEOREM StaleNewsIgnored == (Spec => NoStaleRevival) /\ (FormedSpec => NoStaleRevival)
<1>. DEFINE Kept == \A n \in up \cap up' : \A m \in DOMAIN members[n] :
                      /\ m \in DOMAIN members'[n]
                      /\ (members[n][m].state # "Alive" /\ members'[n][m].state = "Alive")
                           => members'[n][m].inc > members[n][m].inc
<1>1. SwimInv /\ [Next]_vars => [Kept]_vars
  <2>. SUFFICES ASSUME SwimInv, [Next]_vars, NEW n \in up \cap up', NEW m \in DOMAIN members[n]
                PROVE  /\ m \in DOMAIN members'[n]
                       /\ (members[n][m].state # "Alive" /\ members'[n][m].state = "Alive")
                            => members'[n][m].inc > members[n][m].inc
    BY Zenon
  <2>1. SwimInv' /\ Follows(members[n], members'[n])
    BY Zenon, SwimStep
  <2>2. n \in Node /\ IsList(members[n]) /\ IsList(members'[n])
    BY Zenon, <2>1, ListSet DEF SwimInv, ViewInv
  <2>3. m \in DOMAIN members'[n] /\ NotOlder(members[n][m], members'[n][m])
    BY Zenon, <2>1 DEF Follows
  <2>4. members[n][m] \in Member /\ members'[n][m] \in Member
    BY Zenon, <2>2, <2>3 DEF IsList
  <2>5. members[n][m].state \in State /\ members'[n][m].state \in State
    BY Zenon, <2>4 DEF Member
  <2>6. ASSUME members[n][m].state # "Alive", members'[n][m].state = "Alive"
        PROVE  members'[n][m].inc > members[n][m].inc
    <3>1. StateRank[members[n][m].state] > StateRank["Alive"]
      BY Zenon, <2>5, <2>6, Ranks
    <3>2. StateRank[members[n][m].state] \in Nat /\ StateRank["Alive"] \in Nat
      BY Zenon, <2>5, Ranks
    <3>3. ~(StateRank[members'[n][m].state] >= StateRank[members[n][m].state])
      BY <2>6, <3>1, <3>2
    <3>. QED
      BY Zenon, <2>3, <3>3 DEF NotOlder
  <2>. QED
    BY Zenon, <2>3, <2>6
<1>2. ([]SwimInv /\ [][Next]_vars) => [][Kept]_vars
  BY <1>1, PTL
<1>. QED
  BY <1>2, InvHolds, PTL DEF Spec, FormedSpec, NoStaleRevival
=============================================================================
