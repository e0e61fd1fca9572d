------------------------------ MODULE SwimInv ------------------------------
(***************************************************************************)
(* The inductive invariant of Swim, SwimInv, and the definitions it is     *)
(* made of: what a node knows is in order (ViewInv), its pending acks      *)
(* belong to its probe and its relays (AckInv), and the sequence numbers   *)
(* under way are numbers (SeqInv).                                         *)
(***************************************************************************)
EXTENDS Swim

(* f folds g over the elements of each subset of S, in the order of ch. *)
IsFold(f, S, T, base, g, ch) ==
    /\ f \in [SUBSET S -> T]
    /\ \A s \in SUBSET S : f[s] = IF s = {} THEN base ELSE g[ch[s]][f[s \ {ch[s]}]]

Member == [port : Nat, state : State, inc : Nat]

IsList(list) == DOMAIN list \subseteq Node /\ list \in [DOMAIN list -> Member]

(* The updates that are ever sent; no node sends Leave. *)
Told == [type : {"Join", "Alive", "Suspect", "Dead"}, node : Node, inc : Nat, port : Nat]

Entry == [update : Told, count : 0 .. MaxTransmissions - 1]

IsQueue(q) ==
    /\ DOMAIN q \subseteq Node /\ q \in [DOMAIN q -> Entry]
    /\ \A m \in DOMAIN q : q[m].update.node = m

(* What replaces a record is of a later incarnation, or of the same and a  *)
(* state that is no better.                                                *)
NotOlder(old, new) ==
    \/ new.inc > old.inc
    \/ new.inc = old.inc /\ StateRank[new.state] >= StateRank[old.state]

Follows(old, new) ==
    \A m \in DOMAIN old : m \in DOMAIN new /\ NotOlder(old[m], new[m])

(* What update_state made of list, asked to give m a state and incarnation. *)
Updated(list, m, state, inc, new) ==
    /\ IsList(new) /\ Follows(list, new)
    /\ DOMAIN new = DOMAIN list
    /\ \A o \in DOMAIN list \ {m} : new[o] = list[o]
    /\ m \in DOMAIN list => \/ new[m].state = state /\ new[m].inc = inc
                            \/ new[m] = list[m]
    /\ m \in DOMAIN list /\ inc > list[m].inc =>
         new[m].state = state /\ new[m].inc = inc

RingOf(list, ring) ==
    /\ ring \subseteq DOMAIN list
    /\ \A m \in DOMAIN list :
         /\ list[m].state = "Alive" => m \in ring
         /\ list[m].state \in {"Dead", "Left"} => m \notin ring

Lists == UNION {[D -> Member] : D \in SUBSET Node}
Queues == UNION {[D -> Entry] : D \in SUBSET Node}

LocalState == [list : Lists, ring : SUBSET Node, queue : Queues, inc : Nat]

(* How late an incarnation of m node n may know: of itself its own, of     *)
(* another what B says.                                                    *)
Cap(n, B, inc, m) == IF m = n THEN inc ELSE B[m]

(* The state s of node n, which once had the list old, is in order: the    *)
(* ring follows the list, n holds itself Alive, no record is older than in *)
(* old, and what is known and told of a node is within bounds.             *)
Sound(n, B, old, s) ==
    /\ s \in LocalState
    /\ RingOf(s.list, s.ring)
    /\ n \in DOMAIN s.list /\ s.list[n].state = "Alive" /\ s.list[n].inc = s.inc
    /\ Follows(old, s.list)
    /\ \A m \in DOMAIN s.list : s.list[m].inc <= Cap(n, B, s.inc, m)
    /\ IsQueue(s.queue)
    /\ \A m \in DOMAIN s.queue : s.queue[m].update.inc <= Cap(n, B, s.inc, m)

(* The queue q keeps, and the message x tells, only updates queued. *)
Retells(queued, q, x) ==
    /\ IsQueue(q)
    /\ \A m \in DOMAIN q : m \in DOMAIN queued /\ q[m].update = queued[m].update
    /\ x.from \in Node
    /\ x.updates \subseteq {queued[m].update : m \in DOMAIN queued}

(* A message that node n may receive. *)
Sensible(n, B, msg) ==
    /\ msg.from \in Node
    /\ msg.updates \subseteq Told /\ IsFiniteSet(msg.updates)
    /\ \A u \in msg.updates : u.node # n => u.inc <= B[u.node]

(* The latest incarnation of a node that others may know. *)
Bound == [m \in Node |-> IF "restart" \notin Faults /\ m \in up THEN incarnation[m]
                         ELSE MaxIncarnation]

Mail(B, x) ==
    /\ x.from \in Node
    /\ x.updates \subseteq Told /\ IsFiniteSet(x.updates)
    /\ \A u \in x.updates : u.inc <= B[u.node]

ViewInv ==
    /\ up \subseteq Node
    /\ members \in [Node -> Lists] /\ onRing \in [Node -> SUBSET Node]
    /\ queue \in [Node -> Queues] /\ incarnation \in [Node -> Incarnation]
    /\ \A n \in up : Sound(n, Bound, members[n], Local(n))
    /\ \A n \in Node \ up : /\ members[n] = <<>> /\ onRing[n] = {}
                            /\ queue[n] = <<>> /\ incarnation[n] = 0
    /\ IsFiniteSet(net)
    /\ \A x \in net : Mail(Bound, x)

(* The invariant of the pending acks: each sequence number that is awaited *)
(* belongs to the probe or to one relay, and nobody probes itself.         *)
Probes == [stage : {"idle", "direct", "indirect"}, target : Node \cup {NoNode},
           seq : Nat, todo : SUBSET Node]

Pending(n, A, p, R) ==
    /\ p.stage = "idle" => p = Idle
    /\ p.stage # "idle" => p.target \in Node \ {n}
    /\ IsFiniteSet(R)
    /\ \A r \in R, t \in R : r.seq = t.seq => r = t
    /\ p # Idle => \A r \in R : r.seq # p.seq
    /\ DOMAIN A = {r.seq : r \in R} \cup (IF p = Idle THEN {} ELSE {p.seq})

AcksOf(n) ==
    /\ Pending(n, acks[n], probe[n], relays[n])
    /\ n \notin up => acks[n] = <<>> /\ probe[n] = Idle /\ relays[n] = {}

AckInv ==
    /\ probe \in [Node -> Probes]
    /\ acks = [n \in Node |-> acks[n]] /\ relays = [n \in Node |-> relays[n]]
    /\ \A n \in Node : AcksOf(n)

SeqInv ==
    /\ stale \in [Node -> SUBSET Nat]
    /\ \A x \in net : x.seq \in Nat
    /\ \A n \in Node : \A r \in relays[n] : r.orig \in Nat

(* The inductive invariant. *)
SwimInv == ViewInv /\ AckInv /\ SeqInv

=============================================================================
