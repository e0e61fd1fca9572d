--------------------------- MODULE LocalStoreInv ---------------------------
(***************************************************************************)
(* The inductive invariant of LocalStore, and the vocabulary of its proofs *)
(* (LocalStoreProofs.tla).                                                 *)
(***************************************************************************)
EXTENDS LocalStore

(* The slots of free lists and of live entries, live mapping the address   *)
(* of each entry to its class.                                             *)
SlotsOf(lists, live) ==
    {<<live[p], 0, p>> : p \in DOMAIN live}
      \cup UNION {{<<c, i, lists[c][i]>> : i \in DOMAIN lists[c]} : c \in Class}

SlotTypes(lists, live) ==
    /\ lists \in [Class -> Seq(Nat)]
    /\ DOMAIN live \subseteq Nat /\ \A p \in DOMAIN live : live[p] \in Class

IsSlot(lists, live, c, i, p) ==
    \/ i = 0 /\ p \in DOMAIN live /\ c = live[p]
    \/ i \in 1 .. Len(lists[c]) /\ p = lists[c][i]

(* The byte b is one of the slot x. *)
Covers(x, b) == x[3] <= b /\ b < x[3] + SlotSize(x[1])

(* The slots of S are a partition of the first n bytes. *)
Tiles(S, n) ==
    /\ S \subseteq Class \X Nat \X Nat
    /\ \A b \in Nat : b < n <=> \E x \in S : Covers(x, b)
    /\ \A b \in Nat : \A x \in S, y \in S : Covers(x, b) /\ Covers(y, b) => x = y

(* The slots of the free lists and of the live entries are the first n     *)
(* bytes of the arena.                                                     *)
Laid(lists, live, n) == SlotTypes(lists, live) /\ Tiles(SlotsOf(lists, live), n)

WithList(lists, c, s) == [lists EXCEPT ![c] = s]

WithEntry(live, p, c) == [q \in DOMAIN live \cup {p} |-> IF q = p THEN c ELSE live[q]]

(* The slots of a page, cut for class c at the address n. *)
Page(c, n) == {<<c, i, n + (i - 1) * SlotSize(c)>> : i \in 1 .. PageSize \div SlotSize(c)}

(* What assign_page puts on the free list of class c, after n pages. *)
CutPage(c, n) ==
    [i \in 1 .. PageSize \div SlotSize(c) |-> n * PageSize + (i - 1) * SlotSize(c)]

(* The ring of c holds the addresses in S, each once, and index its place. *)
Indexed(c, S) ==
    /\ c = [ring |-> c.ring, index |-> c.index, hand |-> c.hand]
    /\ c.ring \in Seq(S) /\ c.index \in [S -> Nat] /\ c.hand \in Nat
    /\ \A i \in 1 .. Len(c.ring) : c.index[c.ring[i]] = i - 1
    /\ \A p \in S : c.index[p] < Len(c.ring) /\ c.ring[c.index[p] + 1] = p

Tracks(c, S) == Indexed(c, S) /\ (c.hand = 0 \/ c.hand < Len(c.ring))

IsRecursion(f, S, a, G, n) ==
    /\ f \in [0 .. n -> S]
    /\ f[0] = a
    /\ \A i \in 1 .. n : f[i] = G[f[i - 1]]

(* The place of the hand i turns after it was at h, on a ring of n. *)
At(h, n, i) == IF h + i < n THEN h + i ELSE h + i - n

SweepStates(D, S) == [hand : Nat, bit : [D -> {0, 1}], victim : S \cup {NoPtr}]

(* A sweep that began with the access bits bit is in state a after i       *)
(* turns: it has a victim, which was read only if all have been, or it has *)
(* cleared the bits of the i entries that the hand has passed.             *)
Sweeping(c, D, S, bit, i, a) ==
    /\ a \in SweepStates(D, S)
    /\ a.hand < Len(c.ring)
    /\ a.victim # NoPtr => /\ a.victim = c.ring[a.hand + 1]
                           /\ bit[a.victim] = 1 => \A q \in S : bit[q] = 1
    /\ a.victim = NoPtr =>
         /\ i <= Len(c.ring) /\ a.hand = At(c.hand, Len(c.ring), i)
         /\ \A j \in 0 .. Len(c.ring) - 1 :
              LET q == c.ring[At(c.hand, Len(c.ring), j) + 1]
              IN  IF j < i THEN a.bit[q] = 0 /\ bit[q] = 1 ELSE a.bit[q] = bit[q]

(* In n turns a hand that is at h passes every place of the ring once. *)
HandPasses(h, n) ==
    /\ At(h, n, 0) = h /\ At(h, n, n) = h
    /\ \A i \in 0 .. n : At(h, n, i) \in Nat /\ At(h, n, i) < n
    /\ \A i \in 0 .. n - 1, j \in 0 .. n - 1 : At(h, n, i) = At(h, n, j) => i = j
    /\ \A i \in 0 .. n - 1 : (At(h, n, i) + 1) % n = At(h, n, i + 1)
    /\ \A m \in 0 .. n - 1 : \E i \in 0 .. n - 1 : At(h, n, i) = m

-----------------------------------------------------------------------------
(* The inductive invariant *)

(* The sweep that ended in state a found a victim in S, if there is one,   *)
(* and one that was read only if all of S was.                             *)
FoundIn(S, D, bit, a) ==
    /\ a.bit \in [D -> {0, 1}]
    /\ S = {} => a.victim = NoPtr
    /\ S # {} => /\ a.victim \in S
                 /\ bit[a.victim] = 1 => \A q \in S : bit[q] = 1

ClassesAt == [p \in DOMAIN entry |-> ClassAt(p)]

Mapped(s) == {map[k] : k \in KeysOf(s)} \ {NoPtr}

Entries == [key : Key, value : Value, bit : {0, 1}]

HeapInv ==
    /\ nextPage \in Nat /\ nextPage <= Capacity \div PageSize
    /\ entry \in [DOMAIN entry -> Entries]
    /\ map \in [Key -> DOMAIN entry \cup {NoPtr}]
    /\ \A k \in Key : map[k] # NoPtr => entry[map[k]].key = k
    /\ \A p \in DOMAIN entry : map[entry[p].key] = p
    /\ clock = [s \in Shard |-> clock[s]]
    /\ \A s \in Shard : Tracks(clock[s], Mapped(s))
    /\ Laid(free, ClassesAt, nextPage * PageSize)

(* The put x in the middle of which a thread is: its key has no entry, and *)
(* of the keys of its shard the store holds what it did or nothing.        *)
InPut(x, m, held) ==
    /\ x = [pc |-> x.pc, key |-> x.key, value |-> x.value, attempt |-> x.attempt,
            before |-> x.before]
    /\ x.pc \in {"allocate", "evict"} /\ x.key \in Key /\ x.value \in Value
    /\ x.before \in [KeysOf(ShardFor[x.key]) -> Value \cup {Absent}]
    /\ m[x.key] = NoPtr
    /\ \A j \in KeysOf(ShardFor[x.key]) : held[j] \in {x.before[j], Absent}

(* No two of the calls c are on one shard. *)
Exclusive(c) ==
    \A t \in Thread, u \in Thread :
        /\ c[t] # Idle /\ c[u] # Idle
        /\ ShardFor[c[t].key] = ShardFor[c[u].key]
        => t = u

CallInv ==
    /\ call = [t \in Thread |-> call[t]]
    /\ \A t \in Thread : call[t] # Idle => InPut(call[t], map, Held)
    /\ Exclusive(call)

StoreInv == HeapInv /\ CallInv

(* Of the calls c, that of t is a put on the shard of k. *)
OnShard(c, t, k) == c[t] # Idle /\ ShardFor[c[t].key] = ShardFor[k]

(* Visible, of the calls c and the values h held. *)
Seen(c, h) ==
    [k \in Key |->
        IF \E t \in Thread : c[t] # Idle /\ ShardFor[c[t].key] = ShardFor[k]
        THEN LET t == CHOOSE t \in Thread :
                          c[t] # Idle /\ ShardFor[c[t].key] = ShardFor[k]
             IN  c[t].before[k]
        ELSE h[k]]

(* A step in which keys of the shard s may lose their entries, no more. *)
Loses(s) ==
    \A j \in Key :
        \/ map'[j] = map[j] /\ Held'[j] = Held[j]
        \/ ShardFor[j] = s /\ map'[j] = NoPtr /\ Held'[j] = Absent
=============================================================================
