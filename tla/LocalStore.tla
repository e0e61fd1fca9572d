----------------------------- MODULE LocalStore -----------------------------
(***************************************************************************)
(* The storage engine of one node (src/src/storage): a sharded map of slab *)
(* entries, a slab allocator shared by the shards, and one clock evictor   *)
(* per shard.  Threads run the calls concurrently.  A thread holds the     *)
(* mutex of its key's shard from the first to the last step of a call; the *)
(* allocator has a mutex of its own.  Only allocator calls of threads on   *)
(* different shards can interleave, so an action is a call's work up to    *)
(* and including one allocator call, and what follows it on the shard.     *)
(***************************************************************************)
EXTENDS Integers, Sequences, Functions, FiniteSetsExt, Cache

CONSTANTS
    Thread,
    Shard,
    ShardFor,           \* ShardFor[k]: hash_key(k) % shards_.size()
    RequiredSize,       \* RequiredSize[k][v]: SlabEntry::required_size
    Capacity,           \* bytes of the arena
    PageSize,           \* kPageSize
    MinSlotSize,        \* kMinSlotSize
    NumClasses,         \* kNumClasses
    MaxEvictAttempts,   \* kMaxEvictAttempts
    NoPtr               \* nullptr

MaxSlotSize == MinSlotSize * 2^(NumClasses - 1)

ASSUME StoreAssumption ==
    /\ ShardFor \in [Key -> Shard]
    /\ RequiredSize \in [Key -> [Value -> Nat \ {0}]]
    /\ {Capacity, PageSize, MinSlotSize, NumClasses} \subseteq Nat \ {0}
    /\ MaxEvictAttempts \in Nat
    /\ PageSize % MaxSlotSize = 0
    /\ NoPtr \notin Nat

VARIABLES
    nextPage,   \* pages handed to a size class so far
    free,       \* free[c]: free_slots of class c, a stack of addresses
    entry,      \* entry[p]: the SlabEntry at each allocated address p
    map,        \* map[k]: address of k's entry in the map of its shard
    clock,      \* clock[s]: the ClockEvictor of shard s
    call,       \* call[t]: the put thread t is in the middle of
    answer      \* what the last call returned

vars == <<nextPage, free, entry, map, clock, call, answer>>

Class == 0 .. NumClasses - 1

Address == 0 .. Capacity - 1

Idle == [pc |-> "idle"]

Held == [k \in Key |-> IF map[k] = NoPtr THEN Absent ELSE entry[map[k]].value]

KeysOf(s) == {k \in Key : ShardFor[k] = s}

(* Mutant of Locked: a put does not hold the shard's mutex. *)
NeverLocked(s) == FALSE

Locked(s) == \E t \in Thread : call[t] # Idle /\ ShardFor[call[t].key] = s

Init ==
    /\ nextPage = 0
    /\ free = [c \in Class |-> << >>]
    /\ entry = << >>
    /\ map = [k \in Key |-> NoPtr]
    /\ clock = [s \in Shard |-> [ring |-> << >>, index |-> << >>, hand |-> 0]]
    /\ call = [t \in Thread |-> Idle]
    /\ answer = Absent

-----------------------------------------------------------------------------
(* std::vector, as free_slots and the ring are used *)

Back(s) == s[Len(s)]

PopBack(s) == SubSeq(s, 1, Len(s) - 1)

-----------------------------------------------------------------------------
(* SlabAllocator *)

SlotSize(c) == MinSlotSize * 2^c

(* Mutant of ClassForSize: the size is rounded down to a power of two. *)
ClassRoundedDown(size) ==
    CASE size <= MinSlotSize -> 0
      [] size > MaxSlotSize  -> NumClasses
      [] OTHER -> Max({c \in Class : SlotSize(c) <= size})

(* class_for_size: NumClasses says "too large". *)
ClassForSize(size) ==
    CASE size <= MinSlotSize -> 0
      [] size > MaxSlotSize  -> NumClasses
      [] OTHER -> Min({c \in Class : SlotSize(c) >= size})

(* assign_page: cut the next page of the arena into slots of class c. *)
AssignPage(c) ==
    IF nextPage >= Capacity \div PageSize
    THEN << >>
    ELSE [i \in 1 .. PageSize \div SlotSize(c) |->
             nextPage * PageSize + (i - 1) * SlotSize(c)]

(* allocate: slots is the free list of class c once a page was assigned. *)
Refill(c) == IF free[c] = << >> THEN AssignPage(c) ELSE free[c]

(* deallocate: lists is the free lists before the call. *)
Deallocate(lists, p, size) ==
    IF ClassForSize(size) >= NumClasses
    THEN lists
    ELSE [lists EXCEPT ![ClassForSize(size)] = Append(@, p)]

SizeAt(p) == RequiredSize[entry[p].key][entry[p].value]

-----------------------------------------------------------------------------
(* ClockEvictor: operators on the evictor c of a shard; indices from 0. *)

(* Mutant of SwapRemove: the moved entry keeps its old index. *)
SwapRemoveStale(c, idx) ==
    [c EXCEPT !.ring  = PopBack([c.ring EXCEPT ![idx + 1] = Back(c.ring)]),
              !.index = Restrict(@, DOMAIN @ \ {c.ring[idx + 1]})]

(* swap_remove *)
SwapRemove(c, idx) ==
    LET back  == Back(c.ring)
        moved == IF idx # Len(c.ring) - 1 THEN [c.index EXCEPT ![back] = idx]
                                          ELSE c.index
    IN  [c EXCEPT !.ring  = PopBack([c.ring EXCEPT ![idx + 1] = back]),
                  !.index = Restrict(moved, DOMAIN moved \ {c.ring[idx + 1]})]

Track(c, p) ==
    [c EXCEPT !.ring  = Append(@, p),
              !.index = [q \in DOMAIN @ \cup {p} |->
                            IF q = p THEN Len(c.ring) ELSE @[q]]]

HandInRange(c) == IF c.hand >= Len(c.ring) THEN [c EXCEPT !.hand = 0] ELSE c

Untrack(c, p) ==
    IF p \notin DOMAIN c.index THEN c ELSE HandInRange(SwapRemove(c, c.index[p]))

(* One turn of the loop of evict_one, from the state a of the sweep: bit   *)
(* holds the access bits, victim the entry found with its bit clear.       *)
Turn(c, a) ==
    LET size == Len(c.ring)
        h    == IF a.hand >= size THEN 0 ELSE a.hand
        p    == c.ring[h + 1]
    IN  IF a.victim # NoPtr THEN a
        ELSE IF a.bit[p] = 0
             THEN [a EXCEPT !.hand = h, !.victim = p]
             ELSE [a EXCEPT !.hand = (h + 1) % size, !.bit[p] = 0]

(* The loop: its state after at most limit turns. *)
Sweep(c, bit, limit) ==
    LET after[i \in 0 .. limit] ==
            IF i = 0 THEN [hand |-> c.hand, bit |-> bit, victim |-> NoPtr]
            ELSE Turn(c, after[i - 1])
    IN  after[limit]

(* Mutants of EvictOne: one round of the ring; the hand ignores the bits. *)
EvictOneRound(c, bit) == Sweep(c, bit, Len(c.ring))

EvictUnderHand(c, bit) == Sweep(c, [p \in DOMAIN bit |-> 0], 2 * Len(c.ring))

EvictOne(c, bit) == Sweep(c, bit, 2 * Len(c.ring))

(* The evictor once the sweep has ended: the victim is off the ring. *)
Swept(c, sweep) ==
    LET stopped == [c EXCEPT !.hand = sweep.hand]
    IN  IF sweep.victim = NoPtr THEN stopped
        ELSE HandInRange(SwapRemove(stopped, sweep.hand))

-----------------------------------------------------------------------------
(* LocalStore *)

Get(t, k) ==
    /\ call[t] = Idle
    /\ ~Locked(ShardFor[k])
    /\ answer' = Held[k]
    /\ entry' = IF map[k] = NoPtr THEN entry
                                  ELSE [entry EXCEPT ![map[k]].bit = 1]
    /\ UNCHANGED <<nextPage, free, map, clock, call>>

(* The entry of k leaves the evictor, the allocator and the map. *)
Drop(k) ==
    /\ clock' = [clock EXCEPT ![ShardFor[k]] = Untrack(@, map[k])]
    /\ free' = Deallocate(free, map[k], SizeAt(map[k]))
    /\ entry' = Restrict(entry, DOMAIN entry \ {map[k]})
    /\ map' = [map EXCEPT ![k] = NoPtr]
    /\ UNCHANGED nextPage

Del(t, k) ==
    /\ call[t] = Idle
    /\ ~Locked(ShardFor[k])
    /\ answer' = (map[k] # NoPtr)
    /\ IF map[k] # NoPtr
       THEN Drop(k)
       ELSE UNCHANGED <<nextPage, free, entry, map, clock>>
    /\ UNCHANGED call

(* put takes the shard's mutex and drops the old entry of the key.  before *)
(* records what the shard held, for the refinement.                        *)
PutBegin(t, k, v) ==
    /\ call[t] = Idle
    /\ ~Locked(ShardFor[k])
    /\ call' = [call EXCEPT ![t] =
                   [pc |-> "allocate", key |-> k, value |-> v,
                    attempt |-> 0,
                    before |-> Restrict(Held, KeysOf(ShardFor[k]))]]
    /\ IF map[k] # NoPtr
       THEN Drop(k)
       ELSE UNCHANGED <<nextPage, free, entry, map, clock>>
    /\ UNCHANGED answer

PutEnd(t, ok) ==
    /\ call' = [call EXCEPT ![t] = Idle]
    /\ answer' = ok

(* allocate succeeds: the entry is written, mapped and tracked. *)
PutStore(t) ==
    LET k == call[t].key
        v == call[t].value
        c == ClassForSize(RequiredSize[k][v])
    IN  /\ call[t] # Idle
        /\ call[t].pc = "allocate"
        /\ c < NumClasses
        /\ Refill(c) # << >>
        /\ LET p == Back(Refill(c))
           IN  /\ entry' = [q \in DOMAIN entry \cup {p} |->
                               IF q = p THEN [key |-> k, value |-> v, bit |-> 0]
                                        ELSE entry[q]]
               /\ map' = [map EXCEPT ![k] = p]
               /\ clock' = [clock EXCEPT ![ShardFor[k]] = Track(@, p)]
        /\ free' = [free EXCEPT ![c] = PopBack(Refill(c))]
        /\ nextPage' = IF free[c] = << >> THEN nextPage + 1 ELSE nextPage
        /\ PutEnd(t, TRUE)

(* allocate returns nullptr: the value is too large or no slot is left. *)
PutNoSlot(t) ==
    LET c == ClassForSize(RequiredSize[call[t].key][call[t].value])
    IN  /\ call[t] # Idle
        /\ call[t].pc = "allocate"
        /\ c < NumClasses => Refill(c) = << >>
        /\ call' = [call EXCEPT ![t].pc = "evict"]
        /\ UNCHANGED <<nextPage, free, entry, map, clock, answer>>

(* evict_one in the shard of the key; the victim's slot is freed for any   *)
(* thread.  The call gives up if there was no victim, or after the         *)
(* eviction of its last attempt.                                           *)
PutEvict(t) ==
    LET s     == ShardFor[call[t].key]
        sweep == EvictOne(clock[s], [p \in DOMAIN entry |-> entry[p].bit])
        p     == sweep.victim
        seen  == [q \in DOMAIN entry |-> [entry[q] EXCEPT !.bit = sweep.bit[q]]]
    IN  /\ call[t] # Idle
        /\ call[t].pc = "evict"
        /\ clock' = [clock EXCEPT ![s] = Swept(@, sweep)]
        /\ IF p = NoPtr
           THEN entry' = seen /\ UNCHANGED <<map, free>>
           ELSE /\ entry' = Restrict(seen, DOMAIN entry \ {p})
                /\ map' = [map EXCEPT ![entry[p].key] = NoPtr]
                /\ free' = Deallocate(free, p, SizeAt(p))
        /\ IF p = NoPtr \/ call[t].attempt = MaxEvictAttempts
           THEN PutEnd(t, FALSE)
           ELSE /\ call' = [call EXCEPT ![t].pc = "allocate", ![t].attempt = @ + 1]
                /\ UNCHANGED answer
        /\ UNCHANGED nextPage

Next ==
    \E t \in Thread :
        \/ \E k \in Key : Get(t, k) \/ Del(t, k)
        \/ \E k \in Key, v \in Value : PutBegin(t, k, v)
        \/ PutStore(t)
        \/ PutNoSlot(t)
        \/ PutEvict(t)

Spec == Init /\ [][Next]_vars

-----------------------------------------------------------------------------
(* Properties *)

(* The slots known to the engine: class, place on the free list of the     *)
(* class or 0 if an entry lives in it, address.                            *)
ClassAt(p) == ClassForSize(SizeAt(p))

Slots ==
    {<<ClassAt(p), 0, p>> : p \in DOMAIN entry}
      \cup UNION {{<<c, i, free[c][i]>> : i \in DOMAIN free[c]} : c \in Class}

Bytes(x) == x[3] .. x[3] + SlotSize(x[1]) - 1

(* Memory is never shared and never lost: the live entries and the free    *)
(* slots are pairwise disjoint ranges of bytes, and together they are all  *)
(* the bytes of the pages handed out, which are pages of the arena.        *)
(* Whoever interleaves, no slot is on a free list twice, on the list of    *)
(* another class than it was cut for, or on a list while an entry lives in *)
(* it (slab_allocator.cpp 72-115, local_store.cpp 33-55 and 72-77).        *)
SlotsPartitionPages ==
    /\ \A x \in Slots, y \in Slots : x # y => Bytes(x) \cap Bytes(y) = {}
    /\ UNION {Bytes(x) : x \in Slots} = 0 .. nextPage * PageSize - 1
    /\ 0 .. nextPage * PageSize - 1 \subseteq Address
    /\ \A p \in DOMAIN entry : SizeAt(p) <= SlotSize(ClassAt(p))

(* The three indexes of a shard agree: the entries its map reaches are the *)
(* ones on the evictor's ring, each once and at the place index_ records,  *)
(* every live entry is reached under its own key, and the hand is on the   *)
(* ring.  evict_one would otherwise free an entry a key still points to,   *)
(* or leave one that no eviction can ever reach (clock_evictor.cpp 5-55).  *)
IndexesAgree ==
    /\ \A s \in Shard :
        LET c == clock[s]
        IN  /\ Range(c.ring) = {map[k] : k \in KeysOf(s)} \ {NoPtr}
            /\ DOMAIN c.index = Range(c.ring)
            /\ \A p \in DOMAIN c.index :
                  c.index[p] < Len(c.ring) /\ c.ring[c.index[p] + 1] = p
            /\ Len(c.ring) = Cardinality(DOMAIN c.index)
            /\ c.hand = 0 \/ c.hand < Len(c.ring)
    /\ \A p \in DOMAIN entry : map[entry[p].key] = p
    /\ \A k \in Key : map[k] # NoPtr => entry[map[k]].key = k

(* t is about to evict, and this step is its eviction. *)
Evicting(t) ==
    call[t] # Idle /\ call[t].pc = "evict" /\ call'[t] # call[t]

RingOf(t) == Range(clock[ShardFor[call[t].key]].ring)

(* The sweep of the hand ends with a victim: evict_one evicts exactly one  *)
(* entry of its shard whenever the shard tracks any, though every one of   *)
(* them may have been read since the last sweep (clock_evictor.cpp 36-55). *)
SweepFindsVictim ==
    [][\A t \in Thread : Evicting(t) /\ RingOf(t) # {} =>
          \E p \in RingOf(t) : DOMAIN entry' = DOMAIN entry \ {p}]_vars

(* Second chance: an entry read since the hand last passed it is evicted   *)
(* only if every entry of its shard has been (docs/epics.md, Story 4.3).   *)
SecondChance ==
    [][\A t \in Thread : Evicting(t) =>
          \A p \in DOMAIN entry \ DOMAIN entry' :
              entry[p].bit = 1 => \A q \in RingOf(t) : entry[q].bit = 1]_vars

(* What other threads can observe of a store: a shard whose mutex is held  *)
(* is seen as it was when the mutex was taken.                             *)
Visible ==
    [k \in Key |->
        IF Locked(ShardFor[k])
        THEN LET t == CHOOSE t \in Thread :
                          call[t] # Idle /\ ShardFor[call[t].key] = ShardFor[k]
             IN  call[t].before[k]
        ELSE Held[k]]

Abstract == INSTANCE AtomicCache WITH contents <- Visible

(* The store is linearizable: with any number of threads, every get, put   *)
(* and del takes effect at one instant and answers by what the store holds *)
(* then; a put may lose other keys and a failed put loses its own key, and *)
(* nothing else is ever lost or brought back (local_store.cpp 15-79).      *)
ImplementsCache == Abstract!AtomicSpec
=============================================================================
