# Pensieve in TLA+

Pensieve is a distributed cache. Every node runs one io_uring event loop on
which coroutines serve TCP clients, proxy requests to other nodes and run the
SWIM membership protocol over UDP. Clients may use an SDK that routes requests
itself. This directory models the parts of the system in which concurrency,
failures or wrap-around arithmetic make mistakes likely, checks them with TLC
and proves most of their safety properties with TLAPS for instances of any size.

Source paths below are relative to `src/src/`.

## The system

| Part | Source | State | Operations | Model |
|---|---|---|---|---|
| Hash ring | `membership/ring_store` | token -> node map, replaced as a whole | add_node, remove_node, lookups | `RingStore`, `RingMigration` |
| Migration planner | `membership/ring_migration` | none | compute_migrations | `RingMigration` |
| Member list | `membership/member_list`, `node_info.h` | node -> state, incarnation, port | add_node, update_state, callback | `MemberList` |
| Disseminator | `membership/disseminator` | one update per node, send count | enqueue, get_updates | `Disseminator` |
| SWIM | `membership/swim_protocol` | incarnation, pending acks, tasks | probe, relay, receive, reap | `Swim` |
| SWIM datagrams, CLUSTER_INFO payload | `membership/swim_message`, `coordinator/coordinator.cpp`, `sdk/topology_manager.cpp` | none | serialize, deserialize | `Wire`, `SwimWire` |
| Node start, ring callback, shutdown | `main.cpp` | list of connections | start, on_change, signal handler | `Swim`, `MemberList`, `EventLoop` |
| Coordinator | `coordinator/coordinator` | handler coroutines | GET, PUT, DEL, CLUSTER_INFO | `Coordinator` |
| Wait group | `coordinator/wait_group` | pending fetch per key | try_join, wait, complete | `Coordinator`, `EventLoop` |
| Peer client, buffer pool | `coordinator/peer_client`, `io/buffer_pool`, `io/stream_utils.h`, `protocol/message.h` | idle connections, free buffers | acquire, send, release | `PeerClient`; one step in `Coordinator` |
| Event loop | `io/io_uring_context`, `io/awaitable.h`, `io/task.h`, `io/tcp_listener` | io_uring queues, coroutine frames | run, stop, process_cqe, accept, spawn | `EventLoop` |
| Local store | `storage/` | sharded maps, slabs, clock rings | get, put, del | `LocalStore`, `Cache`, `AtomicCache` |
| Client SDK | `sdk/` | view, pools, breakers | connect, execute, refresh | `SmartClient` |
| Socket wrappers, hashing, CLI, benchmark | `io/tcp_connection`, `io/udp_socket`, `hash/`, `sdk/cli.cpp`, `sdk/benchmark.cpp` | | | not modelled, see the end |

How they interact: SWIM messages change the member list; its callback changes
the ring; the coordinator reads the ring for every request and either calls the
local store or forwards the request, and the next node decides again by its own
ring. The SDK fetches the member list by CLUSTER_INFO and builds the same ring.
All of a node runs on one thread, as callbacks and coroutines that the event
loop resumes.

## Modules

**RingStore** is the ring as a value: a function from tokens to nodes. Writers
publish a changed copy and readers keep the copy they got, so each operation is
one step. `Space` stands for 2^32. **RingMigration** adds the state: a ring
(`current`) that nodes join and leave with any tokens, collisions included, and
the ring before the last change.

**Coordinator** is a cluster of nodes (`ring[n]`, `store[n]`, `pending[n]`) and
a chain of handler coroutines per client request, `chain[r]`, one for each node
the request was forwarded to. An action is the code between two suspensions of
`handle_connection` and what it calls. Rings change in any order on any node
(`RingChange`), except that a node is always on its own ring, which is what
`main.cpp` and the member list give (`SelfAlive` in `Swim`). Proxied calls may
fail at any time; nodes in `Unstable` may restart. The store is the abstract
`Cache`, so a put may fail and may evict. **CoordinatorFresh** adds two history
variables to state how stale a GET may be.

**PeerClient** is one call of `proxy_to_peer` in detail, several at a time: the
pool of idle connections, connect, the request written and the response read in
pieces of any size, the registered buffer for the value, and every error path.
At the other end of each connection is the peer's `handle_connection`. A message
is a sequence of units, a header and as many more as its lengths say; each unit
remembers the message it is part of, so that a property can tell whether a
reader took units of another one. Peers in `Unstable` stop and start, which
breaks their connections, also those in the pool; peers in `Silent` may leave a
request unanswered forever.

**EventLoop** is the thread of a node below all that: the submission and
completion queues, the batches of `run()`, the eventfd by which a signal handler
stops it, the callbacks and loops that re-arm themselves, and coroutine frames
that are created, suspended, resumed and destroyed. An operation is known by
whom its completion wakes. The other modules rely on it for "a coroutine runs
undisturbed between two suspensions and is resumed when its operation is
complete".

**Cache** says what a store promises, **AtomicCache** makes that a
specification, and **LocalStore** is the store in detail: shards, slab pages,
free lists and addresses, clock rings with their hand. A thread holds its
shard's mutex for a whole call, so threads meet only at the allocator, and an
action ends with an allocator call.

**MemberList** and **Disseminator** are operators on a list and a queue, and
**Swim** the protocol on every node: the probe loop, the receive loop, the
reaper and the relay tasks, with the network as a set of messages. Timers may
expire at any moment. Where a message goes out while a task is suspended in the
send, the send is part of the step before the suspension.

**Wire** has the two formats with lengths and counts of their own as operators
on sequences of bytes: SWIM datagrams, and the CLUSTER_INFO payload that a
coordinator writes and the SDK parses, with every bounds check of the readers.
**SwimWire** composes it with `Swim`: what the protocol sends is written and read
back in every state. That is what allows `Swim` to pass records and `SmartClient`
to take a view as a set.

**SmartClient** is one client shared by several threads. A step is the work done
under one mutex or one blocking exchange. Servers stop and start; a server that
answers CLUSTER_INFO lists itself and may be wrong about the nodes in `Lag`.

The `MC*` modules give constants their values. Definitions whose comment begins
with "Mutant of" are wrong variants of the definition that follows: putting one
in its place makes the named property fail (`PROJECT.json`, "mutants"), which
shows that the property depends on the code it is about.

## Abstractions and bounds

- Hash values are constants. The theorems hold for all of them. In ring the
  positions are such that lookups wrap around; in requests a key belongs to the
  other node, and in token_collision a request is forwarded a second time. With
  distinct tokens that takes three nodes, more than TLC explores with ring
  changes: longer chains are the business of the theorems.
- `Swim`: within one run of a node a new sequence number is the least that is
  not in use by a pending entry, a message or a relay, instead of a counter, so
  that the state space is finite. As with the code's counter, a number whose
  exchange is still under way is not drawn again. A restart sets the counter to
  0, so the node may then draw the numbers of exchanges of its earlier run as
  well (`stale`), each once, and an old ack may answer a new probe. Numbers that
  wrap around after 2^32 probes are left out. The updates of a message are a set:
  at most one is about each node.
- `Wire`: a byte has `Base` values, 256 in the code and 8 in the runs, so that
  numbers stay in TLC's range and a two-byte port needs both bytes. The operators
  use `Base` throughout.
- `Swim` bounds: `MaxIncarnation`, `MaxInFlight` and `MaxRelays` cut off
  refutations, messages and relay tasks; `Prober` limits who probes where three
  nodes would be too many. Two nodes with one refutation take each other for
  Alive, Suspect and Dead (nobody sends Leave, so nobody is ever Left), and a
  message of the earlier incarnation may arrive after the refutation. Messages
  of two incarnations are in flight together only in swim_relay, with three nodes
  and more than one message (`MaxInFlight`).
- `PeerClient`: a header is one unit, a request two, a response one to three: a
  value is empty, fits a buffer, or does not. There is one buffer for two calls.
  Keys are shorter than `KeyMod` (2^16), which the code assumes and the format
  requires. NotFound is to the connection what Ok without a value is. Where
  `socket()` or `inet_pton` fails nothing has changed, so there is no step for it.
- `EventLoop`: two frames, which suffice for a fetch and a waiter, and a
  completion queue of three entries, so that it fills up. The submission queue is
  never full, so that `get_sqe` always finds an entry: every preparation is
  followed by a submit, except that of the eventfd read, which the next
  `io_uring_submit_and_wait` takes along. A submit may fail, which the code
  ignores; what it should have submitted then stays in the queue for the next one.
  Each submit takes all of the queue or nothing; partial submits are left out.
- `SmartClient`: no two nodes share a token, because the ring of the SDK would
  then depend on the order of its list of nodes, which the model does not keep.
  Failures are counted up to the threshold, beyond which the code does not tell
  them apart; `expired` becomes true when `open_duration` has passed; a new
  descriptor is the lowest free number, as POSIX requires.
- `LocalStore`: two pages of two slots, two classes and one eviction retry: small
  enough that memory is exhausted after two or three puts, large enough that a
  page of one class is out of reach of the other. Values differ in the class
  they need; one fits none.
- `Coordinator`: each client sends one request. A persistent connection is a
  sequence of them, and no state of the handler survives a request. Every opcode
  that is none of the four is the same to the code, and is the request `Other`.
- Symmetry is used for threads, clients, keys of a shard and nodes that the instance does not
  tell apart, and only in runs without liveness properties.

## Runs

Runs that pass:

| Run | Instance | Shows |
|---|---|---|
| requests | 2 nodes, one restarting, 2 clients, all requests, all ring changes | `TypeOK`; `ForwardingDescends`: each hop is strictly nearer to the key whatever the rings say; `FetchesCollapse`: one fetch per key and node, no waiter without an initiator; `NoCircularWait`; `EveryRequestAnswered` under fairness |
| fresh_reads | 2 nodes, 4 clients | `ReadsAreFresh`: a GET sees every PUT acknowledged before the fetch it shares began |
| store | 2 threads, 2 shards, 4 keys | `SlotsPartitionPages`: entries and free slots share the pages without overlap or loss; `IndexesAgree`; `SweepFindsVictim`; `SecondChance`; `ImplementsCache`: refinement of `AtomicCache` |
| swim_relay | 3 nodes, indirect probes, loss, reordering | `TypeOK`: pending acks match the tasks that wait; `IncarnationsOwned`; `NoStaleRevival` |
| swim_faults | 2 nodes, crash, restart, loss, duplication | `SelfAlive`; `RingFollowsMembers`; `NoStaleRevival`; `CrashedLeaveRings` under fairness; `DatagramsReadBack` and `ViewsReadBack`: what is sent is what is read, and nothing cut short is taken for a message |
| ring | 3 nodes, 6 positions | `LookupIsNearest`, `SuccessorsInOrder`, `MigrationsExact`, `OnlyOneNodeMoves` |
| client | 2 threads, 1 unstable node, pool of 2, breaker threshold 2 | `ConnectionsOwned`, `DescriptorsBounded`: sockets of calls and of refreshes have one holder each; `DeadNodeShunned` and `HealthyNodeReadmitted` under fairness |
| client_view | 1 thread, 2 unstable nodes, one retry | `TypeOK`; `ViewCatchesUp` under fairness |
| peer_client | 2 calls, 2 peers (one restarts, one falls silent), 3 descriptors, 1 buffer | `ConnectionsOwned`, `BuffersOwned`: one owner each on every path; `RequestsIntact`, `AnswersMatch`: whatever the pieces, a request is served once and its answer reaches its call; `PoolWithinPeak`; `CallsEnd` and `FailuresCease` under fairness |
| event_loop | 2 frames, 3 loops, completion queue of 3 | `TypeOK`; `OneWakerEach`: whatever suspends is woken by exactly one operation, and none outlives its task; `StopEnds` under fairness |

Nearly all of the safety properties are also proved below, for instances of any
size. Indirect probes and restarts are in different runs, because together they
exceed what TLC can explore; so are two threads and two nodes of a client. In
client the threads can fill the pool with connections that a restart breaks, as
many as it takes to open the breaker. The Ping-Req format is checked in
swim_faults all the same, where `Datagrams` includes the Ping-Req each probing
node would send.

Runs in which TLC finds that the code does not do what a document or comment
says (quoted in `PROJECT.json`, "findings"):

- token_collision, `EveryRequestAnswered`: two nodes share a token and each takes
  the other for its owner. A GET comes back to the node it came from, joins the
  fetch it is part of and waits for itself.
- swim_converge, `RingsConverge`: a joiner whose first probes of its seed are
  lost marks the seed Suspect, then Dead, and has nobody left to probe; the seed
  has never heard of it. Both run on alone.

The models contain further behaviour that disagrees with a document or a comment
and that no run asks about:

- GETs that joined a failed fetch answer NotFound, the initiator Error
  (`coordinator.cpp:65`; `docs/wire-protocol.md:228`).
- The last eviction of a put is not followed by an allocation, so a put may fail
  with a free slot of its class (`local_store.cpp:43`; `docs/wire-protocol.md:111`).
- `get_n_nodes_for_key` returns all nodes for n = 0 (`ring_store.cpp:73`;
  `ring_store.h:41`).
- `compute_migrations` reports a range that moves as a whole in pieces
  (`ring_migration.cpp:34`; `ring_migration.h:18`).
- A late joiner may record a member with data port 0 (`swim_protocol.cpp:149`;
  `docs/deployment.md:155`).
- The relay of an indirect probe may be its target (`swim_protocol.cpp:118`;
  `docs/deployment.md:141`).
- A client all of whose known nodes are gone does not ask its seed again
  (`topology_manager.cpp:148`; `docs/epics.md:60`).
- A late success closes a breaker that has just opened (`circuit_breaker.cpp:30`;
  `docs/epics.md:88`).
- A signal between the installation of the handlers and `run()` is forgotten, as
  `run()` sets `running_` again (`io_uring_context.cpp:98`; `docs/deployment.md:226`
  says a signal stops the process). `StopEnds` is stated for a stop during `run()`.
- `run()` ends with operations still under way; it does not drain them
  (`io_uring_context.cpp:101`; `docs/deployment.md:226`).
- An update in a datagram carries a data port (`swim_message.cpp:66`), which the
  format described in `swim_message.h:17` does not have.

`CHECK_DEADLOCK FALSE` appears where the system may stop: all requests of the
instance are answered, no node has an Alive peer left, or the process has ended.

## Fairness

- `Coordinator`: the event loop resumes every coroutine whose I/O is complete;
  TCP delivers what a running peer wrote or reports that it is gone. Ring
  changes, restarts and other failures are not fair. A peer that is connected
  and silent forever is excluded; the code has no timeout for it.
- `Swim`: timers fire and datagrams that arrive are handled (weak fairness).
  `random_peer` picks each Alive peer again and again, and a link used again and
  again delivers again and again (strong fairness). Loss stays possible at every
  single message.
- `PeerClient`: the event loops of the node and of the peers that are not silent
  resume every coroutine whose read or write is complete (weak fairness). No call
  need begin, no peer need stop or start.
- `EventLoop`: the thread runs (weak fairness) and the timeouts of the SWIM loops
  complete again and again, also when the completion queue is often full (strong
  fairness). Any other operation may never complete.
- `SmartClient`: threads run, the application connects and keeps calling, and
  time passes. Nodes need never stop or start.

## Proofs

The theorems hold for every value of the constants that satisfies the named
assumptions: every finite set of nodes, every set of keys, clients, calls and
threads, every hash space and hash function, any arena, slot and queue sizes.
The assumptions are on sorts and ranges of constants, with two that say more:
`NodeAssumption`, `SwimAssumption`, `ClientAssumption` and `PeerClientAssumption`
make the nodes of a cluster, the threads of a client and the calls under way on a
node finite, and `StoreAssumption` that the
largest slot divides a page, as the constants of `slab_allocator.h` do.

| Module | About | Theorems (property) |
|---|---|---|
| `RingProofs` | `RingStore`, `RingMigration` | `OwnerIsNearer`, `NNodesInOrder`, `LookupNearest` (`LookupIsNearest`), `SuccessorsOrdered` (`SuccessorsInOrder`), `MigrationsAreExact` (`MigrationsExact`), `OneNodeMoves` (`OnlyOneNodeMoves`) |
| `CoordinatorProofs` | `Coordinator` | `TypeCorrect` (`TypeOK`), `Descends` (`ForwardingDescends`), `LoopFree`, `NoDeadlock` (`NoCircularWait`), `Collapses` (`FetchesCollapse`) |
| `LocalStoreProofs` | `LocalStore` | `ShardIndexesAgree` (`IndexesAgree`), `SlotsPartition` (`SlotsPartitionPages`), `SweepEndsWithVictim` (`SweepFindsVictim`), `ReadEntriesStay` (`SecondChance`), `StoreIsAtomic` (`ImplementsCache`) |
| `SwimProofs` | `Swim`, `MemberList`, `Disseminator` | `SwimTypes` (`TypeOK`), `SelfStaysAlive` (`SelfAlive`), `RingsFollow` (`RingFollowsMembers`), `IncarnationsAreOwned` (`IncarnationsOwned`), `StaleNewsIgnored` (`NoStaleRevival`) |
| `PeerStreamProofs`, `PeerClientProofs` | `PeerClient` | `OneOwner` (`ConnectionsOwned`), `OneUserEach` (`BuffersOwned`), `PoolIsBounded` (`PoolWithinPeak`), `RequestsArriveWhole` (`RequestsIntact`), `AnswersAreOurs` (`AnswersMatch`) |
| `SmartClientProofs` | `SmartClient` | `ConnectionsHaveOwners` (`ConnectionsOwned`), `DescriptorsAreBounded` (`DescriptorsBounded`), `ClientTypes` (`TypeOK`) |
| `EventLoopProofs` | `EventLoop` | `LoopTypes` (`TypeOK`), `OneWaker` (`OneWakerEach`) |

`SwimInv`, `LocalStoreInv` and `PeerClientInv` hold the inductive invariants of
the largest proofs and the definitions they are made of, and no theorem.

**The ring.** `OwnerIsNearer`: on a ring that holds all tokens of the asking
node, an owner other than that node is strictly nearer clockwise. It rests on
`lower_bound` with its wrap-around being the nearest token (`LowerBoundNearest`).
`NNodesInOrder` is about the loop of `get_n_nodes_for_key`: after each of its
turns it has passed the tokens up to a distance and has the nodes of exactly
those, in order. It is an induction over the turns. The library's induction
theorems take a predicate, which the provers cannot instantiate, so `RingProofs`
proves the principle for a set: a set of numbers that holds 0 and with each number
the next holds all of them. The theorems about `RingMigration` need only that the
two rings map positions to nodes. `MigrationsAreExact` compares the owners of a
position in both rings with those of the boundary next clockwise, the token of
either ring that follows.

**The request path.** A handler that is proxying must have an owner, hence the
invariant `TypeInv == TypeOK /\ OwnerKnown` behind `TypeCorrect`. `Descends`,
`LoopFree` (`NoForwardingLoop`) and `NoDeadlock` assume `DistinctTokens`.
`ForwardInv` adds that each node is on its own ring, that all handlers of a chain
carry the same request, and that the owner a handler has chosen is nearer, though
the ring may have changed since the choice. A loop, or a circle of waits, would be
a circle of decreasing distances. `NoForwardingLoop` follows from
`ForwardingDescends` and is not checked by a run of its own. Without
`DistinctTokens` they are false, as the run token_collision shows; nothing in the
code ensures it, though with 32-bit tokens a collision in a small cluster is
unlikely. `Collapses` makes no assumption on tokens. `FetchInv` says that a fetch
in `pending` is a live handler proxying a GET of that key on that node, that each
such handler is in `pending`, and that each waiter's key has a fetch.

**The store.** `StoreInv` (`LocalStoreInv`) has two parts. `HeapInv`: the first
bytes of the arena are tiled by the live entries and the slots of the free lists
(`Laid`), the map and the entries point at each other, and each shard's ring and
index hold the addresses its map reaches (`Tracks`). `CallInv`: the calls under
way are on different shards, the key of each has no entry, and its shard holds
what it held at the start of the call or less. That slots stay a tiling when a
page is cut needs that slot sizes are powers of two times the least one and that
their product with the number of slots is a page; that the free lists are of the
right class needs that `class_for_size` names the same class at allocation and
deallocation. `SweepEndsWithVictim` and `ReadEntriesStay` are about the loop of
`evict_one`: after i turns without a victim the hand is i places on and the bits
of the i entries it passed are clear (`Sweeping`), by induction over the turns;
after one round no bit is set. `StoreIsAtomic` is the refinement. A get or a del
is one step of `AtomicCache`; a put is one step at its end, since until then its
shard is seen as it was when its mutex was taken (`Visible`), and the steps before
are stutters. The put's losses are allowed to it because of the last part of
`CallInv`.

**SWIM.** `SwimInv` has three parts. `ViewInv`: for each running node, the ring
follows the list, the node holds itself Alive at its own incarnation, and what its
list, its queue and the messages say about a node is at most the incarnation that
may be known of it (`Bound`: the node's own, or the bound of the model when nodes
may restart). `AckInv`: the pending sequence numbers are those of the probe and of
the relays, each of one task. `SeqInv`: sequence numbers on their way are numbers,
so that a new one can be drawn whatever a restart left behind. A message's updates
are applied by a fold over a set; `SwimProofs` shows by induction over its subsets
that what one update keeps, all of them keep (`IsFold`). `StaleNewsIgnored` is an action property: that
a record is replaced only by one that is not older (`Follows`) is part of what each
step is shown to do. Each theorem is about both initial states, `Spec` from nodes
that start and `FormedSpec` from a formed cluster. `IncarnationsAreOwned` assumes
that nodes do not restart: a node that does forgets its incarnation.

**Connections.** Most of what a step of `PeerClient` does concerns the units on a
connection. `StepMoves` shows that, apart from those, a step is one of few moves: a
call takes a connection from the pool, opens one, gives it back or closes it; it
takes a buffer or gives one back; or nothing moves. The invariant is the two
properties and the types of the lists they speak about, and each move preserves
each of them. The types need both properties: what is given back must be a
descriptor, or a buffer, of this call. `PoolIsBounded` counts along the same
moves: a connection is opened only when the pool of the peer is empty, and then
every connection to it is in the hands of a call, of which the caller is not one.
`SmartClientProofs` uses the same argument
for the client's pools: `ClientInv` adds to `ConnectionsOwned` that a call has a
descriptor exactly between acquire and release, a refresh one while it reads, never
both at once, and that pools are within their bound, from which
`DescriptorsAreBounded` follows by counting.

**Messages between nodes.** `RequestsArriveWhole` and `AnswersAreOurs` are about
what `PeerClient` sends through those connections, for headers, keys and values of
any length and for every way of cutting them into pieces. `StreamInv`
(`PeerClientInv`) says, for each call under way, that one message m is on its way
and which units of it are where. While a call asks, the peer's handler has read the
units of its request up to a, the connection holds those from a to b, and the call
has still to write those from b to the end (`Asking`); while the peer answers, the
same holds with the roles exchanged (`Answering`). Before the request and after the
response nothing is left on the connection (`Quiet`), and connections in the pool
are quiet. A step of a call or a handler moves a piece from one of the three parts
to the next, so a lemma on cutting and joining parts (`Part`, `Split`, `Join`)
carries each. The reader knows how much to read from the lengths in the header,
which is in the first part; `Wanted` never asks for more than the message has left.
That a step of one call leaves the messages of all others alone is `OneOwner`. A
connection the peer has dropped holds nothing for the peer to read, and the
rest of an answer at most; the call that has it closes it. The proofs use
`PeerClientAssumption`: the length of a key fits its 16 bits, which nothing in
`serialize_request` enforces.

**The event loop.** `LoopInv` adds to `TypeOK` and `OneWakerEach` what the queues
hold: nothing, and no task has started, before the loops have; operations only,
and as many as the completion queue has room for, afterwards. Failing submits leave
operations in the submission queue, but none is there while the thread sleeps. The
steps move operations from one bag or queue to the next, so the number of pending
ones of each kind changes only where a task suspends or is resumed. The loops are
the three of `main.cpp` (`Loop`); the frames are any number.

Only model-checked:

- All liveness (`EveryRequestAnswered`, `CrashedLeaveRings`, `ViewCatchesUp`,
  `HealthyNodeReadmitted`, `DeadNodeShunned`, `CallsEnd`, `FailuresCease`, `StopEnds`): fairness and
  ENABLED are beyond the prover.
- `ReadsAreFresh`: its invariant would have to relate the history of writes to
  every handler of every chain; it holds only on a formed ring.
- `DatagramsReadBack` and `ViewsReadBack`: `Wire` reads with recursive operators,
  which the prover cannot use.

## Not modelled

- The kernel: what an operation reads or writes, and what may still be written
  into buffers between the end of `run()` and the destruction of the io_uring
  (`main.cpp:151`). `EventLoop` ends with the return from main.
- `TcpConnection` and `UdpSocket`, which wrap system calls; the functions of `io/`
  that nothing calls (`peek_cqe`, `wait_cqe`, `async_cancel`, the fixed-buffer
  operations).
- The parsing of arguments and host names.
- MurmurHash3: hash values are constants, so that every property holds for every
  hash function. Its 32-bit products are beyond TLC's integers.
- Functions nothing in `src/` calls: `MemberList::remove_node`,
  `serialize_response` and the parse functions of `protocol/message.h`.
- Of the SDK: the statistics, the destruction of a client and
  `stop_background_refresh`, which only the destructor calls; CLI and benchmark.

## Plan

In this order:

1. `Swim` composed with `Coordinator`: the rings of the request path as the
   member lists really produce them, and rejoining after a restart.
2. The SDK composed with the request path: what a retried PUT may do.
3. Proofs: `ReadsAreFresh`, with an invariant over the chains of a formed ring.
