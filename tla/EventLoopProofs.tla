-------------------------- MODULE EventLoopProofs --------------------------
(***************************************************************************)
(* Proofs about EventLoop, for any number of tasks and any size of the     *)
(* completion queue: its types and bounds, and that each suspended         *)
(* coroutine has exactly one operation that will resume it.                *)
(***************************************************************************)
EXTENDS EventLoop, FiniteSetTheorems, FunctionTheorems, SequenceTheorems, TLAPS

(* The operations of the node. *)
Ops == {StopOp} \cup {LoopOp(l) : l \in Loop}
         \cup {Op(f, leaf) : f \in Frame, leaf \in Suspended}

(* Those that resume a coroutine or call a callback. *)
Wakers == Ops \ {StopOp}

IsBag(B) == B \in [DOMAIN B -> Nat \ {0}] /\ DOMAIN B \subseteq Ops

Task == [state : Suspended \cup {"none", "waiting", "done"},
         list : Spawner \cup {"none"}]

(* The types of the queues. *)
Queues ==
    /\ IsBag(sq) /\ IsBag(kernel)
    /\ cq \in Seq(Ops)
    /\ count \in Nat
    /\ count + Len(cq) <= CqSize

(* Nothing is prepared or started before the loops are. *)
Setup ==
    pc = "setup" => /\ sq = EmptyBag /\ kernel = EmptyBag /\ cq = << >>
                    /\ frame = [f \in Frame |-> NoTask] /\ fetch = NoFrame

(* The inductive invariant. *)
LoopInv ==
    /\ TypeOK
    /\ Queues
    /\ frame \in [Frame -> Task]
    /\ Setup
    /\ OneWakerEach

(* How many operations that have not completed are op. *)
Open(op) == Copies(op, sq) + Copies(op, kernel)

(* Where a queue of completions holds op. *)
Places(q, op) == {i \in DOMAIN q : q[i] = op}

-----------------------------------------------------------------------------
(* Bags and queues *)

(* The union of two bags holds the copies of both. *)
LEMMA BagSum ==
    ASSUME NEW A, IsBag(A), NEW B, IsBag(B)
    PROVE  /\ IsBag(A (+) B)
           /\ \A e : Copies(e, A (+) B) = Copies(e, A) + Copies(e, B)
<1>1. DOMAIN (A (+) B) = DOMAIN A \cup DOMAIN B
  BY DEF (+)
<1>2. \A e \in DOMAIN A \cup DOMAIN B :
        (A (+) B)[e] = (IF e \in DOMAIN A THEN A[e] ELSE 0)
                         + (IF e \in DOMAIN B THEN B[e] ELSE 0)
  BY DEF (+)
<1>3. \A e \in DOMAIN A \cup DOMAIN B : (A (+) B)[e] \in Nat \ {0}
  BY <1>2 DEF IsBag
<1>4. A (+) B = [e \in DOMAIN (A (+) B) |-> (A (+) B)[e]]
  BY DEF (+)
<1>5. IsBag(A (+) B)
  BY <1>1, <1>3, <1>4 DEF IsBag
<1>6. ASSUME NEW e
      PROVE  Copies(e, A (+) B) = Copies(e, A) + Copies(e, B)
  BY <1>1, <1>2 DEF IsBag, Copies, BagIn, BagToSet
<1>. QED
  BY <1>5, <1>6

(* The bag of a set holds each of its elements once. *)
LEMMA BagOfSet ==
    ASSUME NEW S \in SUBSET Ops
    PROVE  /\ IsBag(SetToBag(S))
           /\ \A e : Copies(e, SetToBag(S)) = IF e \in S THEN 1 ELSE 0
BY DEF IsBag, SetToBag, Copies, BagIn, BagToSet

(* An element taken out of a bag leaves the other copies. *)
LEMMA BagTake ==
    ASSUME NEW A, IsBag(A), NEW op, BagIn(op, A)
    PROVE  /\ IsBag(A (-) SetToBag({op}))
           /\ \A e : Copies(e, A (-) SetToBag({op}))
                       = Copies(e, A) - (IF e = op THEN 1 ELSE 0)
<1>. DEFINE R == A (-) SetToBag({op})
            B == [e \in DOMAIN A |-> IF e \in {op} THEN A[e] - 1 ELSE A[e]]
<1>1. R = [e \in {d \in DOMAIN B : B[d] > 0} |-> B[e]]
  BY DEF (-), SetToBag
<1>2. \A e \in DOMAIN A : A[e] \in Nat \ {0}
  BY DEF IsBag
<1>3. DOMAIN B = DOMAIN A
  OBVIOUS
<1>4. \A e \in DOMAIN A : B[e] = IF e = op THEN A[e] - 1 ELSE A[e]
  OBVIOUS
<1>. HIDE DEF B
<1>5. DOMAIN R = {d \in DOMAIN A : B[d] > 0}
  BY <1>1, <1>3
<1>6. \A e \in DOMAIN R : R[e] = B[e] /\ R[e] \in Nat \ {0}
  BY <1>1, <1>2, <1>4, <1>5
<1>7. R = [e \in DOMAIN R |-> R[e]]
  BY <1>1
<1>. HIDE DEF R
<1>8. IsBag(R)
  BY <1>5, <1>6, <1>7 DEF IsBag
<1>9. ASSUME NEW e
      PROVE  Copies(e, R) = Copies(e, A) - (IF e = op THEN 1 ELSE 0)
  <2>1. CASE e \in DOMAIN R
    BY <2>1, <1>2, <1>4, <1>5, <1>6 DEF Copies, BagIn, BagToSet
  <2>2. CASE e \notin DOMAIN R
    BY <2>2, <1>2, <1>4, <1>5 DEF Copies, BagIn, BagToSet
  <2>. QED
    BY <2>1, <2>2
<1>. QED
  BY <1>8, <1>9 DEF R

(* The places of an operation in a queue are finitely many. *)
LEMMA PlacesFinite ==
    ASSUME NEW q \in Seq(Ops), NEW op
    PROVE  /\ IsFiniteSet(Places(q, op))
           /\ Cardinality(Places(q, op)) \in Nat
<1>1. IsFiniteSet(1 .. Len(q))
  BY FS_Interval
<1>2. Places(q, op) \subseteq 1 .. Len(q)
  BY DEF Places
<1>. QED
  BY <1>1, <1>2, FS_Subset, FS_CardinalityType

(* A completion that is appended to the queue is one more place. *)
LEMMA PlacesAppend ==
    ASSUME NEW q \in Seq(Ops), NEW op \in Ops, NEW e
    PROVE  Cardinality(Places(Append(q, op), e))
             = Cardinality(Places(q, e)) + IF e = op THEN 1 ELSE 0
<1>1. CASE e = op
  <2>1. Places(Append(q, op), e) = Places(q, e) \cup {Len(q) + 1}
    BY <1>1 DEF Places
  <2>2. Len(q) + 1 \notin Places(q, e)
    BY DEF Places
  <2>. QED
    BY Zenon, <1>1, <2>1, <2>2, PlacesFinite, FS_AddElement
<1>2. CASE e # op
  <2>1. Places(Append(q, op), e) = Places(q, e)
    BY <1>2 DEF Places
  <2>. QED
    BY <1>2, <2>1, PlacesFinite
<1>. QED
  BY <1>1, <1>2

(* The completion that is taken off the queue is one place less. *)
LEMMA PlacesTail ==
    ASSUME NEW q \in Seq(Ops), q # << >>, NEW e
    PROVE  Cardinality(Places(q, e))
             = Cardinality(Places(Tail(q), e)) + IF e = Head(q) THEN 1 ELSE 0
<1>. DEFINE Rest == Places(q, e) \ {1}
            shift == [i \in Places(Tail(q), e) |-> i + 1]
<1>1. /\ Tail(q) \in Seq(Ops) /\ Len(Tail(q)) = Len(q) - 1 /\ Len(q) \in Nat \ {0}
      /\ \A i \in 1 .. Len(Tail(q)) : Tail(q)[i] = q[i + 1]
      /\ Head(q) = q[1]
  BY EmptySeq
<1>2. shift \in Bijection(Places(Tail(q), e), Rest)
  <2>1. ASSUME NEW i \in Places(Tail(q), e)
        PROVE  i + 1 \in Rest
    BY <1>1 DEF Places
  <2>2. ASSUME NEW j \in Rest
        PROVE  j - 1 \in Places(Tail(q), e) /\ shift[j - 1] = j
    BY <1>1 DEF Places
  <2>3. ASSUME NEW i \in Places(Tail(q), e), NEW j \in Places(Tail(q), e), shift[i] = shift[j]
        PROVE  i = j
    BY <1>1, <2>3 DEF Places
  <2>. QED
    BY Zenon, <2>1, <2>2, <2>3, Fun_IsBij
<1>3. Cardinality(Places(Tail(q), e)) = Cardinality(Rest)
  <2>. HIDE DEF Rest, shift
  <2>1. ExistsBijection(Places(Tail(q), e), Rest)
    BY <1>2 DEF ExistsBijection
  <2>2. IsFiniteSet(Places(Tail(q), e))
    BY Zenon, <1>1, PlacesFinite
  <2>. QED
    BY <2>1, <2>2, FS_Bijection
<1>4. CASE e = Head(q)
  <2>1. 1 \in Places(q, e)
    BY <1>1, <1>4 DEF Places
  <2>2. Cardinality(Rest) = Cardinality(Places(q, e)) - 1
    BY Zenon, <2>1, PlacesFinite, FS_RemoveElement
  <2>. QED
    BY <1>3, <1>4, <2>2, PlacesFinite
<1>5. CASE e # Head(q)
  <2>1. Rest = Places(q, e)
    BY <1>1, <1>5 DEF Places
  <2>2. Cardinality(Places(Tail(q), e)) \in Nat
    BY Zenon, <1>1, PlacesFinite
  <2>. HIDE DEF Rest
  <2>. QED
    BY <1>3, <1>5, <2>1, <2>2
<1>. QED
  BY <1>4, <1>5

(* What a bag holds is counted. *)
LEMMA CopiesCounted ==
    ASSUME NEW B, IsBag(B), NEW op
    PROVE  Copies(op, B) \in Nat
BY DEF IsBag, Copies, BagIn, BagToSet

(* The empty bag holds nothing. *)
LEMMA BagEmpty == IsBag(EmptyBag) /\ \A e : Copies(e, EmptyBag) = 0
BY BagOfSet DEF EmptyBag

(* What has not completed is counted. *)
LEMMA OpenCounted ==
    ASSUME Queues, NEW op
    PROVE  Open(op) \in Nat
BY CopiesCounted DEF Queues, Open

(* What is pending has not completed or is in the completion queue. *)
LEMMA PendingCounted ==
    ASSUME Queues, NEW op
    PROVE  /\ Pending(op) = Open(op) + Cardinality(Places(cq, op))
           /\ Pending(op) \in Nat
<1>1. Open(op) \in Nat
  BY OpenCounted
<1>2. Cardinality(Places(cq, op)) \in Nat
  BY PlacesFinite DEF Queues
<1>3. Pending(op) = Open(op) + Cardinality(Places(cq, op))
  BY DEF Pending, Places, Open
<1>. QED
  BY <1>1, <1>2, <1>3

(* The same of the next state. *)
LEMMA PendingNext ==
    ASSUME NEW op
    PROVE  Pending(op)' = Open(op)' + Cardinality(Places(cq', op))
BY DEF Pending, Places, Open

-----------------------------------------------------------------------------
(* What the steps do to the operations that are pending *)

(* Whether or not its submits fail, what a step submits is open. *)
LEMMA SubmittedMoves ==
    ASSUME Queues, NEW new \in SUBSET Ops, Submitted(new)
    PROVE  /\ IsBag(sq') /\ IsBag(kernel')
           /\ \A op : Open(op)' = Open(op) + IF op \in new THEN 1 ELSE 0
<1>0. /\ IsBag(sq) /\ IsBag(kernel)
      /\ \A op : Copies(op, sq) \in Nat /\ Copies(op, kernel) \in Nat
  BY CopiesCounted DEF Queues
<1>1. CASE sq' = sq (+) SetToBag(new) /\ kernel' = kernel
  <2>1. /\ IsBag(SetToBag(new))
        /\ \A op : Copies(op, SetToBag(new)) = IF op \in new THEN 1 ELSE 0
    BY BagOfSet
  <2>2. IsBag(sq') /\ \A op : Copies(op, sq') = Copies(op, sq) + Copies(op, SetToBag(new))
    BY <1>0, <1>1, <2>1, BagSum
  <2>. QED
    BY <1>0, <1>1, <2>1, <2>2 DEF Open
<1>2. ASSUME NEW late \in SUBSET new, sq' = SetToBag(late),
             kernel' = kernel (+) sq (+) SetToBag(new \ late)
      PROVE  /\ IsBag(sq') /\ IsBag(kernel')
             /\ \A op : Open(op)' = Open(op) + IF op \in new THEN 1 ELSE 0
  <2>1. /\ IsBag(sq')
        /\ \A op : Copies(op, sq') = IF op \in late THEN 1 ELSE 0
    BY <1>2, BagOfSet
  <2>2. /\ IsBag(SetToBag(new \ late))
        /\ \A op : Copies(op, SetToBag(new \ late)) = IF op \in new \ late THEN 1 ELSE 0
    BY BagOfSet
  <2>3. /\ IsBag(kernel (+) sq)
        /\ \A op : Copies(op, kernel (+) sq) = Copies(op, kernel) + Copies(op, sq)
    BY <1>0, BagSum
  <2>4. /\ IsBag(kernel')
        /\ \A op : Copies(op, kernel')
                     = Copies(op, kernel (+) sq) + Copies(op, SetToBag(new \ late))
    BY <1>2, <2>2, <2>3, BagSum
  <2>5. ASSUME NEW op
        PROVE  Open(op)' = Open(op) + IF op \in new THEN 1 ELSE 0
    <3>1. /\ Copies(op, sq) \in Nat /\ Copies(op, kernel) \in Nat
          /\ Open(op)' = Copies(op, sq') + Copies(op, kernel')
          /\ Open(op) = Copies(op, sq) + Copies(op, kernel)
      BY <1>0 DEF Open
    <3>2. /\ Copies(op, sq') = IF op \in late THEN 1 ELSE 0
          /\ Copies(op, kernel') = Copies(op, kernel) + Copies(op, sq)
                                     + IF op \in new \ late THEN 1 ELSE 0
      BY <2>1, <2>2, <2>3, <2>4
    <3>3. op \in late => op \in new
      OBVIOUS
    <3>. QED
      BY <3>1, <3>2, <3>3
  <2>. QED
    BY <2>1, <2>4, <2>5
<1>. QED
  BY <1>1, <1>2 DEF Submitted

(* process_cqe consumes its entry, and what it wakes adds what it submits. *)
LEMMA ProcessedMoves ==
    ASSUME Queues, NEW new \in SUBSET Wakers, cq # << >>, Processed(new)
    PROVE  /\ Queues'
           /\ \A op \in Wakers :
                Pending(op)' = Pending(op) - (IF op = Head(cq) THEN 1 ELSE 0)
                                 + (IF op \in new THEN 1 ELSE 0)
<1>1. /\ cq' \in Seq(Ops) /\ Len(cq') = Len(cq) - 1
  BY EmptySeq DEF Queues, Processed
<1>2. count' \in Nat /\ count' + Len(cq') <= CqSize
  BY <1>1, EventLoopAssumption, LenProperties DEF Queues, Processed
<1>3. /\ IsBag(sq') /\ IsBag(kernel')
      /\ \A op : Open(op)' = Open(op) + IF op \in new THEN 1 ELSE 0
  BY SubmittedMoves DEF Processed, Wakers
<1>4. Queues'
  BY <1>1, <1>2, <1>3 DEF Queues
<1>5. ASSUME NEW op \in Wakers
      PROVE  Pending(op)' = Pending(op) - (IF op = Head(cq) THEN 1 ELSE 0)
                              + (IF op \in new THEN 1 ELSE 0)
  <2>1. Pending(op) = Open(op) + Cardinality(Places(cq, op))
    BY PendingCounted
  <2>2. Pending(op)' = Open(op)' + Cardinality(Places(cq', op))
    BY PendingNext
  <2>3. Open(op)' = Open(op) + IF op \in new THEN 1 ELSE 0
    BY <1>3
  <2>4. Cardinality(Places(cq, op)) = Cardinality(Places(cq', op)) + IF op = Head(cq) THEN 1 ELSE 0
    BY PlacesTail DEF Queues, Processed
  <2>5. Open(op) \in Nat /\ Cardinality(Places(cq', op)) \in Nat
    BY <1>1, OpenCounted, PlacesFinite
  <2>. QED
    BY <2>1, <2>2, <2>3, <2>4, <2>5
<1>. QED
  BY <1>4, <1>5

-----------------------------------------------------------------------------
(* The steps of process_cqe *)

(* The operations of different loops and tasks are different. *)
LEMMA OpsDiffer ==
    /\ \A l \in Loop : LoopOp(l) \in Wakers
    /\ \A f \in Frame, leaf \in Suspended : Op(f, leaf) \in Wakers
    /\ \A l, m \in Loop : LoopOp(l) = LoopOp(m) => l = m
    /\ \A f, g \in Frame, a, b \in Suspended : Op(f, a) = Op(g, b) => f = g /\ a = b
    /\ \A l \in Loop, f \in Frame, a \in Suspended : LoopOp(l) # Op(f, a)
<1>1. /\ \A l \in Loop : LoopOp(l).owner = l
      /\ \A f \in Frame, a \in Suspended : Op(f, a).owner = f /\ Op(f, a).leaf = a
      /\ StopOp.owner = "stop"
  BY DEF LoopOp, Op, StopOp
<1>2. \A l \in Loop : l # "stop"
  BY DEF Loop, Spawner
<1>3. \A f \in Frame : f # "stop" /\ f \notin Loop
  BY EventLoopAssumption
<1>. QED
  BY <1>1, <1>2, <1>3 DEF Wakers, Ops

(* The first completion of the queue is pending. *)
LEMMA HeadPending ==
    ASSUME Queues, cq # << >>, Head(cq) \in Wakers
    PROVE  Pending(Head(cq)) >= 1
<1>1. 1 \in Places(cq, Head(cq))
  BY EmptySeq DEF Queues, Places
<1>2. IsFiniteSet(Places(cq, Head(cq))) /\ Cardinality(Places(cq, Head(cq))) \in Nat
  BY PlacesFinite DEF Queues
<1>3. Cardinality(Places(cq, Head(cq))) # 0
  BY <1>1, <1>2, FS_EmptySet
<1>4. Pending(Head(cq)) = Open(Head(cq)) + Cardinality(Places(cq, Head(cq)))
  BY PendingCounted
<1>5. Open(Head(cq)) \in Nat
  BY OpenCounted
<1>. QED
  BY <1>2, <1>3, <1>4, <1>5

(* Every loop has its operation, every task the one it is suspended on. *)
LoopsWake == \A l \in Loop : Pending(LoopOp(l)) = 1

TasksWake ==
    \A f \in Frame, leaf \in Suspended :
        Pending(Op(f, leaf)) = IF frame[f].state = leaf THEN 1 ELSE 0

FetchWakes ==
    /\ Waiters # {} => fetch # NoFrame
    /\ fetch # NoFrame => frame[fetch].state = "callee"

(* What a step within a batch must preserve. *)
LEMMA WithinBatch ==
    ASSUME LoopInv, pc = "batch", UNCHANGED <<pc, running, stopFd>>,
           Queues', frame' \in [Frame -> Task], fetch' \in Frame \cup {NoFrame},
           LoopsWake', TasksWake', FetchWakes'
    PROVE  LoopInv'
<1>1. TypeOK'
  <2>1. running' \in BOOLEAN
    BY Zenon DEF LoopInv, TypeOK
  <2>2. \A f \in Frame : /\ frame'[f].state \in Suspended \cup {"none", "waiting", "done"}
                         /\ frame'[f].list \in Spawner \cup {"none"}
    BY DEF Task
  <2>3. pc' = "batch" /\ pc' # "wait" /\ stopFd' \in {0, 1}
    BY DEF LoopInv, TypeOK
  <2>4. count' + Len(cq') <= CqSize
    BY DEF Queues
  <2>. QED
    BY <2>1, <2>2, <2>3, <2>4, Zenon DEF TypeOK
<1>2. OneWakerEach'
  BY Zenon DEF OneWakerEach, LoopsWake, TasksWake, FetchWakes
<1>3. Setup'
  BY DEF Setup
<1>. QED
  BY <1>1, <1>2, <1>3, Zenon DEF LoopInv

(* The task that the first completion resumes is suspended there. *)
LEMMA ResumedThere ==
    ASSUME LoopInv, pc = "batch", cq # << >>, NEW f \in Frame, Head(cq).owner = f
    PROVE  \E leaf \in Suspended : Head(cq) = Op(f, leaf) /\ frame[f].state = leaf
<1>1. Head(cq) \in Ops
  BY EmptySeq DEF LoopInv, Queues
<1>2. \A l \in Loop : LoopOp(l).owner \in Loop
  BY DEF LoopOp, Op
<1>3. \A g \in Frame, leaf \in Suspended : Op(g, leaf).owner = g
  BY DEF Op
<1>4. StopOp.owner = "stop"
  BY DEF StopOp, Op
<1>5. PICK leaf \in Suspended : Head(cq) = Op(f, leaf)
  BY <1>1, <1>2, <1>3, <1>4, EventLoopAssumption DEF Ops
<1>6. Pending(Op(f, leaf)) >= 1
  BY <1>5, HeadPending, OpsDiffer DEF LoopInv
<1>7. Pending(Op(f, leaf)) = IF frame[f].state = leaf THEN 1 ELSE 0
  BY DEF LoopInv, OneWakerEach
<1>. QED
  BY <1>5, <1>6, <1>7

(* The facts of the invariant that hold within a batch. *)
LEMMA BatchFacts ==
    ASSUME LoopInv, pc = "batch"
    PROVE  /\ LoopsWake /\ TasksWake /\ FetchWakes /\ Queues
           /\ frame \in [Frame -> Task] /\ fetch \in Frame \cup {NoFrame}
BY DEF LoopInv, OneWakerEach, LoopsWake, TasksWake, FetchWakes, TypeOK

(* process_cqe ignores the read of stop_fd_. *)
LEMMA StopStep ==
    ASSUME LoopInv, ProcessStop
    PROVE  LoopInv'
<1>1. pc = "batch" /\ UNCHANGED <<pc, running, stopFd, frame, fetch>>
  BY DEF ProcessStop, Processed
<1>2. /\ Queues'
      /\ \A op \in Wakers : Pending(op)' = Pending(op) - (IF op = Head(cq) THEN 1 ELSE 0)
                                              + (IF op \in {} THEN 1 ELSE 0)
  BY <1>1, BatchFacts, ProcessedMoves DEF ProcessStop
<1>3. \A op \in Wakers : Pending(op)' = Pending(op)
  BY <1>1, <1>2, BatchFacts, PendingCounted DEF ProcessStop, Wakers
<1>4. LoopsWake' /\ TasksWake' /\ FetchWakes'
  BY <1>1, <1>3, BatchFacts, OpsDiffer DEF LoopsWake, TasksWake, FetchWakes, Waiters
<1>. QED
  BY <1>1, <1>2, <1>4, BatchFacts, WithinBatch

(* A loop that goes on has submitted its next operation. *)
LEMMA IdleStep ==
    ASSUME LoopInv, NEW l \in Loop, ProcessIdle(l)
    PROVE  LoopInv'
<1>1. /\ pc = "batch" /\ UNCHANGED <<pc, running, stopFd, frame, fetch>>
      /\ {LoopOp(l)} \in SUBSET Wakers
  BY OpsDiffer DEF ProcessIdle, Processed
<1>2. /\ Queues'
      /\ \A op \in Wakers : Pending(op)' = Pending(op) - (IF op = Head(cq) THEN 1 ELSE 0)
                                              + (IF op \in {LoopOp(l)} THEN 1 ELSE 0)
  BY <1>1, BatchFacts, ProcessedMoves DEF ProcessIdle
<1>3. \A op \in Wakers : Pending(op)' = Pending(op)
  BY <1>1, <1>2, BatchFacts, PendingCounted DEF ProcessIdle
<1>4. LoopsWake' /\ TasksWake' /\ FetchWakes'
  BY <1>1, <1>3, BatchFacts, OpsDiffer DEF LoopsWake, TasksWake, FetchWakes, Waiters
<1>. QED
  BY <1>1, <1>2, <1>4, BatchFacts, WithinBatch

(* A task that is started suspends on its own operation, and the tasks     *)
(* that are destroyed had none.                                            *)
LEMMA SpawnStep ==
    ASSUME LoopInv, NEW l \in Spawner, ProcessSpawn(l)
    PROVE  LoopInv'
<1>1. PICK f \in Fresh, state \in Suspended :
        /\ frame' = Erased([frame EXCEPT ![f] = [state |-> state, list |-> l]], l)
        /\ Processed({Op(f, state), LoopOp(l)})
  BY Zenon DEF ProcessSpawn
<1>2. /\ pc = "batch" /\ UNCHANGED <<pc, running, stopFd, fetch>>
      /\ cq # << >> /\ Head(cq) = LoopOp(l)
      /\ l \in Loop /\ f \in Frame /\ frame[f] = NoTask
      /\ {Op(f, state), LoopOp(l)} \in SUBSET Wakers
  BY <1>1, OpsDiffer DEF ProcessSpawn, Processed, Loop, Fresh
<1>3. /\ Queues'
      /\ \A op \in Wakers :
           Pending(op)' = Pending(op) - (IF op = Head(cq) THEN 1 ELSE 0)
                            + (IF op \in {Op(f, state), LoopOp(l)} THEN 1 ELSE 0)
  BY <1>1, <1>2, BatchFacts, ProcessedMoves
<1>4. /\ frame' \in [Frame -> Task]
      /\ frame'[f].state = state
      /\ \A g \in Frame \ {f} :
           \/ frame'[g] = frame[g]
           \/ frame[g].state = "done" /\ frame'[g].state = "none"
  <2>. DEFINE started == [frame EXCEPT ![f] = [state |-> state, list |-> l]]
  <2>1. /\ started \in [Frame -> Task]
        /\ started[f].state = state
        /\ \A g \in Frame \ {f} : started[g] = frame[g]
    BY <1>2, BatchFacts DEF Task
  <2>. HIDE DEF started
  <2>2. frame' = [g \in Frame |-> IF started[g].list = l /\ started[g].state = "done" THEN NoTask
                                  ELSE started[g]]
    BY <1>1 DEF Erased, started
  <2>3. NoTask \in Task /\ NoTask.state = "none"
    BY DEF NoTask, Task
  <2>4. state # "done"
    BY DEF Suspended
  <2>5. \A g \in Frame : frame'[g] \in Task
    BY <2>1, <2>2, <2>3
  <2>6. frame'[f].state = state
    BY <1>2, <2>1, <2>2, <2>4
  <2>7. ASSUME NEW g \in Frame \ {f}
        PROVE  \/ frame'[g] = frame[g]
               \/ frame[g].state = "done" /\ frame'[g].state = "none"
    <3>1. started[g] = frame[g] /\ g \in Frame
      BY <2>1
    <3>2. CASE frame[g].list = l /\ frame[g].state = "done"
      <4>1. frame'[g] = NoTask
        BY <2>2, <3>1, <3>2
      <4>. QED
        BY <2>3, <3>2, <4>1
    <3>3. CASE ~(frame[g].list = l /\ frame[g].state = "done")
      BY <2>2, <3>1, <3>3
    <3>. QED
      BY <3>2, <3>3
  <2>8. frame' \in [Frame -> Task]
    BY <2>2, <2>5
  <2>. QED
    BY <2>6, <2>7, <2>8, Zenon
<1>5. LoopsWake'
  <2>. SUFFICES ASSUME NEW m \in Loop
                PROVE  Pending(LoopOp(m))' = 1
    BY DEF LoopsWake
  <2>1. Pending(LoopOp(m)) = 1 /\ LoopOp(m) \in Wakers
    BY <1>2, BatchFacts, OpsDiffer DEF LoopsWake
  <2>2. LoopOp(m) \in {Op(f, state), LoopOp(l)} <=> LoopOp(m) = Head(cq)
    BY <1>2, OpsDiffer
  <2>. QED
    BY <1>3, <2>1, <2>2
<1>6. TasksWake'
  <2>. SUFFICES ASSUME NEW g \in Frame, NEW leaf \in Suspended
                PROVE  Pending(Op(g, leaf))' = IF frame'[g].state = leaf THEN 1 ELSE 0
    BY DEF TasksWake
  <2>1. /\ Pending(Op(g, leaf)) = IF frame[g].state = leaf THEN 1 ELSE 0
        /\ Op(g, leaf) \in Wakers
    BY <1>2, BatchFacts, OpsDiffer DEF TasksWake
  <2>2. /\ Op(g, leaf) # Head(cq)
        /\ Op(g, leaf) \in {Op(f, state), LoopOp(l)} <=> g = f /\ leaf = state
    BY <1>2, OpsDiffer
  <2>3. frame[f].state = "none"
    BY <1>2 DEF NoTask
  <2>. QED
    BY <1>3, <1>4, <2>1, <2>2, <2>3 DEF Suspended
<1>7. FetchWakes'
  <2>1. Waiters' \subseteq Waiters
    BY <1>4 DEF Waiters, Suspended
  <2>2. ASSUME fetch # NoFrame
        PROVE  frame'[fetch].state = "callee"
    BY <1>2, <1>4, <2>2, BatchFacts DEF FetchWakes, NoTask
  <2>. QED
    BY <1>2, <2>1, <2>2, BatchFacts DEF FetchWakes
<1>. QED
  BY <1>2, <1>3, <1>4, <1>5, <1>6, <1>7, BatchFacts, WithinBatch

(* A task that is resumed suspends again, on one operation, or ends. *)
LEMMA TaskStep ==
    ASSUME LoopInv, NEW f \in Frame, ProcessTask(f)
    PROVE  LoopInv'
<1>1. PICK state \in Suspended \cup {"done"} :
        /\ f = fetch => state = "callee"
        /\ frame' = [frame EXCEPT ![f].state = state]
        /\ Processed(IF state = "done" THEN {} ELSE {Op(f, state)})
  BY Zenon DEF ProcessTask
<1>. DEFINE new == IF state = "done" THEN {} ELSE {Op(f, state)}
<1>2. /\ pc = "batch" /\ UNCHANGED <<pc, running, stopFd, fetch>>
      /\ cq # << >> /\ Head(cq).owner = f
  BY <1>1 DEF ProcessTask, Processed
<1>3. PICK leaf \in Suspended : Head(cq) = Op(f, leaf) /\ frame[f].state = leaf
  BY <1>2, ResumedThere
<1>4. /\ Queues'
      /\ \A op \in Wakers : Pending(op)' = Pending(op) - (IF op = Head(cq) THEN 1 ELSE 0)
                                              + (IF op \in new THEN 1 ELSE 0)
  <2>1. new \in SUBSET Wakers
    BY OpsDiffer
  <2>2. Processed(new)
    BY <1>1
  <2>. HIDE DEF new
  <2>. QED
    BY <1>2, <2>1, <2>2, BatchFacts, ProcessedMoves
<1>5. /\ frame' \in [Frame -> Task]
      /\ frame'[f].state = state
      /\ \A g \in Frame \ {f} : frame'[g] = frame[g]
  BY <1>1, <1>2, BatchFacts DEF Task
<1>6. LoopsWake'
  <2>. SUFFICES ASSUME NEW m \in Loop
                PROVE  Pending(LoopOp(m))' = 1
    BY DEF LoopsWake
  <2>1. Pending(LoopOp(m)) = 1 /\ LoopOp(m) \in Wakers
    BY <1>2, BatchFacts, OpsDiffer DEF LoopsWake
  <2>2. LoopOp(m) \notin new /\ LoopOp(m) # Head(cq)
    BY <1>3, OpsDiffer
  <2>. QED
    BY <1>4, <2>1, <2>2
<1>7. TasksWake'
  <2>. SUFFICES ASSUME NEW g \in Frame, NEW a \in Suspended
                PROVE  Pending(Op(g, a))' = IF frame'[g].state = a THEN 1 ELSE 0
    BY DEF TasksWake
  <2>1. /\ Pending(Op(g, a)) = IF frame[g].state = a THEN 1 ELSE 0
        /\ Op(g, a) \in Wakers
    BY <1>2, BatchFacts, OpsDiffer DEF TasksWake
  <2>2. /\ Op(g, a) = Head(cq) <=> g = f /\ a = leaf
        /\ Op(g, a) \in new <=> g = f /\ a = state
    BY <1>3, OpsDiffer DEF Suspended
  <2>. HIDE DEF new
  <2>. QED
    BY <1>3, <1>4, <1>5, <2>1, <2>2
<1>8. FetchWakes'
  <2>1. Waiters' \subseteq Waiters
    BY <1>5 DEF Waiters, Suspended
  <2>2. ASSUME fetch # NoFrame
        PROVE  frame'[fetch].state = "callee"
    BY <1>1, <1>2, <1>5, <2>2, BatchFacts DEF FetchWakes
  <2>. QED
    BY <1>2, <2>1, <2>2, BatchFacts DEF FetchWakes
<1>. QED
  BY <1>2, <1>4, <1>5, <1>6, <1>7, <1>8, BatchFacts, WithinBatch

(* The handler that proxies a GET goes on waiting for its callee. *)
LEMMA InitiateStep ==
    ASSUME LoopInv, NEW f \in Frame, ProcessInitiate(f)
    PROVE  LoopInv'
<1>1. /\ pc = "batch" /\ UNCHANGED <<pc, running, stopFd, frame>>
      /\ cq # << >> /\ Head(cq) = Op(f, "callee") /\ fetch' = f
      /\ "callee" \in Suspended /\ {Op(f, "callee")} \in SUBSET Wakers
  BY OpsDiffer DEF ProcessInitiate, Processed, Suspended
<1>2. /\ Queues'
      /\ \A op \in Wakers : Pending(op)' = Pending(op) - (IF op = Head(cq) THEN 1 ELSE 0)
                                              + (IF op \in {Op(f, "callee")} THEN 1 ELSE 0)
  BY <1>1, BatchFacts, ProcessedMoves DEF ProcessInitiate
<1>3. \A op \in Wakers : Pending(op)' = Pending(op)
  BY <1>1, <1>2, BatchFacts, PendingCounted
<1>4. LoopsWake' /\ TasksWake'
  BY <1>1, <1>3, BatchFacts, OpsDiffer DEF LoopsWake, TasksWake
<1>5. frame[f].state = "callee"
  <2>1. Head(cq).owner = f /\ \A leaf \in Suspended : Op(f, leaf) = Head(cq) => leaf = "callee"
    BY <1>1 DEF Op
  <2>. QED
    BY <1>1, <2>1, ResumedThere
<1>6. FetchWakes'
  BY <1>1, <1>5, EventLoopAssumption DEF FetchWakes
<1>. QED
  BY <1>1, <1>2, <1>4, <1>6, BatchFacts, WithinBatch

(* A handler that joins a fetch gives up its operation for the fetch. *)
LEMMA JoinStep ==
    ASSUME LoopInv, NEW f \in Frame, ProcessJoin(f)
    PROVE  LoopInv'
<1>1. /\ pc = "batch" /\ UNCHANGED <<pc, running, stopFd, fetch>>
      /\ cq # << >> /\ Head(cq) = Op(f, "callee") /\ fetch \notin {NoFrame, f}
      /\ frame' = [frame EXCEPT ![f].state = "waiting"]
      /\ "callee" \in Suspended
  BY DEF ProcessJoin, Processed, Suspended
<1>2. frame[f].state = "callee"
  <2>1. Head(cq).owner = f /\ \A leaf \in Suspended : Op(f, leaf) = Head(cq) => leaf = "callee"
    BY <1>1 DEF Op
  <2>. QED
    BY <1>1, <2>1, ResumedThere
<1>3. /\ Queues'
      /\ \A op \in Wakers : Pending(op)' = Pending(op) - (IF op = Head(cq) THEN 1 ELSE 0)
                                              + (IF op \in {} THEN 1 ELSE 0)
  BY <1>1, BatchFacts, ProcessedMoves DEF ProcessJoin
<1>4. /\ frame' \in [Frame -> Task]
      /\ frame'[f].state = "waiting"
      /\ \A g \in Frame \ {f} : frame'[g] = frame[g]
  BY <1>1, BatchFacts DEF Task
<1>5. LoopsWake'
  <2>. SUFFICES ASSUME NEW m \in Loop
                PROVE  Pending(LoopOp(m))' = 1
    BY DEF LoopsWake
  <2>1. Pending(LoopOp(m)) = 1 /\ LoopOp(m) \in Wakers /\ LoopOp(m) # Head(cq)
    BY <1>1, BatchFacts, OpsDiffer DEF LoopsWake
  <2>. QED
    BY <1>3, <2>1
<1>6. TasksWake'
  <2>. SUFFICES ASSUME NEW g \in Frame, NEW a \in Suspended
                PROVE  Pending(Op(g, a))' = IF frame'[g].state = a THEN 1 ELSE 0
    BY DEF TasksWake
  <2>1. /\ Pending(Op(g, a)) = IF frame[g].state = a THEN 1 ELSE 0
        /\ Op(g, a) \in Wakers
    BY <1>1, BatchFacts, OpsDiffer DEF TasksWake
  <2>2. Op(g, a) = Head(cq) <=> g = f /\ a = "callee"
    BY <1>1, OpsDiffer
  <2>3. a # "waiting"
    BY DEF Suspended
  <2>. QED
    BY <1>2, <1>3, <1>4, <2>1, <2>2, <2>3
<1>7. FetchWakes'
  BY <1>1, <1>4, BatchFacts DEF FetchWakes
<1>. QED
  BY <1>1, <1>3, <1>4, <1>5, <1>6, <1>7, BatchFacts, WithinBatch

(* The end of the fetch resumes every waiter, which submits its write. *)
LEMMA FetchedStep ==
    ASSUME LoopInv, NEW f \in Frame, ProcessFetched(f)
    PROVE  LoopInv'
<1>. DEFINE new == {Op(g, "callee") : g \in Waiters \cup {f}}
<1>1. /\ pc = "batch" /\ UNCHANGED <<pc, running, stopFd>>
      /\ cq # << >> /\ Head(cq) = Op(f, "callee") /\ fetch' = NoFrame
      /\ frame' = [g \in Frame |-> IF g \in Waiters THEN [frame[g] EXCEPT !.state = "callee"]
                                    ELSE frame[g]]
      /\ "callee" \in Suspended /\ Waiters \subseteq Frame
  BY DEF ProcessFetched, Processed, Suspended, Waiters
<1>2. frame[f].state = "callee"
  <2>1. Head(cq).owner = f /\ \A leaf \in Suspended : Op(f, leaf) = Head(cq) => leaf = "callee"
    BY <1>1 DEF Op
  <2>. QED
    BY <1>1, <2>1, ResumedThere
<1>3. /\ Queues'
      /\ \A op \in Wakers : Pending(op)' = Pending(op) - (IF op = Head(cq) THEN 1 ELSE 0)
                                              + (IF op \in new THEN 1 ELSE 0)
  <2>1. new \in SUBSET Wakers
    BY <1>1, OpsDiffer
  <2>2. Processed(new)
    BY DEF ProcessFetched
  <2>. HIDE DEF new
  <2>. QED
    BY <1>1, <2>1, <2>2, BatchFacts, ProcessedMoves
<1>4. /\ frame' \in [Frame -> Task]
      /\ \A g \in Waiters : frame'[g].state = "callee"
      /\ \A g \in Frame \ Waiters : frame'[g] = frame[g]
  BY <1>1, BatchFacts DEF Task, Waiters, Suspended
<1>5. \A g \in Frame : g \in Waiters <=> frame[g].state = "waiting"
  BY DEF Waiters
<1>6. LoopsWake'
  <2>. SUFFICES ASSUME NEW m \in Loop
                PROVE  Pending(LoopOp(m))' = 1
    BY DEF LoopsWake
  <2>1. Pending(LoopOp(m)) = 1 /\ LoopOp(m) \in Wakers /\ LoopOp(m) # Head(cq)
    BY <1>1, BatchFacts, OpsDiffer DEF LoopsWake
  <2>2. LoopOp(m) \notin new
    BY <1>1, OpsDiffer
  <2>. QED
    BY <1>3, <2>1, <2>2
<1>7. TasksWake'
  <2>. SUFFICES ASSUME NEW g \in Frame, NEW a \in Suspended
                PROVE  Pending(Op(g, a))' = IF frame'[g].state = a THEN 1 ELSE 0
    BY DEF TasksWake
  <2>1. /\ Pending(Op(g, a)) = IF frame[g].state = a THEN 1 ELSE 0
        /\ Op(g, a) \in Wakers
    BY <1>1, BatchFacts, OpsDiffer DEF TasksWake
  <2>2. Op(g, a) = Head(cq) <=> g = f /\ a = "callee"
    BY <1>1, OpsDiffer
  <2>3. Op(g, a) \in new <=> g \in Waiters \cup {f} /\ a = "callee"
    BY <1>1, OpsDiffer
  <2>4. a # "waiting"
    BY DEF Suspended
  <2>. HIDE DEF new
  <2>5. CASE g \in Waiters
    BY <2>5, <1>2, <1>3, <1>4, <1>5, <2>1, <2>2, <2>3, <2>4
  <2>6. CASE g \notin Waiters
    BY <2>6, <1>2, <1>3, <1>4, <1>5, <2>1, <2>2, <2>3, <2>4
  <2>. QED
    BY <2>5, <2>6
<1>8. FetchWakes'
  <2>1. Waiters' = {}
    BY <1>4, <1>5 DEF Waiters
  <2>. QED
    BY <1>1, <2>1 DEF FetchWakes
<1>. QED
  BY <1>1, <1>3, <1>4, <1>6, <1>7, <1>8, BatchFacts, WithinBatch

-----------------------------------------------------------------------------
(* The other steps *)

(* A step that resumes nobody and submits for nobody. *)
LEMMA QuietStep ==
    ASSUME LoopInv, Queues', Setup', UNCHANGED <<frame, fetch>>,
           \A op \in Wakers : Pending(op)' = Pending(op),
           pc' \in {"setup", "ready", "loop", "enter", "wait", "batch", "over", "exited"},
           pc' \notin {"setup", "exited"} => pc \notin {"setup", "exited"},
           running' \in BOOLEAN, stopFd' \in {0, 1}, pc' = "wait" => sq' = EmptyBag
    PROVE  LoopInv'
<1>1. TypeOK'
  <2>1. \A f \in Frame : /\ frame'[f].state \in Suspended \cup {"none", "waiting", "done"}
                         /\ frame'[f].list \in Spawner \cup {"none"}
    BY DEF LoopInv, Task
  <2>2. fetch' \in Frame \cup {NoFrame}
    BY DEF LoopInv, TypeOK
  <2>3. count' + Len(cq') <= CqSize
    BY DEF Queues
  <2>. QED
    BY <2>1, <2>2, <2>3, Zenon DEF TypeOK
<1>2. OneWakerEach'
  BY OpsDiffer DEF LoopInv, OneWakerEach, Waiters
<1>3. frame' \in [Frame -> Task]
  BY DEF LoopInv
<1>. QED
  BY <1>1, <1>2, <1>3, Zenon DEF LoopInv

(* A step of main that touches no queue. *)
LEMMA PlainStep ==
    ASSUME LoopInv, UNCHANGED <<stopFd, sq, kernel, cq, count, frame, fetch>>,
           pc \notin {"setup", "ready", "exited"},
           pc' \in {"loop", "enter", "batch", "over"}, running' \in BOOLEAN
    PROVE  LoopInv'
<1>1. Queues'
  BY DEF LoopInv, Queues
<1>2. \A op \in Wakers : Pending(op)' = Pending(op)
  BY DEF Pending
<1>3. Setup'
  BY DEF Setup
<1>4. stopFd' \in {0, 1}
  BY DEF LoopInv, TypeOK
<1>. QED
  BY <1>1, <1>2, <1>3, <1>4, QuietStep

(* listener.start and swim.run submit one operation for each loop. *)
LEMMA StartStep ==
    ASSUME LoopInv, StartLoops
    PROVE  LoopInv'
<1>. DEFINE first == {LoopOp(l) : l \in Loop}
<1>1. /\ pc = "setup" /\ pc' = "ready" /\ sq = EmptyBag /\ kernel = EmptyBag
      /\ cq' = << >> /\ frame' = [f \in Frame |-> NoTask] /\ fetch' = NoFrame
      /\ UNCHANGED <<running, stopFd, cq, count, frame>>
      /\ Submitted(first)
  BY DEF StartLoops, LoopInv, Setup
<1>2. /\ IsBag(sq') /\ IsBag(kernel')
      /\ \A op : Open(op)' = IF op \in first THEN 1 ELSE 0
  <2>1. first \in SUBSET Ops
    BY DEF Ops
  <2>. HIDE DEF first
  <2>2. \A op : Open(op) = 0
    BY <1>1, BagEmpty DEF Open
  <2>3. /\ IsBag(sq') /\ IsBag(kernel')
        /\ \A op : Open(op)' = Open(op) + IF op \in first THEN 1 ELSE 0
    BY <1>1, <2>1, SubmittedMoves DEF LoopInv
  <2>. QED
    BY <2>2, <2>3
<1>3. Queues'
  BY <1>1, <1>2 DEF LoopInv, Queues
<1>4. \A op \in Wakers : Pending(op)' = IF op \in first THEN 1 ELSE 0
  <2>. SUFFICES ASSUME NEW op \in Wakers
                PROVE  Pending(op)' = IF op \in first THEN 1 ELSE 0
    OBVIOUS
  <2>1. Places(cq', op) = {}
    BY <1>1 DEF Places
  <2>2. Pending(op)' = Open(op)' + Cardinality(Places(cq', op))
    BY PendingNext
  <2>3. Cardinality({}) = 0
    BY FS_EmptySet
  <2>. HIDE DEF first
  <2>. QED
    BY <1>2, <2>1, <2>2, <2>3
<1>5. \A l \in Loop : LoopOp(l) \in first
  OBVIOUS
<1>6. \A f \in Frame, leaf \in Suspended : Op(f, leaf) \notin first
  BY OpsDiffer
<1>7. \A f \in Frame : frame'[f].state = "none" /\ frame'[f].list = "none"
  BY <1>1 DEF NoTask
<1>. HIDE DEF first
<1>8. OneWakerEach'
  <2>1. \A l \in Loop : Pending(LoopOp(l))' = 1
    BY <1>4, <1>5, OpsDiffer
  <2>2. \A f \in Frame, leaf \in Suspended :
          Pending(Op(f, leaf))' = IF frame'[f].state = leaf THEN 1 ELSE 0
    BY <1>4, <1>6, <1>7, OpsDiffer DEF Suspended
  <2>3. Waiters' = {}
    BY <1>7 DEF Waiters
  <2>. QED
    BY <1>1, <2>1, <2>2, <2>3 DEF OneWakerEach
<1>9. TypeOK'
  <2>1. running' \in BOOLEAN
    BY <1>1, Zenon DEF LoopInv, TypeOK
  <2>2. \A f \in Frame : /\ frame'[f].state \in Suspended \cup {"none", "waiting", "done"}
                         /\ frame'[f].list \in Spawner \cup {"none"}
    BY <1>7
  <2>3. pc' = "ready" /\ pc' # "wait" /\ stopFd' \in {0, 1} /\ fetch' \in Frame \cup {NoFrame}
    BY <1>1 DEF LoopInv, TypeOK
  <2>4. count' + Len(cq') <= CqSize
    BY <1>3 DEF Queues
  <2>. QED
    BY <2>1, <2>2, <2>3, <2>4, Zenon DEF TypeOK
<1>10. Setup' /\ frame' \in [Frame -> Task]
  BY <1>1 DEF Setup, LoopInv
<1>. QED
  BY <1>3, <1>8, <1>9, <1>10, Zenon DEF LoopInv

(* arm_stop_event prepares the read of stop_fd_ and nothing else. *)
LEMMA RunStep ==
    ASSUME LoopInv, Run
    PROVE  LoopInv'
<1>1. /\ pc = "ready" /\ pc' = "loop" /\ running' = TRUE
      /\ UNCHANGED <<stopFd, kernel, cq, count, frame, fetch>>
      /\ sq' = sq (+) SetToBag({StopOp})
      /\ IsBag(sq) /\ IsBag(kernel)
  BY DEF Run, LoopInv, Queues
<1>2. /\ IsBag(sq')
      /\ \A op \in Wakers : Copies(op, sq') = Copies(op, sq)
  <2>1. /\ IsBag(SetToBag({StopOp}))
        /\ \A op : Copies(op, SetToBag({StopOp})) = IF op \in {StopOp} THEN 1 ELSE 0
    BY BagOfSet DEF Ops
  <2>2. IsBag(sq') /\ \A op : Copies(op, sq') = Copies(op, sq) + Copies(op, SetToBag({StopOp}))
    BY <1>1, <2>1, BagSum
  <2>. QED
    BY <1>1, <2>1, <2>2, CopiesCounted DEF Wakers
<1>3. Queues'
  BY <1>1, <1>2 DEF LoopInv, Queues
<1>4. \A op \in Wakers : Pending(op)' = Pending(op)
  BY <1>1, <1>2 DEF Pending
<1>5. stopFd' \in {0, 1}
  BY <1>1 DEF LoopInv, TypeOK
<1>6. Setup'
  BY <1>1 DEF Setup
<1>. QED
  BY <1>1, <1>3, <1>4, <1>5, <1>6, QuietStep

(* io_uring_submit_and_wait hands over what is prepared. *)
LEMMA EnterStep ==
    ASSUME LoopInv, Enter
    PROVE  LoopInv'
<1>1. /\ pc = "enter" /\ pc' = "wait"
      /\ UNCHANGED <<running, stopFd, cq, count, frame, fetch>>
      /\ kernel' = kernel (+) sq /\ sq' = EmptyBag
  BY DEF Enter
<1>2. /\ IsBag(sq) /\ IsBag(kernel)
      /\ \A op : Copies(op, sq) \in Nat /\ Copies(op, kernel) \in Nat
  BY CopiesCounted DEF LoopInv, Queues
<1>3. IsBag(kernel') /\ \A op : Copies(op, kernel') = Copies(op, kernel) + Copies(op, sq)
  BY <1>1, <1>2, BagSum
<1>4. Queues'
  BY <1>1, <1>3, BagEmpty DEF LoopInv, Queues
<1>5. \A op \in Wakers : Pending(op)' = Pending(op)
  BY <1>1, <1>2, <1>3, BagEmpty DEF Pending
<1>6. running' \in BOOLEAN
  BY <1>1, Zenon DEF LoopInv, TypeOK
<1>7. stopFd' \in {0, 1} /\ Setup'
  BY <1>1 DEF LoopInv, TypeOK, Setup
<1>. QED
  BY <1>1, <1>4, <1>5, <1>6, <1>7, QuietStep

(* A batch ends with its queue empty, and all its entries are given back. *)
LEMMA BatchEndStep ==
    ASSUME LoopInv, BatchEnd
    PROVE  LoopInv'
<1>1. /\ pc = "batch" /\ pc' = "loop" /\ count' = 0 /\ cq' = << >>
      /\ UNCHANGED <<running, stopFd, sq, kernel, cq, frame, fetch>>
  BY DEF BatchEnd
<1>2. Len(cq') = 0
  BY <1>1
<1>3. Queues /\ Queues'
  BY <1>1, <1>2, EventLoopAssumption DEF LoopInv, Queues
<1>4. \A op \in Wakers : Pending(op)' = Pending(op)
  BY <1>1 DEF Pending
<1>5. running' \in BOOLEAN
  BY <1>1, Zenon DEF LoopInv, TypeOK
<1>6. stopFd' \in {0, 1} /\ Setup'
  BY <1>1 DEF LoopInv, TypeOK, Setup
<1>. QED
  BY <1>1, <1>3, <1>4, <1>5, <1>6, QuietStep

(* main returns, and nothing is left. *)
LEMMA ReturnStep ==
    ASSUME LoopInv, Return
    PROVE  LoopInv'
<1>1. /\ pc' = "exited" /\ sq' = EmptyBag /\ kernel' = EmptyBag /\ cq' = << >>
      /\ frame' = [f \in Frame |-> NoTask] /\ fetch' = NoFrame
      /\ UNCHANGED <<running, stopFd, count>>
  BY DEF Return
<1>2. /\ Len(cq') = 0 /\ count \in Nat /\ count + Len(cq) <= CqSize /\ Len(cq) \in Nat
      /\ CqSize \in Nat
  BY <1>1, LenProperties, EventLoopAssumption DEF LoopInv, Queues
<1>3. IsBag(sq') /\ IsBag(kernel')
  BY <1>1, BagEmpty
<1>4. count' + Len(cq') <= CqSize
  BY <1>1, <1>2
<1>5. Queues'
  BY <1>1, <1>2, <1>3, <1>4 DEF Queues
<1>6. NoTask \in Task
  BY DEF NoTask, Task
<1>7. frame' \in [Frame -> Task]
  BY <1>1, <1>6
<1>8. TypeOK'
  <2>1. running' \in BOOLEAN
    BY <1>1, Zenon DEF LoopInv, TypeOK
  <2>2. \A f \in Frame : /\ frame'[f].state \in Suspended \cup {"none", "waiting", "done"}
                         /\ frame'[f].list \in Spawner \cup {"none"}
    BY <1>7 DEF Task
  <2>3. pc' = "exited" /\ stopFd' \in {0, 1} /\ fetch' \in Frame \cup {NoFrame}
    BY <1>1 DEF LoopInv, TypeOK
  <2>4. sq' = EmptyBag /\ count' + Len(cq') <= CqSize
    BY <1>1, <1>5 DEF Queues
  <2>. QED
    BY <2>1, <2>2, <2>3, <2>4, Zenon DEF TypeOK
<1>9. OneWakerEach' /\ Setup'
  BY <1>1 DEF OneWakerEach, Setup
<1>. QED
  BY <1>5, <1>7, <1>8, <1>9, Zenon DEF LoopInv

(* signal_handler touches running_ and stop_fd_ only. *)
LEMMA SignalStep ==
    ASSUME LoopInv, Signal
    PROVE  LoopInv'
<1>1. /\ running' = FALSE /\ stopFd' = 1
      /\ UNCHANGED <<sq, kernel, cq, count, frame, fetch>>
      /\ pc # "exited" /\ (pc' = pc \/ (pc = "wait" /\ pc' = "loop"))
  BY DEF Signal
<1>2. Queues'
  BY <1>1 DEF LoopInv, Queues
<1>3. \A op \in Wakers : Pending(op)' = Pending(op)
  BY <1>1 DEF Pending
<1>4. Setup'
  BY <1>1 DEF LoopInv, Setup
<1>5. pc' \in {"setup", "ready", "loop", "enter", "wait", "batch", "over", "exited"}
  BY <1>1 DEF LoopInv, TypeOK
<1>6. pc' \notin {"setup", "exited"} => pc \notin {"setup", "exited"}
  BY <1>1
<1>7. running' \in BOOLEAN /\ stopFd' \in {0, 1}
  BY Zenon, <1>1
<1>8. pc' = "wait" => sq' = EmptyBag
  BY <1>1 DEF LoopInv, TypeOK
<1>. QED
  BY <1>1, <1>2, <1>3, <1>4, <1>5, <1>6, <1>7, <1>8, QuietStep

(* A completion moves its operation from the kernel to the queue. *)
LEMMA CompleteStep ==
    ASSUME LoopInv, NEW op, Complete(op)
    PROVE  LoopInv'
<1>1. /\ count + Len(cq) < CqSize /\ BagIn(op, kernel)
      /\ kernel' = kernel (-) SetToBag({op}) /\ cq' = Append(cq, op)
      /\ UNCHANGED <<pc, running, sq, count, frame, fetch>>
  BY DEF Complete
<1>2. stopFd' \in {0, 1}
  BY DEF Complete, LoopInv, TypeOK
<1>3. IsBag(kernel) /\ cq \in Seq(Ops) /\ op \in Ops
  BY <1>1 DEF LoopInv, Queues, IsBag, BagIn, BagToSet
<1>4. /\ IsBag(kernel')
      /\ \A e : Copies(e, kernel') = Copies(e, kernel) - (IF e = op THEN 1 ELSE 0)
  BY <1>1, <1>3, BagTake
<1>5. cq' \in Seq(Ops) /\ Len(cq') = Len(cq) + 1 /\ Len(cq) \in Nat
  BY <1>1, <1>3
<1>6. count' \in Nat /\ count' + Len(cq') <= CqSize
  BY <1>1, <1>5, EventLoopAssumption DEF LoopInv, Queues
<1>7. Queues /\ Queues'
  BY <1>1, <1>4, <1>5, <1>6 DEF LoopInv, Queues
<1>8. ASSUME NEW e \in Wakers
      PROVE  Pending(e)' = Pending(e)
  <2>1. Pending(e) = Copies(e, sq) + Copies(e, kernel) + Cardinality(Places(cq, e))
    BY DEF Pending, Places
  <2>2. Pending(e)' = Copies(e, sq) + Copies(e, kernel') + Cardinality(Places(cq', e))
    BY <1>1 DEF Pending, Places
  <2>3. Cardinality(Places(cq', e)) = Cardinality(Places(cq, e)) + IF e = op THEN 1 ELSE 0
    BY <1>1, <1>3, PlacesAppend
  <2>4. /\ Copies(e, sq) \in Nat /\ Copies(e, kernel) \in Nat
        /\ Cardinality(Places(cq, e)) \in Nat
    BY <1>3, <1>7, CopiesCounted, PlacesFinite DEF Queues
  <2>. QED
    BY <1>4, <2>1, <2>2, <2>3, <2>4
<1>9. running' \in BOOLEAN
  BY <1>1, Zenon DEF LoopInv, TypeOK
<1>10. pc' \in {"setup", "ready", "loop", "enter", "wait", "batch", "over", "exited"}
  BY <1>1 DEF LoopInv, TypeOK
<1>11. pc # "setup"
  <2>. SUFFICES ASSUME pc = "setup"
                PROVE  FALSE
    OBVIOUS
  <2>1. kernel = EmptyBag
    BY DEF LoopInv, Setup
  <2>. QED
    BY <1>1, <2>1 DEF EmptyBag, SetToBag, BagIn, BagToSet
<1>12. Setup'
  BY <1>1, <1>11 DEF LoopInv, Setup
<1>13. pc' = "wait" => sq' = EmptyBag
  BY <1>1 DEF LoopInv, TypeOK
<1>. QED
  BY <1>1, <1>2, <1>7, <1>8, <1>9, <1>10, <1>12, <1>13, QuietStep

-----------------------------------------------------------------------------
(* The invariant *)

(* The process starts in the invariant. *)
LEMMA LoopInvInit == Init => LoopInv
<1>. SUFFICES ASSUME Init
              PROVE  LoopInv
  OBVIOUS
<1>1. /\ pc = "setup" /\ running = FALSE /\ stopFd = 0
      /\ sq = EmptyBag /\ kernel = EmptyBag /\ cq = << >> /\ count = 0
      /\ frame = [f \in Frame |-> NoTask] /\ fetch = NoFrame
  BY DEF Init
<1>2. Len(cq) = 0
  BY <1>1
<1>3. IsBag(sq) /\ IsBag(kernel)
  BY <1>1, BagEmpty
<1>4. Queues
  BY <1>1, <1>2, <1>3, EventLoopAssumption DEF Queues
<1>5. NoTask \in Task
  BY DEF NoTask, Task
<1>6. frame \in [Frame -> Task]
  BY <1>1, <1>5
<1>7. TypeOK
  <2>1. \A f \in Frame : /\ frame[f].state \in Suspended \cup {"none", "waiting", "done"}
                         /\ frame[f].list \in Spawner \cup {"none"}
    BY <1>6 DEF Task
  <2>. QED
    BY Zenon, <1>1, <1>4, <2>1 DEF TypeOK, Queues
<1>. QED
  BY <1>1, <1>4, <1>6, <1>7 DEF LoopInv, Setup, OneWakerEach

(* Every step keeps the invariant. *)
LEMMA LoopInvNext == LoopInv /\ [Next]_vars => LoopInv'
<1>. SUFFICES ASSUME LoopInv, [Next]_vars
              PROVE  LoopInv'
  OBVIOUS
<1>1. CASE StartLoops
  BY <1>1, StartStep
<1>2. CASE Run
  BY <1>2, RunStep
<1>3. CASE LoopHead
  <2>1. running' \in BOOLEAN
    BY <1>3, Zenon DEF LoopHead, LoopInv, TypeOK
  <2>. QED
    BY <1>3, <2>1, PlainStep DEF LoopHead
<1>4. CASE Enter
  BY <1>4, EnterStep
<1>5. CASE EnterFails \/ Wake
  <2>1. running' \in BOOLEAN
    BY <1>5, Zenon DEF EnterFails, Wake, LoopInv, TypeOK
  <2>. QED
    BY <1>5, <2>1, PlainStep DEF EnterFails, Wake
<1>6. CASE BatchEnd
  BY <1>6, BatchEndStep
<1>7. CASE Process
  BY <1>7, StopStep, IdleStep, SpawnStep, TaskStep, InitiateStep, JoinStep, FetchedStep
     DEF Process
<1>8. CASE Return
  BY <1>8, ReturnStep
<1>9. CASE Signal
  BY <1>9, SignalStep
<1>10. CASE \E op \in BagToSet(kernel) : Complete(op)
  BY <1>10, CompleteStep
<1>11. CASE UNCHANGED vars
  BY <1>11 DEF vars, LoopInv, TypeOK, Queues, Setup, OneWakerEach, Pending, Waiters
<1>. QED
  BY <1>1, <1>2, <1>3, <1>4, <1>5, <1>6, <1>7, <1>8, <1>9, <1>10, <1>11 DEF Next, Main

(* The invariant holds throughout. *)
LEMMA LoopInvHolds == Spec => []LoopInv
BY LoopInvInit, LoopInvNext, PTL DEF Spec

(* The variables of the event loop have their types; the thread never      *)
(* sleeps on an operation that is only prepared, though submits may fail   *)
(* unseen (awaitable.h 28-35, io_uring_context.cpp 97-108); and a batch    *)
(* never holds more entries than the completion queue, for any size of the *)
(* queue.                                                                  *)
THEOREM LoopTypes == Spec => []TypeOK
BY LoopInvHolds, PTL DEF LoopInv

(* However many tasks there are, and however completions, signals and the  *)
(* batches of process_cqe interleave: each loop and each suspended task    *)
(* has exactly one operation that will resume it, at the coroutine that    *)
(* waits, a handler in the wait group waits for one that has, and none     *)
(* refers to a task that is done or destroyed (awaitable.h await_suspend,  *)
(* tcp_listener.cpp 52-69, task.h 15-28, wait_group.cpp 16-38).            *)
THEOREM OneWaker == Spec => []OneWakerEach
BY LoopInvHolds, PTL DEF LoopInv
=============================================================================
