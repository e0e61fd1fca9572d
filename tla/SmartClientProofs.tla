------------------------- MODULE SmartClientProofs --------------------------
(***************************************************************************)
(* SmartClient.tla for any number of threads and nodes and any limits: the *)
(* types, that every socket has one owner, a call, a refresh or a pool,    *)
(* and that their number is bounded.                                       *)
(***************************************************************************)
EXTENDS SmartClient, RingProofs

(* What record_failure makes of an entry, without Min. *)
LEMMA FailureCounts ==
    ASSUME NEW e, e.failures \in 0 .. Threshold
    PROVE  AfterFailure(e) =
             IF e.failures + 1 >= Threshold
             THEN [state |-> "Open", failures |-> Threshold, expired |-> FALSE]
             ELSE [e EXCEPT !.failures = e.failures + 1]
<1> DEFINE k == e.failures + 1
           least(x) == x \in {k, Threshold} /\ \A y \in {k, Threshold} : x <= y
<1>1. k \in Nat /\ Threshold \in Nat
  BY ClientAssumption
<1>2. Min({k, Threshold}) = CHOOSE x \in {k, Threshold} : \A y \in {k, Threshold} : x <= y
  BY DEF Min
<1>3. \E x \in {k, Threshold} : \A y \in {k, Threshold} : x <= y
  BY <1>1
<1>4. least(Min({k, Threshold}))
  BY <1>2, <1>3
<1>5. Min({k, Threshold}) = IF k >= Threshold THEN Threshold ELSE k
  BY <1>1, <1>4
<1>6. AfterFailure(e) =
        IF Min({k, Threshold}) >= Threshold
        THEN [state |-> "Open", failures |-> Min({k, Threshold}), expired |-> FALSE]
        ELSE [e EXCEPT !.failures = Min({k, Threshold})]
  BY DEF AfterFailure
<1>7. CASE k >= Threshold
  <2>1. Min({k, Threshold}) = Threshold /\ Threshold >= Threshold
    BY <1>1, <1>5, <1>7
  <2>2. AfterFailure(e) = [state |-> "Open", failures |-> Threshold, expired |-> FALSE]
    BY <1>6, <2>1, Zenon
  <2> QED
    BY <1>7, <2>2, Zenon
<1>8. CASE ~(k >= Threshold)
  BY <1>1, <1>5, <1>6, <1>8
<1> QED
  BY <1>7, <1>8

(* An entry of the breaker. *)
IsEntry(e) ==
    /\ {"state", "failures", "expired"} \subseteq DOMAIN e
    /\ e.state \in {"Closed", "Open", "HalfOpen"}
    /\ e.failures \in 0 .. Threshold
    /\ e.expired \in BOOLEAN

BreakerInv == DOMAIN breaker = Node /\ \A n \in Node : IsEntry(breaker[n])

(* Each operation of the breaker makes one of one. *)
LEMMA OperationsTyped ==
    ASSUME NEW e, IsEntry(e)
    PROVE  /\ IsEntry(AfterAllow(e)) /\ IsEntry(AfterSuccess(e)) /\ IsEntry(AfterFailure(e))
           /\ e.state # "Closed" => IsEntry([e EXCEPT !.expired = TRUE])
<1> USE ClientAssumption
<1>1. IsEntry(AfterAllow(e))
  BY DEF IsEntry, AfterAllow
<1>2. IsEntry(AfterSuccess(e))
  BY DEF IsEntry, AfterSuccess, Closed
<1>3. IsEntry(AfterFailure(e))
  <2> DEFINE d == AfterFailure(e)
  <2>1. CASE e.failures + 1 >= Threshold
    <3>1. d = [state |-> "Open", failures |-> Threshold, expired |-> FALSE]
      BY <2>1, FailureCounts DEF IsEntry
    <3> HIDE DEF d
    <3>2. /\ {"state", "failures", "expired"} \subseteq DOMAIN d
          /\ d.state = "Open" /\ d.failures = Threshold
      BY <3>1
    <3>3. d.expired \in BOOLEAN
      BY <3>1, Zenon
    <3> QED
      BY <3>2, <3>3 DEF IsEntry, d
  <2>2. CASE ~(e.failures + 1 >= Threshold)
    <3>1. d = [e EXCEPT !.failures = e.failures + 1]
      BY <2>2, FailureCounts DEF IsEntry
    <3> HIDE DEF d
    <3>2. /\ {"state", "failures", "expired"} \subseteq DOMAIN d
          /\ d.state = e.state /\ d.failures = e.failures + 1
      BY <3>1 DEF IsEntry
    <3>3. d.expired \in BOOLEAN
      BY <3>1, Zenon DEF IsEntry
    <3> QED
      BY <2>2, <3>2, <3>3 DEF IsEntry, d
  <2> QED
    BY <2>1, <2>2
<1>4. ASSUME e.state # "Closed" PROVE IsEntry([e EXCEPT !.expired = TRUE])
  BY DEF IsEntry
<1> QED
  BY <1>1, <1>2, <1>3, <1>4

(* At the start every breaker is closed. *)
LEMMA BreakerInit == Init => BreakerInv
<1>1. /\ {"state", "failures", "expired"} \subseteq DOMAIN Closed
      /\ Closed.state = "Closed" /\ Closed.failures = 0
  BY DEF Closed
<1>2. Closed.expired \in BOOLEAN
  BY Zenon DEF Closed
<1>3. IsEntry(Closed)
  BY <1>1, <1>2, ClientAssumption DEF IsEntry
<1> QED
  BY <1>3 DEF Init, BreakerInv

(* Steps that change a breaker apply one of its operations to one entry. *)
LEMMA BreakerStep == BreakerInv /\ [Next]_vars => BreakerInv'
<1> SUFFICES ASSUME BreakerInv, [Next]_vars PROVE BreakerInv'
  OBVIOUS
<1>1. ASSUME UNCHANGED breaker PROVE BreakerInv'
  BY <1>1 DEF BreakerInv
<1>2. ASSUME NEW n, NEW e, n \in Node => IsEntry(e), breaker' = [breaker EXCEPT ![n] = e]
      PROVE  BreakerInv'
  BY <1>2 DEF BreakerInv
<1>3. ASSUME NEW n, n \in Node
      PROVE  /\ IsEntry(AfterAllow(breaker[n])) /\ IsEntry(AfterSuccess(breaker[n]))
             /\ IsEntry(AfterFailure(breaker[n]))
             /\ breaker[n].state # "Closed" => IsEntry([breaker[n] EXCEPT !.expired = TRUE])
  BY <1>3, OperationsTyped DEF BreakerInv
<1>4. ASSUME NEW t \in Thread, CallStep(t) PROVE BreakerInv'
  <2>1. ASSUME Allow(t) PROVE BreakerInv'
    BY Zenon, <1>2, <1>3, <2>1 DEF Allow
  <2>2. ASSUME OnFailure(t) PROVE BreakerInv'
    BY Zenon, <1>2, <1>3, <2>2 DEF OnFailure
  <2>3. ASSUME OnSuccess(t) PROVE BreakerInv'
    BY Zenon, <1>2, <1>3, <2>3 DEF OnSuccess
  <2>4. ASSUME \/ AcquirePooled(t) \/ AcquireNone(t) \/ Connect(t)
               \/ Answered(t) \/ Broken(t) \/ Release(t)
        PROVE  BreakerInv'
    BY <1>1, <2>4
       DEF AcquirePooled, AcquireNone, Connect, Answered, Broken, Release
  <2> QED
    BY <1>4, <2>1, <2>2, <2>3, <2>4 DEF CallStep
<1>5. ASSUME NEW n \in Node, Expire(n) PROVE BreakerInv'
  BY Zenon, <1>2, <1>3, <1>5 DEF Expire
<1>6. ASSUME NEW t, RefreshStep(t) PROVE BreakerInv'
  BY <1>1, <1>6 DEF RefreshStep, RefreshStart, RefreshEnd, FetchConnect, FetchRead
<1>7. ASSUME NEW n, Stop(n) \/ Start(n) \/ Settle(n) PROVE BreakerInv'
  BY <1>1, <1>7 DEF Stop, Start, Settle
<1>8. ASSUME NEW t, NEW h, Execute(t, h) PROVE BreakerInv'
  BY <1>1, <1>8 DEF Execute
<1>9. ASSUME Bootstrap \/ UNCHANGED vars PROVE BreakerInv'
  BY <1>1, <1>9 DEF Bootstrap, vars
<1> QED
  BY <1>4, <1>5, <1>6, <1>7, <1>8, <1>9, ZenonT(60) DEF Next

(* The breakers keep their types in every reachable state. *)
LEMMA BreakerInvariant == Spec => []BreakerInv
BY BreakerInit, BreakerStep, PTL DEF Spec

-----------------------------------------------------------------------------
(* The state of a call, and the types *)

CallRec == [pc : PC, targets : Seq(Node), fd : Nat \cup {NoFd},
            status : {"Ok", "Error"}]

RefreshRec == [pc : {"none", "fetch", "read", "apply"}, todo : SUBSET Node,
               fd : Nat \cup {NoFd}, fresh : SUBSET Node]

(* A call holds a descriptor exactly between acquire and release, has a    *)
(* target until it returns, and is at its end while its refresh runs.      *)
CallShape(t) ==
    /\ call[t].fd # NoFd <=> call[t].pc \in {"exchange", "release"}
    /\ call[t].pc = "idle" <=> call[t] = Idle
    /\ call[t].pc # "idle" => call[t].targets # << >> /\ nodes # {}
    /\ refresh[t].pc # "none" => call[t].pc = "refresh"

(* A refresh holds a socket exactly while it reads, and takes over views   *)
(* that are not empty.                                                     *)
RefreshShape(t) ==
    /\ refresh[t].fd # NoFd <=> refresh[t].pc = "read"
    /\ refresh[t].pc = "apply" => refresh[t].fresh # {}
    /\ refresh[t].pc # "none" => nodes # {}

ConnsTyped ==
    /\ DOMAIN conns \in SUBSET Nat /\ IsFiniteSet(DOMAIN conns)
    /\ \A f \in DOMAIN conns :
         {"node", "live"} \subseteq DOMAIN conns[f] /\ conns[f].node \in Node

TypeInv ==
    /\ up \in SUBSET Node /\ settled \in SUBSET Node /\ nodes \in SUBSET Node
    /\ pool \in [Node -> Seq(Nat)]
    /\ ConnsTyped
    /\ call \in [Thread -> CallRec]
    /\ refresh \in [Worker -> RefreshRec]
    /\ \A t \in Worker : RefreshShape(t)
    /\ \A t \in Thread : CallShape(t)

PoolsBounded == \A n \in Node : Len(pool[n]) <= MaxIdle

(* Who holds what, and that calls hold connections to their targets: the   *)
(* two halves of ConnectionsOwned.                                         *)
Owned ==
    /\ \A t \in Worker : \A f \in Held(t) :
         /\ f \in DOMAIN conns
         /\ \A s \in Worker \ {t} : f \notin Held(s)
         /\ \A n \in Node : f \notin Range(pool[n])
    /\ \A n \in Node :
         /\ IsInjective(pool[n])
         /\ \A f \in Range(pool[n]) : f \in DOMAIN conns /\ conns[f].node = n
    /\ \A f \in DOMAIN conns :
         \/ \E t \in Worker : f \in Held(t)
         \/ f \in Range(pool[conns[f].node])

Aimed ==
    \A t \in Thread : call[t].fd # NoFd => conns[call[t].fd].node = Target(t)

ClientInv == TypeInv /\ Owned /\ Aimed /\ PoolsBounded

(* What find_successors returns are nodes of the view, none if it is empty.*)
LEMMA SuccessorsTyped ==
    ASSUME TypeInv, NEW h \in Position, NEW k
    PROVE  /\ FindSuccessors(h, k) \in Seq(Node)
           /\ FindSuccessors(h, k) # << >> => nodes # {}
<1> DEFINE s == FindSuccessors(h, k)
<1>1. DOMAIN Ring \in SUBSET Position
  BY ClientAssumption DEF Ring, TypeInv
<1>2. Range(Ring) \in SUBSET nodes
  <2>1. ASSUME NEW u \in DOMAIN Ring  PROVE Ring[u] \in nodes
    <3>1. \E n \in nodes : u \in Tokens[n]
      BY DEF Ring
    <3> QED
      BY <3>1 DEF Ring
  <2> QED
    BY <2>1 DEF Range
<1>3. s \in Seq(Range(Ring))
  BY <1>1, NNodesTyped DEF FindSuccessors
<1> HIDE DEF s
<1>4. /\ Len(s) \in Nat /\ DOMAIN s = 1 .. Len(s) /\ s \in [1 .. Len(s) -> Range(Ring)]
  BY <1>3, LenProperties
<1>5. s \in [1 .. Len(s) -> Node]
  BY <1>2, <1>4 DEF TypeInv
<1>6. s \in Seq(Node)
  BY <1>4, <1>5
<1>7. ASSUME s # << >>, nodes = {}  PROVE FALSE
  <2>1. Range(Ring) = {}
    BY <1>2, <1>7
  <2>2. Len(s) # 0
    BY <1>3, <1>7, EmptySeq
  <2>3. 1 \in 1 .. Len(s)
    BY <1>4, <2>2
  <2> QED
    BY <1>4, <2>1, <2>3
<1> QED
  BY <1>6, <1>7 DEF s

(* The state of a call that has ended. *)
LEMMA IdleTyped == Idle \in CallRec /\ Idle.pc = "idle" /\ Idle.fd = NoFd
BY DEF Idle, CallRec, PC

(* A call that is given the state d. *)
CallBecomes(t, d) ==
    /\ d \in CallRec
    /\ call' = [call EXCEPT ![t] = d]
    /\ d.fd # NoFd <=> d.pc \in {"exchange", "release"}
    /\ d.pc = "idle" => d = Idle
    /\ d.pc # "idle" => d.targets # << >> /\ nodes # {}

(* The loop of execute goes on with the next target, or ends. *)
LEMMA AdvanceBecomes ==
    ASSUME TypeInv, NEW t \in Thread, call[t].pc # "idle", call' = Advance(t)
    PROVE  \E d : CallBecomes(t, d) /\ d.fd = NoFd
<1> DEFINE q == call[t].targets
           d == [Idle EXCEPT !.pc = "allow", !.targets = Tail(q)]
<1>1. q \in Seq(Node) /\ q # << >> /\ nodes # {}
  BY DEF TypeInv, CallShape, CallRec
<1> HIDE DEF q
<1>2. CASE Len(q) = 1
  <2>1. call' = [call EXCEPT ![t] = Idle]
    BY <1>2 DEF Advance, q
  <2> QED
    BY Zenon, <2>1, IdleTyped DEF CallBecomes
<1>3. CASE Len(q) # 1
  <2>1. call' = [call EXCEPT ![t] = d]
    BY <1>3 DEF Advance, q
  <2>2. Len(q) \in Nat /\ Len(q) # 0
    BY <1>1, LenProperties, EmptySeq
  <2>3. Tail(q) \in Seq(Node) /\ Len(Tail(q)) = Len(q) - 1
    BY <1>1, HeadTailProperties
  <2>4. Tail(q) # << >>
    <3>1. Len(q) - 1 # 0
      BY <1>3, <2>2
    <3>2. Len(Tail(q)) # 0
      BY <2>3, <3>1
    <3>3. Len(<< >>) = 0
      OBVIOUS
    <3> QED
      BY <3>2, <3>3, Zenon
  <2>5. "allow" \in PC
    BY DEF PC
  <2>6. d = [Idle EXCEPT !.pc = "allow", !.targets = Tail(q)]
    OBVIOUS
  <2> HIDE DEF d
  <2>7. d \in CallRec /\ d.pc = "allow" /\ d.fd = NoFd /\ d.targets = Tail(q)
    BY Zenon, <2>3, <2>5, <2>6 DEF Idle, CallRec
  <2> QED
    BY Zenon, <1>1, <2>1, <2>4, <2>7 DEF CallBecomes
<1> QED
  BY <1>2, <1>3

-----------------------------------------------------------------------------
(* What the steps of a call do to connections *)

(* A socket to n is opened. *)
Opening(g, n) ==
    /\ g \in Nat \ DOMAIN conns
    /\ conns' = [f \in DOMAIN conns \cup {g} |->
                   IF f = g THEN [node |-> n, live |-> TRUE] ELSE conns[f]]

(* What is open then. *)
LEMMA OpenTyped ==
    ASSUME ConnsTyped, NEW g, NEW n \in Node, Opening(g, n)
    PROVE  /\ ConnsTyped' /\ DOMAIN conns' = DOMAIN conns \cup {g}
           /\ \A f \in DOMAIN conns : conns'[f] = conns[f]
           /\ conns'[g].node = n
<1>1. /\ DOMAIN conns' = DOMAIN conns \cup {g} /\ g \in Nat \ DOMAIN conns
      /\ conns'[g] = [node |-> n, live |-> TRUE]
      /\ \A f \in DOMAIN conns : conns'[f] = conns[f]
  BY DEF Opening
<1>2. IsFiniteSet(DOMAIN conns \cup {g})
  BY FS_AddElement DEF ConnsTyped
<1>3. DOMAIN conns'[g] = {"node", "live"} /\ conns'[g].node = n
  BY <1>1
<1> QED
  BY <1>1, <1>2, <1>3 DEF ConnsTyped

(* And after a close. *)
LEMMA CloseTyped ==
    ASSUME ConnsTyped, NEW g, conns' = Close(g)
    PROVE  /\ ConnsTyped' /\ DOMAIN conns' = DOMAIN conns \ {g}
           /\ \A f \in DOMAIN conns' : conns'[f] = conns[f]
<1>1. /\ DOMAIN conns' = DOMAIN conns \ {g}
      /\ \A f \in DOMAIN conns' : conns'[f] = conns[f]
  BY DEF Close, Restrict
<1>2. IsFiniteSet(DOMAIN conns \ {g})
  BY FS_RemoveElement DEF ConnsTyped
<1> QED
  BY <1>1, <1>2 DEF ConnsTyped

Rest == UNCHANGED <<nodes, refresh>>

(* No connection changes hands. *)
Stays(t, d) ==
    /\ Rest /\ CallBecomes(t, d) /\ UNCHANGED <<pool, conns>>
    /\ d.fd = call[t].fd
    /\ d.fd # NoFd => d.targets = call[t].targets

(* The call takes the connection idle longest from the pool of its target. *)
Takes(t, d) ==
    /\ Rest /\ CallBecomes(t, d) /\ UNCHANGED conns
    /\ call[t].fd = NoFd /\ call[t].targets # << >>
    /\ pool[Target(t)] # << >>
    /\ pool' = [pool EXCEPT ![Target(t)] = Tail(@)]
    /\ d.fd = Head(pool[Target(t)]) /\ d.targets = call[t].targets

(* The call opens a connection to its target. *)
Opens(t, d) ==
    /\ Rest /\ CallBecomes(t, d) /\ UNCHANGED pool
    /\ call[t].fd = NoFd /\ call[t].targets # << >>
    /\ d.targets = call[t].targets
    /\ Opening(d.fd, Target(t))

(* The call closes its connection. *)
Shuts(t, d) ==
    /\ Rest /\ CallBecomes(t, d) /\ UNCHANGED pool
    /\ call[t].fd # NoFd /\ d.fd = NoFd
    /\ conns' = Close(call[t].fd)

(* The call gives its connection back. *)
Returns(t, d) ==
    /\ Rest /\ CallBecomes(t, d) /\ UNCHANGED conns
    /\ call[t].fd # NoFd /\ d.fd = NoFd
    /\ ~(Len(pool[Target(t)]) >= MaxIdle)
    /\ pool' = [pool EXCEPT ![Target(t)] = Append(@, call[t].fd)]

Moves(t, d) ==
    Stays(t, d) \/ Takes(t, d) \/ Opens(t, d) \/ Shuts(t, d) \/ Returns(t, d)

(* The types of what a call under way holds. *)
LEMMA CallTyped ==
    ASSUME TypeInv, NEW t \in Thread
    PROVE  /\ call[t] \in CallRec /\ call[t].pc \in PC
           /\ call[t].fd \in Nat \cup {NoFd}
           /\ call[t].targets \in Seq(Node)
           /\ call[t].pc # "idle" =>
                call[t].targets # << >> /\ Target(t) \in Node /\ nodes # {}
           /\ call[t].fd # NoFd <=> call[t].pc \in {"exchange", "release"}
<1>1. call[t] \in CallRec
  BY DEF TypeInv
<1>2. /\ call[t].pc \in PC /\ call[t].fd \in Nat \cup {NoFd}
      /\ call[t].targets \in Seq(Node)
  BY <1>1 DEF CallRec
<1>3. call[t].pc # "idle" => call[t].targets # << >> /\ nodes # {}
  BY DEF TypeInv, CallShape
<1>4. call[t].targets # << >> => Target(t) \in Node
  BY <1>2, HeadTailProperties DEF Target
<1>5. call[t].fd # NoFd <=> call[t].pc \in {"exchange", "release"}
  BY DEF TypeInv, CallShape
<1> QED
  BY <1>1, <1>2, <1>3, <1>4, <1>5

(* The lowest descriptor free is a number, and free. *)
LEMMA FreeFd ==
    ASSUME TypeInv
    PROVE  NewFd \in Nat \ DOMAIN conns
<1> DEFINE k == Cardinality(DOMAIN conns)
           S == (0 .. k) \ DOMAIN conns
<1>1. k \in Nat
  BY FS_CardinalityType DEF TypeInv, ConnsTyped
<1>2. S # {}
  <2> SUFFICES ASSUME 0 .. k \in SUBSET DOMAIN conns  PROVE FALSE
    OBVIOUS
  <2>1. Cardinality(0 .. k) <= k
    BY Zenon, FS_Subset DEF TypeInv, ConnsTyped
  <2>2. Cardinality(0 .. k) = k - 0 + 1
    BY <1>1, FS_Interval
  <2> QED
    BY <1>1, <2>1, <2>2
<1>3. S \in SUBSET Nat
  BY <1>1
<1> HIDE DEF S
<1>4. Min(S) \in S
  BY <1>2, <1>3, MinProperty
<1> QED
  BY <1>3, <1>4 DEF S, NewFd

(* Every step of a call is one of the moves. *)
LEMMA CallMoves ==
    ASSUME TypeInv, NEW t \in Thread, CallStep(t)
    PROVE  \E d : Moves(t, d)
<1> USE DEF Rest
<1>0. /\ call[t] \in CallRec /\ call[t].pc \in PC
      /\ call[t].fd # NoFd <=> call[t].pc \in {"exchange", "release"}
      /\ call[t].pc # "idle" => call[t].targets # << >> /\ nodes # {}
  BY CallTyped
<1>1. call \in [Thread -> CallRec]
  BY DEF TypeInv
<1>2. ASSUME NEW p \in PC \ {"idle"}, call[t].pc # "idle", call' = Goto(t, p),
             call[t].fd = NoFd, p \notin {"exchange", "release"}
      PROVE  \E d : CallBecomes(t, d) /\ d.fd = NoFd
  <2> DEFINE d == [call[t] EXCEPT !.pc = p]
  <2>1. call' = [call EXCEPT ![t] = d]
    BY <1>1, <1>2 DEF Goto
  <2>2. d \in CallRec /\ d.pc = p /\ d.fd = call[t].fd /\ d.targets = call[t].targets
    BY <1>0, <1>2 DEF CallRec
  <2> HIDE DEF d
  <2> QED
    BY Zenon, <1>0, <1>2, <2>1, <2>2 DEF CallBecomes
<1>3. ASSUME UNCHANGED <<nodes, refresh, pool, conns>>, call[t].fd = NoFd,
             \E d : CallBecomes(t, d) /\ d.fd = NoFd
      PROVE  \E d : Moves(t, d)
  BY <1>3 DEF Moves, Stays
<1>4. CASE Allow(t)
  <2>1. CASE call' = Goto(t, "acquire")
    BY <1>0, <1>2, <1>3, <1>4, <2>1 DEF Allow, PC
  <2>2. CASE call' = Advance(t)
    BY <1>0, <1>3, <1>4, <2>2, AdvanceBecomes DEF Allow
  <2> QED
    BY <1>4, <2>1, <2>2 DEF Allow
<1>5. CASE AcquirePooled(t)
  <2> DEFINE f == Head(pool[Target(t)])
             d == [call[t] EXCEPT !.pc = "exchange", !.fd = f]
  <2>1. call[t].pc = "acquire" /\ pool[Target(t)] # << >> /\ Target(t) \in Node
    BY <1>5, CallTyped DEF AcquirePooled
  <2>2. f \in Nat
    BY <2>1, HeadTailProperties DEF TypeInv
  <2>3. call' = [call EXCEPT ![t] = d]
    BY Zenon, <1>1, <1>5 DEF AcquirePooled
  <2>4. /\ d \in CallRec /\ d.pc = "exchange" /\ d.fd = f
        /\ d.targets = call[t].targets
    BY Zenon, <1>0, <2>2 DEF CallRec, PC
  <2>5. f # NoFd
    BY <2>2 DEF NoFd
  <2> HIDE DEF d
  <2>6. CallBecomes(t, d)
    BY <1>0, <2>1, <2>3, <2>4, <2>5 DEF CallBecomes
  <2> QED
    BY <1>0, <1>5, <2>1, <2>4, <2>6 DEF Moves, Takes, AcquirePooled
<1>6. CASE AcquireNone(t)
  BY <1>0, <1>2, <1>3, <1>6 DEF AcquireNone, PC
<1>7. CASE Connect(t)
  <2> DEFINE f == NewFd
             d == [call[t] EXCEPT !.pc = "exchange", !.fd = f]
  <2>1. CASE Target(t) \in up
    <3>1. f \in Nat \ DOMAIN conns
      BY FreeFd
    <3>2. /\ call[t].pc = "connect"
          /\ call' = [call EXCEPT ![t].pc = "exchange", ![t].fd = f]
          /\ conns' = [g \in DOMAIN conns \cup {f} |->
                         IF g = f THEN [node |-> Target(t), live |-> TRUE] ELSE conns[g]]
          /\ UNCHANGED <<nodes, refresh, pool>>
      BY <1>7, <2>1 DEF Connect, Opened
    <3> HIDE DEF f
    <3>3. call' = [call EXCEPT ![t] = d]
      BY Zenon, <1>1, <3>2
    <3>4. /\ d \in CallRec /\ d.pc = "exchange" /\ d.fd = f
          /\ d.targets = call[t].targets
      BY Zenon, <1>0, <3>1 DEF CallRec, PC
    <3>5. f # NoFd
      BY <3>1 DEF NoFd
    <3> HIDE DEF d
    <3>6. CallBecomes(t, d)
      BY Zenon, <1>0, <3>2, <3>3, <3>4, <3>5 DEF CallBecomes
    <3>7. Opens(t, d)
      BY <1>0, <3>1, <3>2, <3>4, <3>6 DEF Opens, Opening
    <3> QED
      BY <3>7 DEF Moves
  <2>2. CASE ~(Target(t) \in up)
    BY <1>0, <1>2, <1>3, <1>7, <2>2 DEF Connect, PC
  <2> QED
    BY <2>1, <2>2
<1>8. CASE Answered(t)
  <2>1. PICK status \in {"Ok", "Error"} :
          call' = [call EXCEPT ![t].pc = "release", ![t].status = status]
    BY Zenon, <1>8 DEF Answered
  <2> DEFINE d == [call[t] EXCEPT !.pc = "release", !.status = status]
  <2>2. call' = [call EXCEPT ![t] = d]
    BY Zenon, <1>1, <2>1
  <2>3. /\ d \in CallRec /\ d.pc = "release" /\ d.fd = call[t].fd
        /\ d.targets = call[t].targets
    BY Zenon, <1>0 DEF CallRec, PC
  <2> HIDE DEF d
  <2>4. CallBecomes(t, d)
    BY Zenon, <1>0, <1>8, <2>2, <2>3 DEF CallBecomes, Answered
  <2> QED
    BY <1>8, <2>3, <2>4 DEF Moves, Stays, Answered
<1>9. CASE Broken(t)
  <2> DEFINE d == [call[t] EXCEPT !.pc = "failure", !.fd = NoFd]
  <2>1. call' = [call EXCEPT ![t] = d]
    BY Zenon, <1>1, <1>9 DEF Broken
  <2>2. /\ d \in CallRec /\ d.pc = "failure" /\ d.fd = NoFd
        /\ d.targets = call[t].targets
    BY Zenon, <1>0 DEF CallRec, PC
  <2> HIDE DEF d
  <2>3. CallBecomes(t, d)
    BY Zenon, <1>0, <1>9, <2>1, <2>2 DEF CallBecomes, Broken
  <2> QED
    BY <1>0, <1>9, <2>2, <2>3 DEF Moves, Shuts, Broken
<1>10. CASE OnFailure(t)
  BY <1>0, <1>3, <1>10, AdvanceBecomes DEF OnFailure
<1>11. CASE Release(t)
  <2> DEFINE d == [call[t] EXCEPT !.pc = "success", !.fd = NoFd]
  <2>1. call' = [call EXCEPT ![t] = d]
    BY Zenon, <1>1, <1>11 DEF Release
  <2>2. /\ d \in CallRec /\ d.pc = "success" /\ d.fd = NoFd
        /\ d.targets = call[t].targets
    BY Zenon, <1>0 DEF CallRec, PC
  <2> HIDE DEF d
  <2>3. CallBecomes(t, d)
    BY Zenon, <1>0, <1>11, <2>1, <2>2 DEF CallBecomes, Release
  <2>4. CASE Len(pool[Target(t)]) >= MaxIdle
    BY <1>0, <1>11, <2>2, <2>3, <2>4 DEF Moves, Shuts, Release
  <2>5. CASE ~(Len(pool[Target(t)]) >= MaxIdle)
    BY <1>0, <1>11, <2>2, <2>3, <2>5 DEF Moves, Returns, Release
  <2> QED
    BY <2>4, <2>5
<1>12. CASE OnSuccess(t)
  <2>1. CASE call' = Goto(t, "refresh")
    BY <1>0, <1>2, <1>3, <1>12, <2>1 DEF OnSuccess, PC
  <2>2. CASE call' = [call EXCEPT ![t] = Idle]
    BY Zenon, <1>0, <1>3, <1>12, <2>2, IdleTyped DEF OnSuccess, CallBecomes
  <2> QED
    BY <1>12, <2>1, <2>2 DEF OnSuccess
<1> QED
  BY <1>4, <1>5, <1>6, <1>7, <1>8, <1>9, <1>10, <1>11, <1>12 DEF CallStep

(* So is the start of a call. *)
LEMMA ExecuteMoves ==
    ASSUME TypeInv, NEW t \in Thread, NEW h \in Hash, Execute(t, h)
    PROVE  \E d : Moves(t, d)
<1> DEFINE q == FindSuccessors(h, MaxRetries + 1)
           d == [call[t] EXCEPT !.pc = "allow", !.targets = q]
<1>1. q \in Seq(Node) /\ q # << >> /\ nodes # {}
  BY ClientAssumption, SuccessorsTyped DEF Execute
<1> HIDE DEF q
<1>2. call[t] = Idle /\ call[t] \in CallRec /\ call[t].fd = NoFd
  BY IdleTyped DEF Execute
<1>3. call \in [Thread -> CallRec]
  BY DEF TypeInv
<1>4. call' = [call EXCEPT ![t] = d]
  BY Zenon, <1>3 DEF Execute, q
<1>5. d \in CallRec /\ d.pc = "allow" /\ d.fd = NoFd /\ d.targets = q
  BY Zenon, <1>1, <1>2 DEF CallRec, PC
<1> HIDE DEF d
<1>6. CallBecomes(t, d)
  BY <1>1, <1>4, <1>5 DEF CallBecomes
<1> QED
  BY <1>2, <1>5, <1>6 DEF Moves, Stays, Rest, Execute

(* The calls of other threads are left alone. *)
LEMMA OthersKeep ==
    ASSUME TypeInv, NEW t \in Thread, NEW d, CallBecomes(t, d)
    PROVE  /\ call' \in [Thread -> CallRec] /\ call'[t] = d
           /\ \A s \in Thread \ {t} : call'[s] = call[s]
BY DEF TypeInv, CallBecomes

(* A move keeps the types. *)
LEMMA MovesTyped ==
    ASSUME TypeInv, NEW t \in Thread, NEW d, Moves(t, d),
           refresh[t].pc = "none", up' \in SUBSET Node, settled' \in SUBSET Node
    PROVE  TypeInv'
<1>1. CallBecomes(t, d) /\ nodes' = nodes /\ refresh' = refresh
  BY DEF Moves, Stays, Takes, Opens, Shuts, Returns, Rest
<1>2. /\ call' \in [Thread -> CallRec] /\ call'[t] = d
      /\ \A s \in Thread \ {t} : call'[s] = call[s]
  BY <1>1, OthersKeep
<1>3. ASSUME NEW s \in Thread  PROVE CallShape(s)'
  <2>1. CASE s = t
    BY <1>1, <1>2, <2>1, IdleTyped DEF CallBecomes, CallShape
  <2>2. CASE s # t
    BY <1>1, <1>2, <2>2 DEF CallShape, TypeInv
  <2> QED
    BY <2>1, <2>2
<1>4. call[t].fd # NoFd => call[t].fd \in Nat /\ Target(t) \in Node
  BY CallTyped
<1>5. call[t].targets # << >> => Target(t) \in Node
  BY CallTyped, HeadTailProperties DEF Target
<1>6. pool' \in [Node -> Seq(Nat)]
  <2>1. CASE pool' = pool
    BY <2>1 DEF TypeInv
  <2>2. CASE Takes(t, d)
    <3>1. Tail(pool[Target(t)]) \in Seq(Nat)
      BY <1>5, <2>2, HeadTailProperties DEF Takes, TypeInv
    <3> QED
      BY Zenon, <2>2, <3>1 DEF Takes, TypeInv
  <2>3. CASE Returns(t, d)
    <3>1. Append(pool[Target(t)], call[t].fd) \in Seq(Nat)
      BY <1>4, <2>3, AppendProperties DEF Returns, TypeInv
    <3> QED
      BY Zenon, <2>3, <3>1 DEF Returns, TypeInv
  <2> QED
    BY <2>1, <2>2, <2>3 DEF Moves, Stays, Opens, Shuts
<1>7. ConnsTyped'
  <2>1. CASE conns' = conns
    BY <2>1 DEF TypeInv, ConnsTyped
  <2>2. CASE Opens(t, d)
    BY <1>5, <2>2, OpenTyped DEF Opens, TypeInv
  <2>3. CASE Shuts(t, d)
    BY <2>3, CloseTyped DEF Shuts, TypeInv
  <2> QED
    BY <2>1, <2>2, <2>3 DEF Moves, Stays, Takes, Returns
<1>8. \A s \in Worker : RefreshShape(s)'
  BY <1>1 DEF TypeInv, RefreshShape
<1> QED
  BY <1>1, <1>2, <1>3, <1>6, <1>7, <1>8 DEF TypeInv

-----------------------------------------------------------------------------
(* Ownership *)

(* Taking the first element of a list without repetitions. *)
LEMMA TailOf ==
    ASSUME NEW S, NEW s \in Seq(S), s # << >>, IsInjective(s)
    PROVE  /\ Tail(s) \in Seq(S) /\ Head(s) \in S /\ Head(s) \in Range(s)
           /\ Range(Tail(s)) = Range(s) \ {Head(s)}
           /\ IsInjective(Tail(s))
<1>1. /\ Len(s) \in Nat /\ DOMAIN s = 1 .. Len(s) /\ Len(s) > 0
      /\ Head(s) = s[1] /\ 1 \in DOMAIN s
  BY LenProperties, EmptySeq
<1>2. /\ Tail(s) \in Seq(S) /\ Head(s) \in S /\ Len(Tail(s)) = Len(s) - 1
      /\ \A i \in 1 .. Len(Tail(s)) : Tail(s)[i] = s[i + 1]
  BY HeadTailProperties
<1>3. DOMAIN Tail(s) = 1 .. Len(s) - 1
  BY <1>2, LenProperties
<1>4. \A i, j \in DOMAIN s : s[i] = s[j] => i = j
  BY DEF IsInjective
<1>5. IsInjective(Tail(s))
  <2> SUFFICES ASSUME NEW i \in DOMAIN Tail(s), NEW j \in DOMAIN Tail(s),
                      Tail(s)[i] = Tail(s)[j]
               PROVE  i = j
    BY DEF IsInjective
  <2>1. i + 1 \in DOMAIN s /\ j + 1 \in DOMAIN s /\ s[i + 1] = s[j + 1]
    BY <1>1, <1>2, <1>3
  <2> QED
    BY <2>1, <1>4, <1>3, <1>1
<1>6. ASSUME NEW x PROVE x \in Range(Tail(s)) <=> x \in Range(s) \ {Head(s)}
  <2>1. ASSUME x \in Range(Tail(s)) PROVE x \in Range(s) \ {Head(s)}
    <3>1. PICK i \in DOMAIN Tail(s) : x = Tail(s)[i]
      BY <2>1 DEF Range
    <3>2. i + 1 \in DOMAIN s /\ x = s[i + 1] /\ i + 1 # 1
      BY <3>1, <1>1, <1>2, <1>3
    <3> QED
      BY <3>2, <1>4, <1>1 DEF Range
  <2>2. ASSUME x \in Range(s) \ {Head(s)} PROVE x \in Range(Tail(s))
    <3>1. PICK i \in DOMAIN s : x = s[i]
      BY <2>2 DEF Range
    <3>2. i - 1 \in DOMAIN Tail(s) /\ Tail(s)[i - 1] = x
      BY <3>1, <2>2, <1>1, <1>2, <1>3
    <3> QED
      BY <3>2 DEF Range
  <2> QED
    BY <2>1, <2>2
<1> QED
  BY Zenon, <1>1, <1>2, <1>5, <1>6 DEF Range

(* Adding one. *)
LEMMA AppendOf ==
    ASSUME NEW S, NEW s \in Seq(S), NEW x \in S, x \notin Range(s), IsInjective(s)
    PROVE  /\ Range(Append(s, x)) = Range(s) \cup {x}
           /\ IsInjective(Append(s, x))
BY AppendProperties, LenProperties DEF Range, IsInjective

(* What the other threads hold. *)
OthersHold(t) == \A s \in Worker \ {t} : Held(s)' = Held(s)

(* Where threads hold what they held and sockets keep their nodes, owners  *)
(* stay.                                                                   *)
LEMMA OwnersStay ==
    ASSUME Owned, \A t \in Worker : Held(t)' = Held(t), pool' = pool,
           DOMAIN conns' = DOMAIN conns,
           \A f \in DOMAIN conns : conns'[f].node = conns[f].node
    PROVE  Owned'
<1>1. ASSUME NEW t \in Worker, NEW f \in Held(t)'
      PROVE  /\ f \in DOMAIN conns'
             /\ \A s \in Worker \ {t} : f \notin Held(s)'
             /\ \A n \in Node : f \notin Range(pool'[n])
  BY DEF Owned
<1>2. ASSUME NEW n \in Node
      PROVE  /\ IsInjective(pool'[n])
             /\ \A f \in Range(pool'[n]) : f \in DOMAIN conns' /\ conns'[f].node = n
  BY DEF Owned
<1>3. ASSUME NEW f \in DOMAIN conns'
      PROVE  \/ \E t \in Worker : f \in Held(t)'
             \/ f \in Range(pool'[conns'[f].node])
  BY DEF Owned
<1> QED
  BY <1>1, <1>2, <1>3 DEF Owned

(* Taken from a pool, a connection is its taker's alone. *)
LEMMA OwnersTake ==
    ASSUME TypeInv, Owned, NEW t \in Worker, NEW n \in Node, OthersHold(t),
           pool[n] # << >>, pool' = [pool EXCEPT ![n] = Tail(pool[n])],
           Held(t) = {}, Held(t)' = {Head(pool[n])}, conns' = conns
    PROVE  Owned' /\ Head(pool[n]) \in DOMAIN conns /\ conns[Head(pool[n])].node = n
<1> DEFINE g == Head(pool[n])
<1>1. /\ g \in Range(pool[n]) /\ g \in Nat
      /\ Range(Tail(pool[n])) = Range(pool[n]) \ {g}
      /\ IsInjective(Tail(pool[n]))
  <2>1. pool[n] \in Seq(Nat) /\ IsInjective(pool[n])
    BY DEF TypeInv, Owned
  <2> QED
    BY <2>1, TailOf
<1>2. Held(t)' = {g}
  OBVIOUS
<1> HIDE DEF g
<1>3. g \in DOMAIN conns /\ conns[g].node = n
  BY <1>1 DEF Owned
<1>4. \A m \in Node \ {n} : g \notin Range(pool[m])
  BY <1>3 DEF Owned
<1>5. /\ \A m \in Node \ {n} : pool'[m] = pool[m]
      /\ pool'[n] = Tail(pool[n])
  BY DEF TypeInv
<1>6. \A m \in Node : Range(pool'[m]) = Range(pool[m]) \ {g}
  BY <1>1, <1>4, <1>5
<1>7. \A s \in Worker : g \notin Held(s)
  BY <1>1 DEF Owned
<1>8. ASSUME NEW s \in Worker, NEW f \in Held(s)'
      PROVE  /\ f \in DOMAIN conns'
             /\ \A r \in Worker \ {s} : f \notin Held(r)'
             /\ \A m \in Node : f \notin Range(pool'[m])
  <2>1. CASE s = t
    BY <1>2, <1>3, <1>6, <1>7, <2>1 DEF OthersHold
  <2>2. CASE s # t
    <3>1. f \in Held(s) /\ f # g
      BY <1>7, <2>2 DEF OthersHold
    <3>2. /\ f \in DOMAIN conns /\ \A r \in Worker \ {s} : f \notin Held(r)
          /\ \A m \in Node : f \notin Range(pool[m])
      BY <3>1 DEF Owned
    <3> QED
      BY <1>2, <1>6, <2>2, <3>1, <3>2 DEF OthersHold
  <2> QED
    BY <2>1, <2>2
<1>9. ASSUME NEW m \in Node
      PROVE  /\ IsInjective(pool'[m])
             /\ \A f \in Range(pool'[m]) : f \in DOMAIN conns' /\ conns'[f].node = m
  BY <1>1, <1>5, <1>6 DEF Owned
<1>10. ASSUME NEW f \in DOMAIN conns'
       PROVE  \/ \E s \in Worker : f \in Held(s)'
              \/ f \in Range(pool'[conns'[f].node])
  <2>1. f \in DOMAIN conns /\ conns[f].node \in Node
    BY DEF TypeInv, ConnsTyped
  <2>2. CASE f = g
    BY <1>2, <2>2
  <2>3. CASE f # g
    <3>1. CASE f \in Range(pool[conns[f].node])
      BY <1>6, <2>1, <2>3, <3>1
    <3>2. ASSUME NEW s \in Worker, f \in Held(s)
          PROVE  f \in Held(s)'
      BY <3>2 DEF OthersHold
    <3> QED
      BY <2>1, <3>1, <3>2 DEF Owned
  <2> QED
    BY <2>2, <2>3
<1> QED
  BY <1>3, <1>8, <1>9, <1>10 DEF Owned, g

(* A socket just opened is its opener's alone. *)
LEMMA OwnersOpen ==
    ASSUME TypeInv, Owned, NEW t \in Worker, NEW n \in Node, NEW g, OthersHold(t),
           Held(t) = {}, Held(t)' = {g}, Opening(g, n), pool' = pool
    PROVE  Owned'
<1>1. /\ DOMAIN conns' = DOMAIN conns \cup {g} /\ g \notin DOMAIN conns
      /\ \A f \in DOMAIN conns : conns'[f] = conns[f]
  BY OpenTyped DEF TypeInv, Opening
<1>2. /\ \A s \in Worker : g \notin Held(s)
      /\ \A m \in Node : g \notin Range(pool[m])
  BY <1>1 DEF Owned
<1>3. ASSUME NEW s \in Worker, NEW f \in Held(s)'
      PROVE  /\ f \in DOMAIN conns'
             /\ \A r \in Worker \ {s} : f \notin Held(r)'
             /\ \A m \in Node : f \notin Range(pool'[m])
  <2>1. CASE s = t
    BY <1>1, <1>2, <2>1 DEF OthersHold
  <2>2. CASE s # t
    <3>1. f \in Held(s) /\ f # g
      BY <1>2, <2>2 DEF OthersHold
    <3>2. /\ f \in DOMAIN conns /\ \A r \in Worker \ {s} : f \notin Held(r)
          /\ \A m \in Node : f \notin Range(pool[m])
      BY <3>1 DEF Owned
    <3> QED
      BY <1>1, <2>2, <3>1, <3>2 DEF OthersHold
  <2> QED
    BY <2>1, <2>2
<1>4. ASSUME NEW m \in Node
      PROVE  /\ IsInjective(pool'[m])
             /\ \A f \in Range(pool'[m]) : f \in DOMAIN conns' /\ conns'[f].node = m
  BY <1>1 DEF Owned
<1>5. ASSUME NEW f \in DOMAIN conns'
      PROVE  \/ \E s \in Worker : f \in Held(s)'
             \/ f \in Range(pool'[conns'[f].node])
  <2>1. CASE f = g
    BY <2>1
  <2>2. CASE f # g
    <3>1. f \in DOMAIN conns /\ conns'[f] = conns[f]
      BY <1>1, <2>2
    <3>2. ASSUME NEW s \in Worker, f \in Held(s)
          PROVE  f \in Held(s)'
      BY <3>2 DEF OthersHold
    <3> QED
      BY <3>1, <3>2 DEF Owned
  <2> QED
    BY <2>1, <2>2
<1> QED
  BY <1>3, <1>4, <1>5 DEF Owned

(* A socket that is closed was nobody else's. *)
LEMMA OwnersShut ==
    ASSUME TypeInv, Owned, NEW t \in Worker, NEW g, OthersHold(t),
           Held(t) = {g}, Held(t)' = {}, conns' = Close(g), pool' = pool
    PROVE  Owned'
<1>1. /\ DOMAIN conns' = DOMAIN conns \ {g}
      /\ \A f \in DOMAIN conns' : conns'[f] = conns[f]
  BY CloseTyped DEF TypeInv
<1>2. /\ \A s \in Worker \ {t} : g \notin Held(s)
      /\ \A m \in Node : g \notin Range(pool[m])
  BY DEF Owned
<1>3. ASSUME NEW s \in Worker, NEW f \in Held(s)'
      PROVE  /\ f \in DOMAIN conns'
             /\ \A r \in Worker \ {s} : f \notin Held(r)'
             /\ \A m \in Node : f \notin Range(pool'[m])
  <2>1. s # t
    BY <1>3
  <2>2. f \in Held(s) /\ f # g
    BY <1>2, <2>1 DEF OthersHold
  <2>3. /\ f \in DOMAIN conns /\ \A r \in Worker \ {s} : f \notin Held(r)
        /\ \A m \in Node : f \notin Range(pool[m])
    BY <2>2 DEF Owned
  <2> QED
    BY <1>1, <2>1, <2>2, <2>3 DEF OthersHold
<1>4. ASSUME NEW m \in Node
      PROVE  /\ IsInjective(pool'[m])
             /\ \A f \in Range(pool'[m]) : f \in DOMAIN conns' /\ conns'[f].node = m
  BY <1>1, <1>2 DEF Owned
<1>5. ASSUME NEW f \in DOMAIN conns'
      PROVE  \/ \E s \in Worker : f \in Held(s)'
             \/ f \in Range(pool'[conns'[f].node])
  <2>1. f \in DOMAIN conns /\ f # g /\ conns'[f] = conns[f]
    BY <1>1
  <2>2. ASSUME NEW s \in Worker, f \in Held(s)
        PROVE  f \in Held(s)'
    BY <2>1, <2>2 DEF OthersHold
  <2> QED
    BY <2>1, <2>2 DEF Owned
<1> QED
  BY <1>3, <1>4, <1>5 DEF Owned

(* A connection given back is in the pool of its node, once. *)
LEMMA OwnersReturn ==
    ASSUME TypeInv, Owned, NEW t \in Worker, NEW n \in Node, NEW g \in Nat, OthersHold(t),
           Held(t) = {g}, Held(t)' = {}, conns[g].node = n, conns' = conns,
           pool' = [pool EXCEPT ![n] = Append(pool[n], g)]
    PROVE  Owned'
<1>1. /\ \A s \in Worker \ {t} : g \notin Held(s)
      /\ \A m \in Node : g \notin Range(pool[m])
      /\ g \in DOMAIN conns
  BY DEF Owned
<1>2. /\ \A m \in Node \ {n} : pool'[m] = pool[m]
      /\ Range(pool'[n]) = Range(pool[n]) \cup {g}
      /\ IsInjective(pool'[n])
  <2>1. pool[n] \in Seq(Nat) /\ IsInjective(pool[n])
    BY DEF TypeInv, Owned
  <2>2. /\ Range(Append(pool[n], g)) = Range(pool[n]) \cup {g}
        /\ IsInjective(Append(pool[n], g))
    BY <1>1, <2>1, AppendOf
  <2> QED
    BY <2>2 DEF TypeInv
<1>3. ASSUME NEW s \in Worker, NEW f \in Held(s)'
      PROVE  /\ f \in DOMAIN conns'
             /\ \A r \in Worker \ {s} : f \notin Held(r)'
             /\ \A m \in Node : f \notin Range(pool'[m])
  <2>1. s # t
    BY <1>3
  <2>2. f \in Held(s) /\ f # g
    BY <1>1, <2>1 DEF OthersHold
  <2>3. /\ f \in DOMAIN conns /\ \A r \in Worker \ {s} : f \notin Held(r)
        /\ \A m \in Node : f \notin Range(pool[m])
    BY <2>2 DEF Owned
  <2> QED
    BY <1>2, <2>1, <2>2, <2>3 DEF OthersHold
<1>4. ASSUME NEW m \in Node
      PROVE  /\ IsInjective(pool'[m])
             /\ \A f \in Range(pool'[m]) : f \in DOMAIN conns' /\ conns'[f].node = m
  BY <1>1, <1>2 DEF Owned
<1>5. ASSUME NEW f \in DOMAIN conns'
      PROVE  \/ \E s \in Worker : f \in Held(s)'
             \/ f \in Range(pool'[conns'[f].node])
  <2>1. f \in DOMAIN conns /\ conns[f].node \in Node
    BY DEF TypeInv, ConnsTyped
  <2>2. CASE f = g
    BY <1>2, <2>2
  <2>3. CASE f # g
    <3>1. CASE f \in Range(pool[conns[f].node])
      BY <1>2, <2>1, <3>1
    <3>2. ASSUME NEW s \in Worker, f \in Held(s)
          PROVE  f \in Held(s)'
      BY <2>3, <3>2 DEF OthersHold
    <3> QED
      BY <2>1, <3>1, <3>2 DEF Owned
  <2> QED
    BY <2>2, <2>3
<1> QED
  BY <1>3, <1>4, <1>5 DEF Owned

(* What a thread holds in a call, when it is not in a refresh. *)
LEMMA CallHolds ==
    ASSUME TypeInv, NEW t \in Thread, NEW d, CallBecomes(t, d), refresh' = refresh,
           refresh[t].pc = "none"
    PROVE  /\ t \in Worker /\ OthersHold(t)
           /\ Held(t) = {call[t].fd} \ {NoFd} /\ Held(t)' = {d.fd} \ {NoFd}
<1>1. /\ call'[t] = d /\ \A s \in Thread \ {t} : call'[s] = call[s]
  BY OthersKeep
<1>2. t \in Worker /\ refresh[t].fd = NoFd
  BY DEF TypeInv, RefreshShape, Worker
<1>3. OthersHold(t)
  BY <1>1 DEF OthersHold, Held
<1> QED
  BY <1>1, <1>2, <1>3 DEF Held

(* Calls keep connections to their targets. *)
LEMMA CallsAimed ==
    ASSUME TypeInv, Owned, Aimed, NEW t \in Thread, NEW d, CallBecomes(t, d),
           d.fd # NoFd => conns'[d.fd].node = Head(d.targets),
           \A s \in Thread \ {t} :
             call[s].fd # NoFd => conns'[call[s].fd].node = conns[call[s].fd].node
    PROVE  Aimed'
<1>1. /\ call'[t] = d /\ \A s \in Thread \ {t} : call'[s] = call[s]
  BY OthersKeep
<1>2. ASSUME NEW s \in Thread, call'[s].fd # NoFd
      PROVE  conns'[call'[s].fd].node = Target(s)'
  <2>1. CASE s = t
    BY <1>1, <1>2, <2>1 DEF Target
  <2>2. CASE s # t
    BY <1>1, <1>2, <2>2 DEF Target, Aimed
  <2> QED
    BY <2>1, <2>2
<1> QED
  BY <1>2 DEF Aimed

(* The sockets of the others are other ones, and open. *)
LEMMA OthersOpen ==
    ASSUME TypeInv, Owned, NEW t \in Thread, NEW s \in Thread \ {t}, call[s].fd # NoFd
    PROVE  call[s].fd \in DOMAIN conns /\ call[s].fd \notin Held(t)
BY DEF Owned, Held, Worker

(* Every move of a call leaves each socket one owner. *)
LEMMA MovesOwned ==
    ASSUME TypeInv, Owned, Aimed, NEW t \in Thread, NEW d, Moves(t, d),
           refresh[t].pc = "none"
    PROVE  Owned' /\ Aimed'
<1>1. CallBecomes(t, d) /\ refresh' = refresh
  BY DEF Moves, Stays, Takes, Opens, Shuts, Returns, Rest
<1>2. /\ t \in Worker /\ OthersHold(t)
      /\ Held(t) = {call[t].fd} \ {NoFd} /\ Held(t)' = {d.fd} \ {NoFd}
  BY <1>1, CallHolds
<1>3. call[t].targets # << >> => Target(t) \in Node
  BY CallTyped, HeadTailProperties DEF Target
<1>4. call[t].fd # NoFd =>
        /\ call[t].fd \in Nat /\ Target(t) \in Node
        /\ conns[call[t].fd].node = Target(t)
  BY CallTyped DEF Aimed
<1>5. CASE Stays(t, d)
  <2>1. \A s \in Worker : Held(s)' = Held(s)
    BY <1>2, <1>5 DEF Stays, OthersHold
  <2>2. Owned'
    BY <1>5, <2>1, OwnersStay DEF Stays
  <2>3. d.fd # NoFd => conns'[d.fd].node = Head(d.targets)
    BY <1>4, <1>5 DEF Stays, Target
  <2>4. conns' = conns
    BY <1>5 DEF Stays
  <2> QED
    BY <1>1, <2>2, <2>3, <2>4, CallsAimed
<1>6. CASE Takes(t, d)
  <2> DEFINE n == Target(t)
             g == Head(pool[n])
  <2>1. /\ n \in Node /\ pool[n] # << >> /\ conns' = conns
        /\ pool' = [pool EXCEPT ![n] = Tail(pool[n])]
        /\ call[t].fd = NoFd /\ d.fd = g /\ Head(d.targets) = n
    BY <1>3, <1>6 DEF Takes, Target
  <2>2. g # NoFd
    <3>1. pool[n] \in Seq(Nat)
      BY <2>1 DEF TypeInv
    <3>2. g \in Nat
      BY <2>1, <3>1, HeadTailProperties
    <3> QED
      BY <3>2 DEF NoFd
  <2> HIDE DEF n
  <2>3. Held(t) = {} /\ Held(t)' = {g}
    BY <1>2, <2>1, <2>2
  <2>4. Owned' /\ conns[g].node = n
    BY <1>2, <2>1, <2>3, OwnersTake
  <2> QED
    BY <1>1, <2>1, <2>4, CallsAimed
<1>7. CASE Opens(t, d)
  <2> DEFINE n == Target(t)
  <2>1. /\ n \in Node /\ pool' = pool /\ Opening(d.fd, n)
        /\ call[t].fd = NoFd /\ Head(d.targets) = n
    BY <1>3, <1>7 DEF Opens, Target
  <2>2. d.fd # NoFd
    BY <2>1 DEF Opening, NoFd
  <2> HIDE DEF n
  <2>3. Held(t) = {} /\ Held(t)' = {d.fd}
    BY <1>2, <2>1, <2>2
  <2>4. Owned'
    BY <1>2, <2>1, <2>3, OwnersOpen
  <2>5. \A f \in DOMAIN conns : conns'[f] = conns[f]
    BY <2>1, OpenTyped DEF TypeInv
  <2>6. conns'[d.fd].node = n
    BY <2>1, OpenTyped DEF TypeInv
  <2>7. \A s \in Thread \ {t} : call[s].fd # NoFd => conns'[call[s].fd] = conns[call[s].fd]
    BY <2>5, OthersOpen
  <2> QED
    BY <1>1, <2>1, <2>4, <2>6, <2>7, CallsAimed
<1>8. CASE Shuts(t, d)
  <2> DEFINE g == call[t].fd
  <2>1. pool' = pool /\ conns' = Close(g) /\ g # NoFd /\ d.fd = NoFd
    BY <1>8 DEF Shuts
  <2>2. Held(t) = {g} /\ Held(t)' = {}
    BY <1>2, <2>1
  <2> HIDE DEF g
  <2>3. Owned'
    BY <1>2, <2>1, <2>2, OwnersShut
  <2>4. \A f \in DOMAIN conns \ {g} : conns'[f] = conns[f]
    BY <2>1, CloseTyped DEF TypeInv
  <2>5. \A s \in Thread \ {t} : call[s].fd # NoFd => conns'[call[s].fd] = conns[call[s].fd]
    BY <2>2, <2>4, OthersOpen
  <2> QED
    BY <1>1, <2>1, <2>3, <2>5, CallsAimed
<1>9. CASE Returns(t, d)
  <2> DEFINE n == Target(t)
             g == call[t].fd
  <2>1. /\ conns' = conns /\ g # NoFd /\ d.fd = NoFd
        /\ pool' = [pool EXCEPT ![n] = Append(pool[n], g)]
    BY <1>9 DEF Returns
  <2>2. Held(t) = {g} /\ Held(t)' = {}
    BY <1>2, <2>1
  <2>3. g \in Nat /\ n \in Node /\ conns[g].node = n
    BY <1>4, <2>1
  <2> HIDE DEF g, n
  <2>4. Owned'
    BY <1>2, <2>1, <2>2, <2>3, OwnersReturn
  <2> QED
    BY <1>1, <2>1, <2>4, CallsAimed
<1> QED
  BY <1>5, <1>6, <1>7, <1>8, <1>9 DEF Moves

(* No pool grows beyond its limit. *)
LEMMA MovesBounded ==
    ASSUME TypeInv, PoolsBounded, NEW t \in Thread, NEW d, Moves(t, d)
    PROVE  PoolsBounded'
<1>0. MaxIdle \in Nat
  BY ClientAssumption
<1>1. CASE pool' = pool
  BY <1>1 DEF PoolsBounded
<1>2. ASSUME NEW n \in Node, NEW q, pool' = [pool EXCEPT ![n] = q], Len(q) <= MaxIdle
      PROVE  PoolsBounded'
  BY <1>2 DEF PoolsBounded, TypeInv
<1>3. CASE Takes(t, d)
  <2> DEFINE n == Target(t)
  <2>1. n \in Node /\ pool[n] # << >>
    BY <1>3, CallTyped, HeadTailProperties DEF Takes, Target
  <2>2. pool[n] \in Seq(Nat) /\ Len(pool[n]) <= MaxIdle /\ Len(pool[n]) \in Nat
    BY <2>1, LenProperties DEF TypeInv, PoolsBounded
  <2>3. Len(Tail(pool[n])) = Len(pool[n]) - 1
    BY <2>1, <2>2, HeadTailProperties
  <2>4. pool' = [pool EXCEPT ![n] = Tail(pool[n])]
    BY <1>3 DEF Takes
  <2>5. Len(Tail(pool[n])) <= MaxIdle
    BY <1>0, <2>2, <2>3
  <2> QED
    BY Zenon, <1>2, <2>1, <2>4, <2>5
<1>4. CASE Returns(t, d)
  <2> DEFINE n == Target(t)
  <2>1. n \in Node /\ call[t].fd \in Nat
    BY <1>4, CallTyped DEF Returns
  <2>2. /\ pool[n] \in Seq(Nat) /\ Len(pool[n]) \in Nat
        /\ ~(Len(pool[n]) >= MaxIdle)
    BY <1>4, <2>1, LenProperties DEF TypeInv, Returns
  <2>3. Len(Append(pool[n], call[t].fd)) = Len(pool[n]) + 1
    BY <2>1, <2>2, AppendProperties
  <2>4. pool' = [pool EXCEPT ![n] = Append(pool[n], call[t].fd)]
    BY <1>4 DEF Returns
  <2>5. Len(Append(pool[n], call[t].fd)) <= MaxIdle
    BY <1>0, <2>2, <2>3
  <2> QED
    BY Zenon, <1>2, <2>1, <2>4, <2>5
<1> QED
  BY <1>1, <1>3, <1>4 DEF Moves, Stays, Opens, Shuts

-----------------------------------------------------------------------------
(* The other steps *)

(* Where calls, refreshes and pools stay, and sockets keep their nodes,    *)
(* owners and targets do.                                                  *)
LEMMA NothingMoves ==
    ASSUME Owned, Aimed, PoolsBounded, UNCHANGED <<pool, call, refresh>>,
           DOMAIN conns' = DOMAIN conns,
           \A f \in DOMAIN conns : conns'[f].node = conns[f].node
    PROVE  Owned' /\ Aimed' /\ PoolsBounded'
<1>1. PoolsBounded'
  BY DEF PoolsBounded
<1>2. \A t \in Worker : Held(t)' = Held(t)
  BY DEF Held
<1>3. Owned'
  BY <1>2, OwnersStay
<1>4. \A t \in Thread : call[t].fd # NoFd => call[t].fd \in DOMAIN conns
  BY DEF Owned, Held, Worker
<1>5. Aimed'
  BY <1>4 DEF Aimed, Target
<1> QED
  BY <1>1, <1>3, <1>5

(* What a server may answer. *)
LEMMA AnswersTyped ==
    ASSUME TypeInv, NEW n \in Node, NEW S \in Answers(n)
    PROVE  S \in SUBSET Node /\ S # {}
BY ClientAssumption DEF Answers, TypeInv

(* connect(), a server that stops or starts, the cluster finding out, time *)
(* passing: no call is affected.                                           *)
LEMMA OutsideStep ==
    ASSUME ClientInv,
           Bootstrap \/ (\E n \in Node : Expire(n) \/ Settle(n))
             \/ (\E n \in Unstable : Stop(n) \/ Start(n)) \/ UNCHANGED vars
    PROVE  ClientInv'
<1> USE DEF ClientInv
<1>1. CASE Bootstrap
  <2>1. nodes = {} /\ nodes' \in SUBSET Node /\ nodes' # {}
    BY <1>1, AnswersTyped, ClientAssumption DEF Bootstrap
  <2>2. UNCHANGED <<up, settled, pool, conns, call, refresh>>
    BY <1>1 DEF Bootstrap
  <2>3. TypeInv'
    BY <2>1, <2>2 DEF TypeInv, CallShape, RefreshShape, ConnsTyped
  <2> QED
    BY <2>2, <2>3, NothingMoves
<1>2. CASE (\E n \in Node : Expire(n)) \/ UNCHANGED vars
  <2>1. UNCHANGED <<up, settled, nodes, pool, conns, call, refresh>>
    BY <1>2 DEF Expire, vars
  <2>2. TypeInv'
    BY <2>1 DEF TypeInv, CallShape, RefreshShape, ConnsTyped
  <2> QED
    BY <2>1, <2>2, NothingMoves
<1>3. ASSUME NEW n \in Node, Start(n) \/ Settle(n)  PROVE ClientInv'
  <2>1. /\ UNCHANGED <<nodes, pool, conns, call, refresh>>
        /\ up' \in SUBSET Node /\ settled' \in SUBSET Node
    BY <1>3 DEF Start, Settle, TypeInv
  <2>2. TypeInv'
    BY <2>1 DEF TypeInv, CallShape, RefreshShape, ConnsTyped
  <2> QED
    BY <2>1, <2>2, NothingMoves
<1>4. ASSUME NEW n \in Node, Stop(n)  PROVE ClientInv'
  <2>1. /\ UNCHANGED <<nodes, pool, call, refresh>>
        /\ up' \in SUBSET Node /\ settled' \in SUBSET Node
    BY <1>4 DEF Stop, TypeInv
  <2>2. DOMAIN conns' = DOMAIN conns
    BY <1>4 DEF Stop
  <2>3. ASSUME NEW f \in DOMAIN conns
        PROVE  /\ conns'[f].node = conns[f].node
               /\ {"node", "live"} \subseteq DOMAIN conns'[f]
    <3>1. {"node", "live"} \subseteq DOMAIN conns[f]
      BY DEF TypeInv, ConnsTyped
    <3>2. conns'[f] = [conns[f] EXCEPT !.live = conns[f].live /\ conns[f].node # n]
      BY <1>4 DEF Stop
    <3> QED
      BY <3>1, <3>2
  <2>4. ConnsTyped'
    BY <2>2, <2>3 DEF TypeInv, ConnsTyped
  <2>5. TypeInv'
    BY <2>1, <2>4 DEF TypeInv, CallShape, RefreshShape
  <2> QED
    BY <2>1, <2>2, <2>3, <2>5, NothingMoves
<1> QED
  BY <1>1, <1>2, <1>3, <1>4, ClientAssumption

(* A refresh that is given the state r. *)
RefreshBecomes(t, r) ==
    /\ r \in RefreshRec /\ refresh' = [refresh EXCEPT ![t] = r]
    /\ r.fd # NoFd <=> r.pc = "read"
    /\ r.pc = "apply" => r.fresh # {}
    /\ r.pc # "none"

(* Steps within a refresh keep the types, *)
LEMMA RefreshTyped ==
    ASSUME TypeInv, NEW t \in Worker, NEW r, RefreshBecomes(t, r), nodes # {},
           t # Background => call[t].pc = "refresh",
           UNCHANGED <<up, settled, nodes, pool, call>>, ConnsTyped'
    PROVE  TypeInv'
<1>1. /\ refresh' \in [Worker -> RefreshRec] /\ refresh'[t] = r
      /\ \A s \in Worker \ {t} : refresh'[s] = refresh[s]
  BY DEF TypeInv, RefreshBecomes
<1>2. ASSUME NEW s \in Worker  PROVE RefreshShape(s)'
  <2>1. CASE s = t
    BY <1>1, <2>1 DEF RefreshShape, RefreshBecomes
  <2>2. CASE s # t
    BY <1>1, <2>2 DEF RefreshShape, TypeInv
  <2> QED
    BY <2>1, <2>2
<1>3. ASSUME NEW s \in Thread  PROVE CallShape(s)'
  <2>1. CASE s = t
    BY <2>1, ClientAssumption DEF CallShape, TypeInv
  <2>2. CASE s # t
    BY <1>1, <2>2 DEF CallShape, TypeInv, Worker
  <2> QED
    BY <2>1, <2>2
<1> QED
  BY <1>1, <1>2, <1>3 DEF TypeInv

(* and a thread in a refresh holds the socket of the refresh alone. *)
LEMMA RefreshHolds ==
    ASSUME TypeInv, NEW t \in Worker, NEW r, RefreshBecomes(t, r), call' = call,
           t # Background => call[t].pc = "refresh"
    PROVE  /\ OthersHold(t)
           /\ Held(t) = {refresh[t].fd} \ {NoFd} /\ Held(t)' = {r.fd} \ {NoFd}
<1>1. refresh'[t] = r /\ \A s \in Worker \ {t} : refresh'[s] = refresh[s]
  BY DEF TypeInv, RefreshBecomes
<1>2. t \in Thread => call[t].fd = NoFd
  BY ClientAssumption DEF TypeInv, CallShape
<1>3. OthersHold(t)
  BY <1>1 DEF OthersHold, Held
<1> QED
  BY <1>1, <1>2, <1>3 DEF Held

(* A socket that a refresh opens or closes is not the socket of a call. *)
LEMMA RefreshAims ==
    ASSUME Owned, Aimed, call' = call,
           \A s \in Thread : call[s].fd # NoFd => conns'[call[s].fd] = conns[call[s].fd]
    PROVE  Aimed'
BY DEF Aimed, Target

(* refresh() opens and closes its own sockets and affects the view, and    *)
(* ends the call it belongs to.                                            *)
LEMMA RefreshKeeps ==
    ASSUME ClientInv, NEW t \in Worker, RefreshStep(t)
    PROVE  ClientInv'
<1> USE DEF ClientInv
<1>0. /\ refresh \in [Worker -> RefreshRec]
      /\ refresh[t] \in RefreshRec /\ nodes \in SUBSET Node /\ ConnsTyped
      /\ RefreshShape(t)
  BY DEF TypeInv
<1>a. ASSUME refresh[t].pc # "none"
      PROVE  nodes # {} /\ (t # Background => call[t].pc = "refresh")
  BY <1>0, <1>a DEF TypeInv, CallShape, RefreshShape, Worker
<1>b. \A s \in Thread : call[s].fd # NoFd => call[s].fd \in DOMAIN conns
  BY DEF Owned, Held, Worker
<1>1. CASE RefreshStart(t)
  <2> DEFINE r == [NoRefresh EXCEPT !.pc = "fetch", !.todo = nodes]
  <2>1. /\ UNCHANGED <<up, settled, nodes, pool, conns, call>> /\ nodes # {}
        /\ refresh' = [refresh EXCEPT ![t] = r] /\ refresh[t].pc = "none"
        /\ t # Background => call[t].pc = "refresh"
    BY <1>1 DEF RefreshStart
  <2>2. r \in RefreshRec /\ r.pc = "fetch" /\ r.fd = NoFd
    BY <1>0 DEF RefreshRec, NoRefresh
  <2> HIDE DEF r
  <2>3. RefreshBecomes(t, r)
    BY <2>1, <2>2 DEF RefreshBecomes
  <2>4. TypeInv'
    BY <1>0, <2>1, <2>3, RefreshTyped DEF ConnsTyped
  <2>5. OthersHold(t) /\ Held(t) = {} /\ Held(t)' = {}
    BY <1>0, <2>1, <2>2, <2>3, RefreshHolds DEF RefreshShape
  <2>6. Owned' /\ Aimed' /\ PoolsBounded'
    BY <2>1, <2>5, OwnersStay, RefreshAims DEF OthersHold, PoolsBounded
  <2> QED
    BY <2>4, <2>6
<1>2. ASSUME NEW n \in Node, FetchConnect(t, n)  PROVE ClientInv'
  <2>1. /\ UNCHANGED <<up, settled, nodes, pool, call>> /\ refresh[t].pc = "fetch"
        /\ nodes # {} /\ (t # Background => call[t].pc = "refresh")
    BY <1>2, <1>a DEF FetchConnect
  <2>2. CASE n \in up
    <3> DEFINE g == NewFd
               r == [refresh[t] EXCEPT !.pc = "read", !.todo = refresh[t].todo \ {n},
                                       !.fd = g]
    <3>1. g \in Nat \ DOMAIN conns
      BY FreeFd
    <3>2. Opening(g, n)
      BY <1>2, <2>2, <3>1 DEF FetchConnect, Opened, Opening
    <3>3. refresh' = [refresh EXCEPT ![t].pc = "read", ![t].todo = refresh[t].todo \ {n},
                                     ![t].fd = g]
      BY Zenon, <1>2, <2>2 DEF FetchConnect
    <3> HIDE DEF g
    <3>4. refresh' = [refresh EXCEPT ![t] = r]
      BY Zenon, <1>0, <3>3
    <3>5. r \in RefreshRec /\ r.pc = "read" /\ r.fd = g
      BY <1>0, <3>1 DEF RefreshRec
    <3>6. g # NoFd
      BY <3>1 DEF NoFd
    <3> HIDE DEF r
    <3>7. RefreshBecomes(t, r)
      BY <3>4, <3>5, <3>6 DEF RefreshBecomes
    <3>8. ConnsTyped' /\ \A f \in DOMAIN conns : conns'[f] = conns[f]
      BY <1>0, <3>2, OpenTyped
    <3>9. TypeInv'
      BY <2>1, <3>7, <3>8, RefreshTyped
    <3>10. OthersHold(t) /\ Held(t) = {} /\ Held(t)' = {g}
      BY <1>0, <2>1, <3>5, <3>6, <3>7, RefreshHolds DEF RefreshShape
    <3>11. Owned'
      BY <2>1, <3>2, <3>10, OwnersOpen
    <3>12. Aimed'
      BY <1>b, <2>1, <3>8, RefreshAims
    <3> QED
      BY <2>1, <3>9, <3>11, <3>12 DEF PoolsBounded
  <2>3. CASE n \notin up
    <3> DEFINE r == [refresh[t] EXCEPT !.todo = refresh[t].todo \ {n}]
    <3>1. refresh' = [refresh EXCEPT ![t] = r] /\ conns' = conns
      BY <1>0, <1>2, <2>3 DEF FetchConnect
    <3>2. r \in RefreshRec /\ r.pc = "fetch" /\ r.fd = refresh[t].fd
      BY <1>0, <2>1 DEF RefreshRec
    <3> HIDE DEF r
    <3>3. refresh[t].fd = NoFd
      BY <1>0, <2>1 DEF RefreshShape
    <3>4. RefreshBecomes(t, r)
      BY <3>1, <3>2, <3>3 DEF RefreshBecomes
    <3>5. TypeInv'
      BY <1>0, <2>1, <3>1, <3>4, RefreshTyped DEF ConnsTyped
    <3>6. OthersHold(t) /\ Held(t) = {} /\ Held(t)' = {}
      BY <2>1, <3>2, <3>3, <3>4, RefreshHolds
    <3>7. Owned' /\ Aimed' /\ PoolsBounded'
      BY <2>1, <3>1, <3>6, OwnersStay, RefreshAims DEF OthersHold, PoolsBounded
    <3> QED
      BY <3>5, <3>7
  <2> QED
    BY <2>2, <2>3
<1>3. CASE FetchRead(t)
  <2> DEFINE g == refresh[t].fd
  <2>1. /\ UNCHANGED <<up, settled, nodes, pool, call>> /\ refresh[t].pc = "read"
        /\ nodes # {} /\ (t # Background => call[t].pc = "refresh")
        /\ conns' = Close(g)
    BY <1>3, <1>a DEF FetchRead
  <2>2. g # NoFd /\ g \in Held(t)
    BY <1>0, <2>1 DEF RefreshShape, Held
  <2>3. g \in DOMAIN conns /\ conns[g].node \in Node
    BY <1>0, <2>2 DEF Owned, ConnsTyped
  <2>4. PICK r : RefreshBecomes(t, r) /\ r.fd = NoFd
    <3>1. CASE conns[g].live
      <4>1. PICK S \in Answers(conns[g].node) :
              refresh' = [refresh EXCEPT ![t].pc = "apply", ![t].fd = NoFd, ![t].fresh = S]
        BY <1>3, <3>1 DEF FetchRead
      <4>2. S \in SUBSET Node /\ S # {}
        BY <2>3, AnswersTyped
      <4> DEFINE r == [refresh[t] EXCEPT !.pc = "apply", !.fd = NoFd, !.fresh = S]
      <4>3. refresh' = [refresh EXCEPT ![t] = r]
        BY Zenon, <1>0, <4>1
      <4>4. r \in RefreshRec /\ r.pc = "apply" /\ r.fd = NoFd /\ r.fresh = S
        BY Zenon, <1>0, <4>2 DEF RefreshRec
      <4> HIDE DEF r
      <4> QED
        BY Zenon, <4>2, <4>3, <4>4 DEF RefreshBecomes
    <3>2. CASE ~conns[g].live
      <4> DEFINE r == [refresh[t] EXCEPT !.pc = "fetch", !.fd = NoFd]
      <4>1. refresh' = [refresh EXCEPT ![t] = r]
        BY Zenon, <1>0, <1>3, <3>2 DEF FetchRead
      <4>2. r \in RefreshRec /\ r.pc = "fetch" /\ r.fd = NoFd
        BY Zenon, <1>0 DEF RefreshRec
      <4> HIDE DEF r
      <4> QED
        BY Zenon, <4>1, <4>2 DEF RefreshBecomes
    <3> QED
      BY <3>1, <3>2
  <2>5. ConnsTyped' /\ \A f \in DOMAIN conns \ {g} : conns'[f] = conns[f]
    BY <1>0, <2>1, CloseTyped
  <2>6. TypeInv'
    BY <2>1, <2>4, <2>5, RefreshTyped
  <2>7. OthersHold(t) /\ Held(t) = {g} /\ Held(t)' = {}
    BY <2>1, <2>2, <2>4, RefreshHolds
  <2>8. Owned'
    BY <2>1, <2>7, OwnersShut
  <2>9. \A s \in Thread : call[s].fd # NoFd => call[s].fd # g
    <3> SUFFICES ASSUME NEW s \in Thread, call[s].fd # NoFd, call[s].fd = g
                 PROVE  FALSE
      OBVIOUS
    <3>1. s \in Worker /\ g \in Held(s)
      BY <2>2 DEF Held, Worker
    <3>2. s = t
      BY <2>7, <3>1 DEF Owned
    <3> QED
      BY <2>1, <3>2, ClientAssumption DEF TypeInv, CallShape
  <2>10. Aimed'
    BY <1>b, <2>1, <2>5, <2>9, RefreshAims
  <2> QED
    BY <2>1, <2>6, <2>8, <2>10 DEF PoolsBounded
<1>4. CASE RefreshEnd(t)
  <2>1. /\ UNCHANGED <<up, settled, pool, conns>> /\ call' = Returned(t)
        /\ refresh' = [refresh EXCEPT ![t] = NoRefresh]
        /\ refresh[t].pc \in {"apply", "fetch"}
    BY Zenon, <1>4 DEF RefreshEnd
  <2>2. nodes' \in SUBSET Node /\ nodes' # {}
    BY <1>0, <1>a, <1>4 DEF RefreshEnd, RefreshRec, RefreshShape
  <2>3. NoRefresh \in RefreshRec /\ NoRefresh.pc = "none" /\ NoRefresh.fd = NoFd
    BY DEF NoRefresh, RefreshRec
  <2>4. /\ refresh' \in [Worker -> RefreshRec] /\ refresh'[t] = NoRefresh
        /\ \A s \in Worker \ {t} : refresh'[s] = refresh[s]
    BY <1>0, <2>1, <2>3
  <2>5. \A s \in Worker : RefreshShape(s)'
    BY Zenon, <2>2, <2>3, <2>4 DEF TypeInv, RefreshShape
  <2>6. refresh[t].fd = NoFd
    BY <1>0, <2>1 DEF RefreshShape
  <2>7. /\ call' \in [Thread -> CallRec]
        /\ \A s \in Thread \ {t} : call'[s] = call[s]
        /\ t \in Thread =>
             call[t].pc = "refresh" /\ call[t].fd = NoFd /\ call'[t] = Idle
    <3>1. CASE t = Background
      BY <2>1, <3>1, ClientAssumption DEF Returned, TypeInv
    <3>2. CASE t # Background
      <4>1. t \in Thread /\ call[t].pc = "refresh" /\ call[t].fd = NoFd
        BY <1>a, <2>1, <3>2 DEF TypeInv, CallShape, Worker
      <4> QED
        BY <2>1, <3>2, <4>1, IdleTyped DEF Returned, TypeInv
    <3> QED
      BY <3>1, <3>2
  <2>8. \A s \in Thread : CallShape(s)'
    <3> SUFFICES ASSUME NEW s \in Thread  PROVE CallShape(s)'
      OBVIOUS
    <3>0. s \in Worker /\ nodes' # {}
      BY <2>2 DEF Worker
    <3>1. CASE s = t
      <4>1. call'[s] = Idle /\ refresh'[s].pc = "none"
        BY <2>3, <2>4, <2>7, <3>1
      <4> QED
        BY Zenon, <4>1, IdleTyped DEF CallShape
    <3>2. CASE s # t
      <4>1. call'[s] = call[s] /\ refresh'[s] = refresh[s] /\ CallShape(s)
        BY <2>4, <2>7, <3>0, <3>2 DEF TypeInv
      <4> QED
        BY Zenon, <3>0, <4>1 DEF CallShape
    <3> QED
      BY <3>1, <3>2
  <2>9. TypeInv'
    BY <2>1, <2>2, <2>4, <2>5, <2>7, <2>8 DEF TypeInv, ConnsTyped
  <2>10. ASSUME NEW s \in Worker  PROVE Held(s)' = Held(s)
    <3>1. CASE s = t
      BY <2>3, <2>4, <2>6, <2>7, <3>1, IdleTyped DEF Held
    <3>2. CASE s # t
      BY <2>4, <2>7, <3>2 DEF Held
    <3> QED
      BY <3>1, <3>2
  <2>11. Owned'
    BY <2>1, <2>10, OwnersStay
  <2>12. Aimed'
    BY <2>1, <2>7, IdleTyped DEF Aimed, Target
  <2> QED
    BY <2>1, <2>9, <2>11, <2>12 DEF PoolsBounded
<1> QED
  BY <1>1, <1>2, <1>3, <1>4 DEF RefreshStep

(* The invariant is inductive. *)
LEMMA ClientStep == ClientInv /\ [Next]_vars => ClientInv'
<1> SUFFICES ASSUME ClientInv, [Next]_vars  PROVE ClientInv'
  OBVIOUS
<1>1. ASSUME NEW t \in Thread, CallStep(t) \/ \E h \in Hash : Execute(t, h)
      PROVE  ClientInv'
  <2>1. TypeInv /\ Owned /\ Aimed /\ PoolsBounded
    BY DEF ClientInv
  <2>2. PICK d : Moves(t, d)
    BY <1>1, <2>1, CallMoves, ExecuteMoves
  <2>3. up' = up /\ settled' = settled /\ call[t].pc # "refresh"
    <3>1. CASE \E h \in Hash : Execute(t, h)
      BY <3>1 DEF Execute, Idle
    <3>2. CASE Allow(t) \/ AcquirePooled(t) \/ AcquireNone(t) \/ Connect(t)
      BY <3>2 DEF Allow, AcquirePooled, AcquireNone, Connect
    <3>3. CASE Answered(t) \/ Broken(t)
      BY <3>3 DEF Answered, Broken
    <3>4. CASE OnFailure(t) \/ Release(t) \/ OnSuccess(t)
      BY <3>4 DEF OnFailure, Release, OnSuccess
    <3>. QED
      BY Zenon, <1>1, <3>1, <3>2, <3>3, <3>4 DEF CallStep
  <2>4. refresh[t].pc = "none" /\ up' \in SUBSET Node /\ settled' \in SUBSET Node
    BY <2>1, <2>3 DEF TypeInv, CallShape
  <2>5. TypeInv' /\ PoolsBounded'
    BY <2>1, <2>2, <2>4, MovesTyped, MovesBounded
  <2>6. Owned' /\ Aimed'
    BY <2>1, <2>2, <2>4, MovesOwned
  <2> QED
    BY <2>5, <2>6 DEF ClientInv
<1>2. ASSUME NEW t \in Worker, RefreshStep(t)  PROVE ClientInv'
  BY <1>2, RefreshKeeps
<1>3. CASE Bootstrap \/ (\E n \in Node : Expire(n) \/ Settle(n))
             \/ (\E n \in Unstable : Stop(n) \/ Start(n)) \/ UNCHANGED vars
  BY <1>3, OutsideStep
<1> QED
  BY <1>1, <1>2, <1>3 DEF Next

(* It holds at the start. *)
LEMMA ClientStart == Init => ClientInv
<1> SUFFICES ASSUME Init  PROVE ClientInv
  OBVIOUS
<1>1. /\ up = Node /\ settled = Node /\ nodes = {} /\ pool = [n \in Node |-> << >>] /\ conns = << >>
      /\ call = [t \in Thread |-> Idle]
      /\ refresh = [t \in Worker |-> NoRefresh]
  BY DEF Init
<1>2. DOMAIN conns = {} /\ IsFiniteSet(DOMAIN conns)
  BY <1>1, FS_EmptySet
<1>3. NoRefresh \in RefreshRec /\ NoRefresh.pc = "none" /\ NoRefresh.fd = NoFd
  BY DEF NoRefresh, RefreshRec
<1>4. pool \in [Node -> Seq(Nat)]
  BY <1>1
<1>5. TypeInv
  BY <1>1, <1>2, <1>3, <1>4, IdleTyped DEF TypeInv, CallShape, RefreshShape, ConnsTyped, Worker
<1>6. \A n \in Node : Range(pool[n]) = {} /\ IsInjective(pool[n]) /\ Len(pool[n]) = 0
  BY <1>1 DEF Range, IsInjective
<1>7. \A t \in Worker : Held(t) = {}
  BY <1>1, <1>3, IdleTyped DEF Held
<1>8. Owned
  BY <1>2, <1>6, <1>7 DEF Owned
<1>9. Aimed /\ PoolsBounded
  BY <1>1, <1>6, IdleTyped, ClientAssumption DEF Aimed, PoolsBounded
<1> QED
  BY <1>5, <1>8, <1>9 DEF ClientInv

(* It holds in every reachable state. *)
LEMMA ClientInvariant == Spec => []ClientInv
BY ClientStart, ClientStep, PTL DEF Spec

(* For any number of threads, nodes and connections, in whatever order     *)
(* the threads acquire, exchange, release and refresh: no socket is        *)
(* shared, leaked or used after it was closed (connection_pool.cpp 73-100, *)
(* pensieve_client.cpp 52-76, topology_manager.cpp 72-95).                 *)
THEOREM ConnectionsHaveOwners == Spec => []ConnectionsOwned
<1>1. ClientInv => ConnectionsOwned
  BY DEF ClientInv, Owned, Aimed, ConnectionsOwned
<1> QED
  BY <1>1, ClientInvariant, PTL

(* The state of the client keeps its types, and a call or a refresh that   *)
(* runs finds a view that is not empty: no answer empties nodes_ again     *)
(* (topology_manager.cpp 129-158).                                         *)
THEOREM ClientTypes == Spec => []TypeOK
<1>1. ClientInv /\ BreakerInv => TypeOK
  <2> SUFFICES ASSUME ClientInv, BreakerInv  PROVE TypeOK
    OBVIOUS
  <2>1. TypeInv
    BY DEF ClientInv
  <2>2. up \subseteq Node /\ nodes \subseteq Node /\ settled \subseteq Node
    BY <2>1 DEF TypeInv
  <2>3. \A n \in Node :
          /\ breaker[n].state \in {"Closed", "Open", "HalfOpen"}
          /\ breaker[n].failures \in 0 .. Threshold
          /\ breaker[n].expired \in BOOLEAN
    BY ZenonT(30) DEF BreakerInv, IsEntry
  <2>4. ASSUME NEW t \in Thread
        PROVE  /\ call[t].pc \in PC /\ call[t].fd \in Nat \cup {NoFd}
               /\ call[t] # Idle => call[t].targets # << >> /\ nodes # {}
    BY Zenon, <2>1, CallTyped DEF TypeInv, CallShape
  <2>5. ASSUME NEW t \in Worker
        PROVE  /\ refresh[t].pc \in {"none", "fetch", "read", "apply"}
               /\ refresh[t].fd \in Nat \cup {NoFd}
               /\ refresh[t].pc # "none" => nodes # {}
    <3>1. refresh[t] \in RefreshRec /\ RefreshShape(t)
      BY <2>1 DEF TypeInv
    <3> QED
      BY <3>1 DEF RefreshRec, RefreshShape
  <2> QED
    BY <2>2, <2>3, <2>4, <2>5, ZenonT(30) DEF TypeOK
<1> QED
  BY <1>1, ClientInvariant, BreakerInvariant, PTL

(* The client keeps at most max_connections_per_node idle connections to a *)
(* node, and one more socket per thread, the refresh thread included       *)
(* (connection_pool.cpp 87-96, topology_manager.cpp 72-95).                *)
THEOREM DescriptorsAreBounded == Spec => []DescriptorsBounded
<1>1. ClientInv => DescriptorsBounded
  <2> SUFFICES ASSUME ClientInv  PROVE DescriptorsBounded
    OBVIOUS
  <2>0. TypeInv /\ Owned /\ PoolsBounded /\ MaxIdle \in Nat
    BY ClientAssumption DEF ClientInv
  <2> DEFINE Hand(t) == IF refresh[t].fd # NoFd THEN refresh[t].fd
                        ELSE IF t \in Thread THEN call[t].fd ELSE NoFd
             InHand == {f \in DOMAIN conns : \E t \in Worker : f \in Held(t)}
             Users == {t \in Worker : Hand(t) \in InHand}
             hand == [t \in Users |-> Hand(t)]
             Idles == {f \in DOMAIN conns : f \in Range(pool[conns[f].node])}
             Places == {p \in Node \X (1 .. MaxIdle) :
                          /\ p[2] \in DOMAIN pool[p[1]]
                          /\ pool[p[1]][p[2]] \in Idles}
             idles == [p \in Places |-> pool[p[1]][p[2]]]
  <2>w. IsFiniteSet(Worker)
    BY ClientAssumption, FS_AddElement DEF Worker
  <2>1. IsFiniteSet(InHand) /\ Cardinality(InHand) <= Cardinality(Worker)
    <3>1. ASSUME NEW t \in Worker, NEW f \in Held(t)  PROVE f = Hand(t)
      <4>1. t \in Thread /\ refresh[t].fd # NoFd => call[t].fd = NoFd
        BY <2>0 DEF TypeInv, CallShape, RefreshShape, Worker
      <4> QED
        BY <3>1, <4>1 DEF Held
    <3> HIDE DEF Hand
    <3>2. hand \in Surjection(Users, InHand)
      <4>1. hand \in [Users -> InHand]
        OBVIOUS
      <4>2. ASSUME NEW f \in InHand  PROVE \E t \in Users : hand[t] = f
        BY <3>1
      <4> QED
        BY Zenon, <4>1, <4>2 DEF Surjection
    <3>3. IsFiniteSet(Users) /\ Cardinality(Users) <= Cardinality(Worker)
      BY <2>w, FS_Subset
    <3> HIDE DEF InHand, hand, Users
    <3>4. IsFiniteSet(InHand) /\ Cardinality(InHand) <= Cardinality(Users)
      BY <3>2, <3>3, FS_Surjection
    <3>5. /\ Cardinality(InHand) \in Nat /\ Cardinality(Users) \in Nat
          /\ Cardinality(Worker) \in Nat
      BY <2>w, <3>3, <3>4, FS_CardinalityType
    <3> QED
      BY <3>3, <3>4, <3>5
  <2>2. IsFiniteSet(Idles) /\ Cardinality(Idles) <= MaxIdle * Cardinality(Node)
    <3>1. ASSUME NEW f \in Idles
          PROVE  \E p \in Places : pool[p[1]][p[2]] = f
      <4> DEFINE n == conns[f].node
      <4>1. n \in Node
        BY <2>0 DEF TypeInv, ConnsTyped
      <4>2. PICK i \in DOMAIN pool[n] : pool[n][i] = f
        BY <3>1 DEF Range
      <4>3. i \in 1 .. MaxIdle
        <5>1. pool[n] \in Seq(Nat) /\ Len(pool[n]) <= MaxIdle
          BY <2>0, <4>1 DEF TypeInv, PoolsBounded
        <5>2. DOMAIN pool[n] = 1 .. Len(pool[n]) /\ Len(pool[n]) \in Nat
          BY <5>1, LenProperties
        <5> QED
          BY <2>0, <5>1, <5>2
      <4> HIDE DEF n, Idles
      <4>4. <<n, i>> \in Places
        BY <3>1, <4>1, <4>2, <4>3
      <4> HIDE DEF Places
      <4> QED
        BY <4>2, <4>4
    <3>2. idles \in [Places -> Idles]
      OBVIOUS
    <3>3. idles \in Surjection(Places, Idles)
      BY Zenon, <3>1, <3>2 DEF Surjection
    <3>4. /\ IsFiniteSet(1 .. MaxIdle) /\ Cardinality(1 .. MaxIdle) = MaxIdle
      BY <2>0, FS_Interval
    <3>5. /\ IsFiniteSet(Node \X (1 .. MaxIdle))
          /\ Cardinality(Node \X (1 .. MaxIdle)) = Cardinality(Node) * MaxIdle
      BY Zenon, <3>4, NodeAssumption, FS_Product
    <3>6. Places \in SUBSET (Node \X (1 .. MaxIdle))
      OBVIOUS
    <3> HIDE DEF Places, Idles, idles
    <3>7. /\ IsFiniteSet(Places)
          /\ Cardinality(Places) <= Cardinality(Node) * MaxIdle
      BY <3>5, <3>6, FS_Subset
    <3>8. IsFiniteSet(Idles) /\ Cardinality(Idles) <= Cardinality(Places)
      BY <3>3, <3>7, FS_Surjection
    <3>9. /\ Cardinality(Idles) \in Nat /\ Cardinality(Places) \in Nat
          /\ Cardinality(Node) \in Nat
      BY <3>7, <3>8, NodeAssumption, FS_CardinalityType
    <3> QED
      BY <2>0, <3>7, <3>8, <3>9
  <2>3. DOMAIN conns = InHand \cup Idles
    BY <2>0 DEF Owned
  <2> HIDE DEF InHand, Idles
  <2>4. Cardinality(DOMAIN conns) <= Cardinality(InHand) + Cardinality(Idles)
    <3>1. Cardinality(InHand \cup Idles)
            = Cardinality(InHand) + Cardinality(Idles) - Cardinality(InHand \cap Idles)
      BY <2>1, <2>2, FS_Union
    <3>2. Cardinality(InHand \cap Idles) \in Nat
      BY Zenon, <2>1, FS_Intersection, FS_CardinalityType
    <3>3. Cardinality(InHand) \in Nat /\ Cardinality(Idles) \in Nat
      BY <2>1, <2>2, FS_CardinalityType
    <3> QED
      BY <2>3, <3>1, <3>2, <3>3
  <2>5. /\ Cardinality(InHand) \in Nat /\ Cardinality(Idles) \in Nat
        /\ Cardinality(Node) \in Nat /\ Cardinality(Worker) \in Nat
        /\ Cardinality(DOMAIN conns) \in Nat /\ MaxIdle * Cardinality(Node) \in Nat
    <3>1. IsFiniteSet(DOMAIN conns)
      BY <2>0 DEF TypeInv, ConnsTyped
    <3>2. Cardinality(Node) \in Nat /\ Cardinality(Worker) \in Nat
      BY <2>w, NodeAssumption, FS_CardinalityType
    <3>3. MaxIdle * Cardinality(Node) \in Nat
      BY <2>0, <3>2
    <3> QED
      BY <2>1, <2>2, <3>1, <3>2, <3>3, FS_CardinalityType
  <2>6. Cardinality(DOMAIN conns) <= MaxIdle * Cardinality(Node) + Cardinality(Worker)
    BY <2>1, <2>2, <2>4, <2>5
  <2> QED
    BY <2>0, <2>6 DEF DescriptorsBounded, PoolsBounded
<1> QED
  BY <1>1, ClientInvariant, PTL
=============================================================================
