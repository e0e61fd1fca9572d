------------------------- MODULE CoordinatorProofs -------------------------
(***************************************************************************)
(* Proofs about Coordinator.tla for every set of nodes, keys and clients:  *)
(* the types, that a request moves ever nearer to its key, so it never     *)
(* returns and no coroutines wait for each other in a circle, and that the *)
(* wait group of a node and the coroutines on it agree.                    *)
(***************************************************************************)
EXTENDS Coordinator, RingProofs, SequenceTheorems

(* A function with the domain of a sequence and values in S is one too. *)
LEMMA MapSeq ==
    ASSUME NEW S, NEW q \in Seq(S), NEW f,
           f = [j \in DOMAIN q |-> f[j]],
           \A j \in DOMAIN q : f[j] \in S
    PROVE  f \in Seq(S)
<1>1. Len(q) \in Nat /\ DOMAIN q = 1 .. Len(q)
  OBVIOUS
<1>2. f \in [1 .. Len(q) -> S]
  BY <1>1
<1>3. QED
  BY <1>1, <1>2, SeqDef

(* Replacing one handler of one chain changes nothing else. *)
LEMMA ReplaceHandler ==
    ASSUME chain \in [Client -> Seq(Handler)],
           NEW r \in Client, NEW i \in DOMAIN chain[r], NEW h \in Handler,
           NEW c, c = [chain EXCEPT ![r][i] = h]
    PROVE  /\ c \in [Client -> Seq(Handler)]
           /\ \A s \in Client : DOMAIN c[s] = DOMAIN chain[s]
           /\ c[r][i] = h
           /\ \A s \in Client : \A j \in DOMAIN chain[s] :
                (s # r \/ j # i) => c[s][j] = chain[s][j]
<1>1. chain[r] \in Seq(Handler)
  OBVIOUS
<1>2. c = [chain EXCEPT ![r] = [chain[r] EXCEPT ![i] = h]]
  OBVIOUS
<1>3. [chain[r] EXCEPT ![i] = h] \in Seq(Handler)
  BY <1>1
<1>4. QED
  BY <1>1, <1>2, <1>3

(* The fields of a handler have the types of Handler. *)
LEMMA HandlerFields ==
    ASSUME NEW h \in Handler
    PROVE  /\ h.node \in Node /\ h.req \in Request /\ h.pc \in PC
           /\ h.owner \in Node \cup {NoNode} /\ h.resp \in Response
BY DEF Handler

(* The fields of a request have the types of Request. *)
LEMMA RequestFields ==
    ASSUME NEW q \in Request
    PROVE  q.key \in Key /\ q.value \in Value \cup {Absent}
BY DEF Request

(* The ring operations keep a ring a ring. *)
LEMMA RingOperations ==
    ASSUME NEW g \in Rings, NEW m \in Node
    PROVE  /\ AddNode(g, m, Tokens[m]) \in Rings
           /\ RemoveNode(g, m) \in Rings
<1>1. DOMAIN g \in SUBSET Position /\ g \in [DOMAIN g -> Node]
  BY DEF Rings
<1>2. Tokens[m] \in SUBSET Position
  BY TokensAssumption
<1>3. AddNode(g, m, Tokens[m]) \in [DOMAIN g \cup Tokens[m] -> Node]
  BY <1>1 DEF AddNode
<1>4. RemoveNode(g, m) \in [{t \in DOMAIN g : g[t] # m} -> Node]
  BY <1>1 DEF RemoveNode, Restrict
<1>5. QED
  BY <1>1, <1>2, <1>3, <1>4 DEF Rings

(* The ring main() starts a node with is a ring of its tokens. *)
LEMMA OwnRing ==
    ASSUME NEW n \in Node
    PROVE  AddNode(EmptyRing, n, Tokens[n]) \in Rings
<1>1. EmptyRing \in [{} -> Node] /\ {} \in SUBSET Position
  BY DEF EmptyRing
<1>2. EmptyRing \in Rings
  BY <1>1 DEF Rings
<1>3. QED
  BY <1>2, RingOperations

(* complete(), Fail and Return rewrite handlers in place. *)
LEMMA FinishEffect ==
    ASSUME chain \in [Client -> Seq(Handler)],
           NEW r \in Client, NEW i \in DOMAIN chain[r], NEW resp \in Response,
           Finish(r, i, resp)
    PROVE  /\ chain' \in [Client -> Seq(Handler)]
           /\ \A s \in Client : DOMAIN chain'[s] = DOMAIN chain[s]
           /\ chain'[r][i] = Goto(chain[r][i], "reply", resp)
           /\ \A s \in Client : \A j \in DOMAIN chain[s] :
                (s # r \/ j # i) =>
                \/ chain'[s][j] = chain[s][j]
                \/ /\ chain[r][i].pc = "fetch"
                   /\ Waiting(s, j, chain[r][i].node, chain[r][i].req.key)
                   /\ chain'[s][j] = Goto(chain[s][j], "reply", Shared(resp))
                \/ /\ chain[s][j].pc = "reply"
                   /\ chain'[s][j] = [chain[s][j] EXCEPT !.pc = "done"]
           /\ \A s \in Client : \A j \in DOMAIN chain[s] :
                (/\ s # r \/ j # i
                 /\ chain[r][i].pc = "fetch"
                 /\ Waiting(s, j, chain[r][i].node, chain[r][i].req.key))
                => chain'[s][j] = Goto(chain[s][j], "reply", Shared(resp))
<1> DEFINE h == chain[r][i]
           collapsed == h.pc = "fetch"
           Step(s, j) ==
              IF s = r /\ j = i THEN Goto(chain[s][j], "reply", resp)
              ELSE IF collapsed /\ Waiting(s, j, h.node, h.req.key)
                   THEN Goto(chain[s][j], "reply", Shared(resp))
              ELSE IF s = r /\ j = i + 1 /\ chain[s][j].pc = "reply"
                   THEN [chain[s][j] EXCEPT !.pc = "done"]
              ELSE chain[s][j]
<1>1. chain' = [s \in Client |-> [j \in DOMAIN chain[s] |-> Step(s, j)]]
  BY DEF Finish
<1>2. Shared(resp) \in Response
  BY DEF Shared, OkValue, Reply, Response, Status
<1>3. ASSUME NEW s \in Client, NEW j \in DOMAIN chain[s]
      PROVE  Step(s, j) \in Handler
  <2>1. chain[s][j] \in Handler
    OBVIOUS
  <2>2. \A x \in Response : Goto(chain[s][j], "reply", x) \in Handler
    BY ZenonT(60), <2>1 DEF Goto, Handler, PC
  <2>3. [chain[s][j] EXCEPT !.pc = "done"] \in Handler
    BY ZenonT(60), <2>1 DEF Handler, PC
  <2>4. QED
    BY <1>2, <2>1, <2>2, <2>3
<1>4. \A s \in Client : \A j \in DOMAIN chain[s] : chain'[s][j] = Step(s, j)
  BY <1>1
<1>5. \A s \in Client : DOMAIN chain'[s] = DOMAIN chain[s]
  BY <1>1
<1>6. ASSUME NEW s \in Client PROVE chain'[s] \in Seq(Handler)
  <2> DEFINE f == [j \in DOMAIN chain[s] |-> Step(s, j)]
  <2>1. chain[s] \in Seq(Handler)
    OBVIOUS
  <2>2. \A j \in DOMAIN chain[s] : f[j] \in Handler
    BY <1>3
  <2>3. f = [j \in DOMAIN chain[s] |-> f[j]]
    OBVIOUS
  <2>4. chain'[s] = f
    BY <1>1
  <2> HIDE DEF f
  <2>5. QED
    BY <2>1, <2>2, <2>3, <2>4, MapSeq
<1>7. chain' \in [Client -> Seq(Handler)]
  BY <1>1, <1>6
<1>8. QED
  BY ZenonT(60), <1>4, <1>5, <1>7

-----------------------------------------------------------------------------
(* Type correctness.  A handler that proxies names a node as the owner;    *)
(* the handler Send starts is typed because of it.                         *)
OwnerKnown ==
    \A r \in Client : \A i \in DOMAIN chain[r] :
        Proxying(r, i) => chain[r][i].owner \in Node

TypeInv == TypeOK /\ OwnerKnown

(* An owner that is a peer is a node. *)
LEMMA OwnerIsNode ==
    ASSUME TypeOK, NEW n \in Node, NEW k \in Key, ~IsLocal(n, k)
    PROVE  OwnerSeenBy(n, k) \in Node /\ OwnerSeenBy(n, k) # n
<1>1. ring[n] \in Rings /\ HashKey[k] \in Position
  BY HashKeyAssumption DEF TypeOK
<1>2. DOMAIN ring[n] \in SUBSET Position /\ ring[n] \in [DOMAIN ring[n] -> Node]
  BY <1>1 DEF Rings
<1>3. DOMAIN ring[n] # {}
  BY DEF IsLocal, OwnerSeenBy, GetNodeForKey
<1>4. LowerBound(ring[n], HashKey[k]) \in DOMAIN ring[n]
  BY ZenonT(60), <1>1, <1>2, <1>3, LowerBoundNearest
<1>5. QED
  BY <1>2, <1>3, <1>4 DEF IsLocal, OwnerSeenBy, GetNodeForKey

(* The steps that rewrite one handler in place. *)
OneHandlerStep(r, i) ==
    \/ RouteClusterInfo(r, i)
    \/ RouteLocal(r, i)
    \/ RouteInitiate(r, i)
    \/ RouteJoin(r, i)
    \/ RouteProxy(r, i)
    \/ WriteResponse(r, i)

(* Such a step either answers, or reads the owner off the node's ring. *)
LEMMA OneHandlerEffect ==
    ASSUME TypeOK, NEW r \in Client, NEW i \in DOMAIN chain[r],
           OneHandlerStep(r, i)
    PROVE  \E h \in Handler :
              /\ chain' = [chain EXCEPT ![r][i] = h]
              /\ h.node = chain[r][i].node /\ h.req = chain[r][i].req
              /\ \/ /\ chain[r][i].pc = "route" /\ h.pc = "reply"
                    /\ h.owner = chain[r][i].owner
                 \/ /\ chain[r][i].pc = "reply" /\ h.pc = "done"
                    /\ h.owner = chain[r][i].owner
                 \/ /\ chain[r][i].pc = "route"
                    /\ h.pc \in {"fetch", "wait", "proxy"}
                    /\ ~IsLocal(h.node, h.req.key)
                    /\ h.owner = OwnerSeenBy(h.node, h.req.key)
                    /\ h.owner \in Node
<1> DEFINE g == chain[r][i]
<1>1. g \in Handler /\ g.node \in Node /\ g.req.key \in Key
  BY HandlerFields, RequestFields DEF TypeOK
<1>2. \A x \in Response : Goto(g, "reply", x) \in Handler
  BY ZenonT(60), <1>1 DEF Goto, Handler, PC
<1>3. \A x \in Response :
         LET h == Goto(g, "reply", x)
         IN  h.node = g.node /\ h.req = g.req /\ h.pc = "reply" /\ h.owner = g.owner
  BY <1>1 DEF Goto, Handler
<1>4. CASE RouteClusterInfo(r, i)
  <2>1. Reply("Ok") \in Response
    BY DEF Reply, Response, Status
  <2>2. g.pc = "route" /\ chain' = [chain EXCEPT ![r][i] = Goto(g, "reply", Reply("Ok"))]
    BY <1>4 DEF RouteClusterInfo, Routing, TypeOK
  <2>3. QED
    BY ZenonT(60), <2>1, <2>2, <1>2, <1>3
<1>5. CASE RouteLocal(r, i)
  <2>1. PICK x \in Response :
           g.pc = "route" /\ chain' = [chain EXCEPT ![r][i] = Goto(g, "reply", x)]
    BY ZenonT(60), <1>5 DEF RouteLocal, Routing, TypeOK
  <2>2. QED
    BY ZenonT(60), <2>1, <1>2, <1>3
<1>6. ASSUME NEW pc \in {"fetch", "wait", "proxy"}, Routing(r, i),
             RouteRemote(r, i, pc)
      PROVE  \E h \in Handler :
              /\ chain' = [chain EXCEPT ![r][i] = h]
              /\ h.node = g.node /\ h.req = g.req
              /\ g.pc = "route" /\ h.pc = pc
              /\ ~IsLocal(h.node, h.req.key)
              /\ h.owner = OwnerSeenBy(h.node, h.req.key)
              /\ h.owner \in Node
  <2> DEFINE o == OwnerSeenBy(g.node, g.req.key)
             h == [g EXCEPT !.pc = pc, !.owner = o]
  <2>1. ~IsLocal(g.node, g.req.key) /\ chain' = [chain EXCEPT ![r][i] = h]
    BY <1>6 DEF RouteRemote, TypeOK
  <2>2. o \in Node
    BY <1>1, <2>1, OwnerIsNode
  <2> HIDE DEF o
  <2>3. h \in Handler /\ h.node = g.node /\ h.req = g.req /\ h.pc = pc /\ h.owner = o
    BY ZenonT(60), <1>1, <2>2 DEF Handler, PC
  <2>4. g.pc = "route"
    BY ZenonT(60), <1>6 DEF Routing
  <2>5. QED
    BY ZenonT(60), <2>1, <2>2, <2>3, <2>4 DEF o
<1>7. CASE RouteInitiate(r, i)
  BY ZenonT(60), <1>6, <1>7 DEF RouteInitiate
<1>8. CASE RouteJoin(r, i)
  BY Zenon, <1>6, <1>8 DEF RouteJoin
<1>9. CASE RouteProxy(r, i)
  BY <1>6, <1>9 DEF RouteProxy
<1>10. CASE WriteResponse(r, i)
  <2> DEFINE h == [g EXCEPT !.pc = "done"]
  <2>1. g.pc = "reply" /\ chain' = [chain EXCEPT ![r][i] = h]
    BY <1>10 DEF WriteResponse, TypeOK
  <2>2. h \in Handler /\ h.node = g.node /\ h.req = g.req /\ h.pc = "done" /\ h.owner = g.owner
    BY <1>1 DEF Handler, PC
  <2>3. QED
    BY ZenonT(60), <2>1, <2>2
<1>11. QED
  BY ZenonT(60), <1>4, <1>5, <1>7, <1>8, <1>9, <1>10 DEF OneHandlerStep

(* What a step does to a handler (s, j) that exists: it stays at its node  *)
(* with its request, and names another owner only by routing.              *)
Kept(s, j) ==
    LET h == chain[s][j]
        g == chain'[s][j]
    IN  /\ g.node = h.node /\ g.req = h.req
        /\ \/ /\ g.owner = h.owner
              /\ g.pc \in {"fetch", "proxy"} => h.pc = g.pc
           \/ /\ g.owner \in Node
              /\ ~IsLocal(h.node, h.req.key)
              /\ g.owner = OwnerSeenBy(h.node, h.req.key)

(* A handler that a step starts: the first of a request, or the one at the *)
(* owner a proxying handler has named.                                     *)
Started(s, j) ==
    LET g == chain'[s][j]
    IN  /\ g.pc = "route"
        /\ \/ chain[s] = << >> /\ j = 1
           \/ /\ j - 1 \in DOMAIN chain[s] /\ j = Len(chain[s]) + 1
              /\ Proxying(s, j - 1)
              /\ g.node = chain[s][j - 1].owner
              /\ g.req = chain[s][j - 1].req

ChainsGrow ==
    \A s \in Client :
        /\ \A j \in DOMAIN chain[s] : j \in DOMAIN chain'[s] /\ Kept(s, j)
        /\ \A j \in DOMAIN chain'[s] : j \notin DOMAIN chain[s] => Started(s, j)

ChainsTyped == chain \in [Client -> Seq(Handler)]

(* A step of one handler keeps every chain and its nodes. *)
LEMMA OneHandlerGrows ==
    ASSUME TypeOK, NEW r \in Client, NEW i \in DOMAIN chain[r],
           OneHandlerStep(r, i)
    PROVE  ChainsTyped' /\ ChainsGrow
<1>1. PICK h \in Handler :
              /\ chain' = [chain EXCEPT ![r][i] = h]
              /\ h.node = chain[r][i].node /\ h.req = chain[r][i].req
              /\ \/ /\ chain[r][i].pc = "route" /\ h.pc = "reply"
                    /\ h.owner = chain[r][i].owner
                 \/ /\ chain[r][i].pc = "reply" /\ h.pc = "done"
                    /\ h.owner = chain[r][i].owner
                 \/ /\ chain[r][i].pc = "route"
                    /\ h.pc \in {"fetch", "wait", "proxy"}
                    /\ ~IsLocal(h.node, h.req.key)
                    /\ h.owner = OwnerSeenBy(h.node, h.req.key)
                    /\ h.owner \in Node
  BY OneHandlerEffect
<1>2. chain \in [Client -> Seq(Handler)]
  BY DEF TypeOK
<1>3. /\ chain' \in [Client -> Seq(Handler)]
      /\ \A s \in Client : DOMAIN chain'[s] = DOMAIN chain[s]
      /\ chain'[r][i] = h
      /\ \A s \in Client : \A j \in DOMAIN chain[s] :
            (s # r \/ j # i) => chain'[s][j] = chain[s][j]
  BY <1>1, <1>2, ReplaceHandler
<1>4. Kept(r, i)
  BY <1>1, <1>3 DEF Kept
<1>5. ASSUME NEW s \in Client, NEW j \in DOMAIN chain[s] PROVE Kept(s, j)
  <2>1. CASE s = r /\ j = i
    BY <1>4, <2>1
  <2>2. CASE s # r \/ j # i
    <3>1. chain'[s][j] = chain[s][j]
      BY <1>3, <2>2
    <3>2. QED BY <3>1 DEF Kept
  <2>3. QED BY <2>1, <2>2
<1>6. QED
  BY <1>3, <1>5 DEF ChainsGrow, ChainsTyped

(* The end of a proxied call keeps every chain and its nodes. *)
LEMMA FinishGrows ==
    ASSUME TypeOK, NEW r \in Client, NEW i \in DOMAIN chain[r],
           NEW resp \in Response, Finish(r, i, resp)
    PROVE  ChainsTyped' /\ ChainsGrow
<1>1. chain \in [Client -> Seq(Handler)]
  BY DEF TypeOK
<1>2. /\ chain' \in [Client -> Seq(Handler)]
      /\ \A s \in Client : DOMAIN chain'[s] = DOMAIN chain[s]
      /\ chain'[r][i] = Goto(chain[r][i], "reply", resp)
  BY SMTT(30), <1>1, FinishEffect
<1>3. ASSUME NEW s \in Client, NEW j \in DOMAIN chain[s] PROVE Kept(s, j)
  <2>1. \/ chain'[s][j] = chain[s][j]
        \/ \E x \in Response : chain'[s][j] = Goto(chain[s][j], "reply", x)
        \/ chain'[s][j] = [chain[s][j] EXCEPT !.pc = "done"]
    <3>1. Shared(resp) \in Response
      BY DEF Shared, OkValue, Reply, Response, Status
    <3>2. CASE s = r /\ j = i
      BY <1>2, <3>2
    <3>3. CASE s # r \/ j # i
      <4>1. \/ chain'[s][j] = chain[s][j]
            \/ chain'[s][j] = Goto(chain[s][j], "reply", Shared(resp))
            \/ chain'[s][j] = [chain[s][j] EXCEPT !.pc = "done"]
        BY <1>1, <3>3, FinishEffect
      <4>2. QED BY <4>1, <3>1
    <3>4. QED BY <3>2, <3>3
  <2>2. chain[s][j] \in Handler
    BY <1>1
  <2>3. QED
    BY ZenonT(60), <2>1, <2>2 DEF Kept, Goto, Handler
<1>4. QED
  BY <1>2, <1>3 DEF ChainsGrow, ChainsTyped

(* A handler that has just read its request is a handler. *)
LEMMA NewHandlerTyped ==
    ASSUME NEW n \in Node, NEW q \in Request
    PROVE  /\ NewHandler(n, q) \in Handler
           /\ NewHandler(n, q).node = n /\ NewHandler(n, q).req = q
           /\ NewHandler(n, q).pc = "route"
BY DEF NewHandler, Handler, PC, Reply, Response, Status

(* An arriving request starts a chain of one handler. *)
LEMMA AcceptGrows ==
    ASSUME TypeOK, NEW r \in Client, NEW n \in Node, NEW q \in Request,
           Accept(r, n, q)
    PROVE  ChainsTyped' /\ ChainsGrow
<1> DEFINE h == NewHandler(n, q)
<1>1. h \in Handler /\ h.pc = "route"
  BY NewHandlerTyped
<1> HIDE DEF h
<1>2. chain \in [Client -> Seq(Handler)]
  BY DEF TypeOK
<1>3. chain[r] = << >> /\ chain' = [chain EXCEPT ![r] = <<h>>]
  BY DEF Accept, h
<1>4. <<h>> \in Seq(Handler) /\ DOMAIN <<h>> = {1} /\ <<h>>[1] = h
  BY <1>1
<1>5. \A s \in Client : s # r => chain'[s] = chain[s]
  BY <1>2, <1>3
<1>6. chain'[r] = <<h>>
  BY <1>2, <1>3
<1>7. \A s \in Client : \A j \in DOMAIN chain[s] : s # r
  BY <1>3
<1>8. QED
  BY ZenonT(60), <1>1, <1>2, <1>3, <1>4, <1>5, <1>6, <1>7
     DEF ChainsTyped, ChainsGrow, Kept, Started

(* proxy_to_peer adds one handler, at the owner, to a chain. *)
LEMMA SendGrows ==
    ASSUME TypeInv, NEW r \in Client, NEW i \in DOMAIN chain[r], Send(r, i)
    PROVE  ChainsTyped' /\ ChainsGrow
<1> DEFINE h == NewHandler(chain[r][i].owner, chain[r][i].req)
<1>1. chain \in [Client -> Seq(Handler)] /\ chain[r][i] \in Handler
  BY DEF TypeInv, TypeOK
<1>2. chain[r][i].owner \in Node
  BY DEF TypeInv, OwnerKnown, Send
<1>3. chain[r][i].req \in Request
  BY ZenonT(60), <1>1, HandlerFields
<1>4. h \in Handler /\ h.pc = "route" /\ h.node = chain[r][i].owner
      /\ h.req = chain[r][i].req
  BY <1>2, <1>3, NewHandlerTyped
<1>5. chain' = [chain EXCEPT ![r] = Append(chain[r], h)]
      /\ Proxying(r, i) /\ Len(chain[r]) = i
  BY <1>1 DEF Send
<1> HIDE DEF h
<1>6. chain[r] \in Seq(Handler) /\ i \in Nat
  BY <1>1
<1>7. /\ Append(chain[r], h) \in Seq(Handler)
      /\ DOMAIN Append(chain[r], h) = 1 .. (i + 1)
      /\ DOMAIN chain[r] = 1 .. i
      /\ Append(chain[r], h)[i + 1] = h
      /\ \A j \in 1 .. i : Append(chain[r], h)[j] = chain[r][j]
  BY <1>4, <1>5, <1>6
<1>8. chain'[r] = Append(chain[r], h)
      /\ \A s \in Client : s # r => chain'[s] = chain[s]
  BY <1>1, <1>5
<1>9. ChainsTyped'
  BY ZenonT(60), <1>1, <1>5, <1>7 DEF ChainsTyped
<1>10. ASSUME NEW s \in Client, NEW j \in DOMAIN chain[s]
       PROVE  j \in DOMAIN chain'[s] /\ chain'[s][j] = chain[s][j]
  <2>1. CASE s # r
    BY <1>8, <2>1
  <2>2. CASE s = r
    <3>1. j \in 1 .. i /\ j \in 1 .. (i + 1)
      BY SMTT(30), <1>6, <1>7, <2>2
    <3>2. QED BY ZenonT(60), <1>7, <1>8, <2>2, <3>1
  <2>3. QED BY <2>1, <2>2
<1>11. ASSUME NEW s \in Client, NEW j \in DOMAIN chain'[s], j \notin DOMAIN chain[s]
       PROVE  Started(s, j)
  <2>1. s = r /\ j = i + 1 /\ chain'[s][j] = h /\ j - 1 = i
    BY <1>6, <1>7, <1>8, <1>11
  <2>2. QED
    BY ZenonT(60), <1>4, <1>5, <2>1 DEF Started
<1>12. QED
  BY <1>9, <1>10, <1>11 DEF ChainsGrow, Kept

(* A restart keeps every chain and its nodes. *)
LEMMA RestartGrows ==
    ASSUME TypeOK, NEW n \in Node, Restart(n)
    PROVE  ChainsTyped' /\ ChainsGrow
<1> DEFINE Dead(s, j) == IF chain[s][j].node = n /\ chain[s][j].pc # "done"
                         THEN [chain[s][j] EXCEPT !.pc = "dead"]
                         ELSE chain[s][j]
<1>1. chain \in [Client -> Seq(Handler)]
  BY DEF TypeOK
<1>2. chain' = [s \in Client |-> [j \in DOMAIN chain[s] |-> Dead(s, j)]]
  BY DEF Restart
<1>3. ASSUME NEW s \in Client, NEW j \in DOMAIN chain[s]
      PROVE  Dead(s, j) \in Handler /\ chain'[s][j] = Dead(s, j) /\ Kept(s, j)
  <2>1. chain[s][j] \in Handler /\ chain'[s][j] = Dead(s, j)
    BY <1>1, <1>2
  <2>2. [chain[s][j] EXCEPT !.pc = "dead"] \in Handler
    BY <2>1 DEF Handler, PC
  <2>3. QED
    BY <2>1, <2>2 DEF Kept, Handler
<1>4. \A s \in Client : DOMAIN chain'[s] = DOMAIN chain[s]
  BY <1>2
<1>5. ASSUME NEW s \in Client PROVE chain'[s] \in Seq(Handler)
  <2> DEFINE f == [j \in DOMAIN chain[s] |-> Dead(s, j)]
  <2>1. chain[s] \in Seq(Handler)
    BY <1>1
  <2>2. \A j \in DOMAIN chain[s] : f[j] \in Handler
    BY <1>3
  <2>3. f = [j \in DOMAIN chain[s] |-> f[j]] /\ chain'[s] = f
    BY <1>2
  <2> HIDE DEF f
  <2>4. QED
    BY ZenonT(60), <2>1, <2>2, <2>3, MapSeq
<1>6. chain' \in [Client -> Seq(Handler)]
  BY ZenonT(60), <1>2, <1>5
<1>7. QED
  BY ZenonT(60), <1>3, <1>4, <1>6 DEF ChainsGrow, ChainsTyped

(* Every step of the cluster only adds handlers at the end of a chain. *)
LEMMA StepEffect ==
    ASSUME TypeInv, [Next]_vars
    PROVE  ChainsTyped' /\ ChainsGrow
<1>0. TypeOK
  BY DEF TypeInv
<1>1. ASSUME UNCHANGED chain PROVE ChainsTyped' /\ ChainsGrow
  BY <1>0, <1>1 DEF TypeOK, ChainsTyped, ChainsGrow, Kept
<1>2. ASSUME NEW r \in Client, NEW n \in Node, NEW q \in Workload, Accept(r, n, q)
      PROVE  ChainsTyped' /\ ChainsGrow
  BY ZenonT(60), <1>0, <1>2, WorkloadAssumption, AcceptGrows
<1>3. ASSUME NEW r \in Client, NEW i \in DOMAIN chain[r], HandlerStep(r, i)
      PROVE  ChainsTyped' /\ ChainsGrow
  <2>1. CASE OneHandlerStep(r, i)
    BY <1>0, <2>1, OneHandlerGrows
  <2>2. CASE Send(r, i)
    BY <2>2, SendGrows
  <2>3. CASE Return(r, i)
    <3>1. chain[r][i + 1] \in Handler
      BY <1>0, <2>3 DEF TypeOK, Return
    <3>2. chain[r][i + 1].resp \in Response
      BY <3>1, HandlerFields
    <3>3. QED
      BY ZenonT(60), <1>0, <2>3, <3>2, FinishGrows DEF Return
  <2>4. QED
    BY ZenonT(60), <1>3, <2>1, <2>2, <2>3 DEF HandlerStep, OneHandlerStep
<1>4. ASSUME NEW r \in Client, NEW i \in DOMAIN chain[r], Fail(r, i)
      PROVE  ChainsTyped' /\ ChainsGrow
  <2>1. Reply("Error") \in Response
    BY DEF Reply, Response, Status
  <2>2. QED
    BY <1>0, <1>4, <2>1, FinishGrows DEF Fail
<1>5. ASSUME NEW n \in Unstable, Restart(n)
      PROVE  ChainsTyped' /\ ChainsGrow
  BY ZenonT(60), <1>0, <1>5, UnstableAssumption, RestartGrows
<1>6. RingChange => UNCHANGED chain
  BY DEF RingChange, RingAdd, RingRemove
<1>7. QED
  BY <1>1, <1>2, <1>3, <1>4, <1>5, <1>6
     DEF Next, Arrival, Progress, Failure, vars

(* The rings, the stores and the wait groups keep their types. *)
LEMMA OthersTyped ==
    ASSUME TypeInv, [Next]_vars
    PROVE  /\ ring' \in [Node -> Rings]
           /\ store' \in [Node -> Contents]
           /\ pending' \in [Node -> [Key -> HandlerId \cup {NoFetch}]]
<1>0. /\ ring \in [Node -> Rings]
      /\ store \in [Node -> Contents]
      /\ pending \in [Node -> [Key -> HandlerId \cup {NoFetch}]]
      /\ chain \in [Client -> Seq(Handler)]
  BY DEF TypeInv, TypeOK
<1>1. ASSUME NEW n \in Node, NEW m \in Node, RingAdd(n, m) \/ RingRemove(n, m)
      PROVE  ring' \in [Node -> Rings] /\ UNCHANGED <<store, pending>>
  <2>1. AddNode(ring[n], m, Tokens[m]) \in Rings /\ RemoveNode(ring[n], m) \in Rings
    BY ZenonT(60), <1>0, RingOperations
  <2>2. QED
    BY ZenonT(60), <1>0, <1>1, <2>1 DEF RingAdd, RingRemove
<1>2. ASSUME NEW r \in Client, NEW i \in DOMAIN chain[r], HandlerStep(r, i)
      PROVE  /\ UNCHANGED ring
             /\ store' \in [Node -> Contents]
             /\ pending' \in [Node -> [Key -> HandlerId \cup {NoFetch}]]
  <2>1. <<r, i>> \in HandlerId
    BY <1>0 DEF HandlerId
  <2>2. chain[r][i].node \in Node /\ chain[r][i].req.key \in Key
    BY SMTT(30), <1>0, HandlerFields, RequestFields
  <2>3. CASE RouteInitiate(r, i)
    BY ZenonT(60), <1>0, <2>1, <2>2, <2>3 DEF RouteInitiate
  <2>4. CASE RouteLocal(r, i)
    BY ZenonT(60), <1>0, <2>2, <2>4 DEF RouteLocal
  <2>5. CASE Return(r, i)
    BY ZenonT(60), <1>0, <2>2, <2>5 DEF Return, Finish
  <2>6. QED
    BY ZenonT(60), <1>0, <1>2, <2>3, <2>4, <2>5
       DEF HandlerStep, RouteClusterInfo, RouteJoin, RouteProxy, Send, WriteResponse
<1>3. ASSUME NEW r \in Client, NEW i \in DOMAIN chain[r], Fail(r, i)
      PROVE  /\ UNCHANGED <<ring, store>>
             /\ pending' \in [Node -> [Key -> HandlerId \cup {NoFetch}]]
  BY ZenonT(60), <1>0, <1>3 DEF Fail, Finish
<1>4. ASSUME NEW n \in Unstable, Restart(n)
      PROVE  /\ ring' \in [Node -> Rings]
             /\ store' \in [Node -> Contents]
             /\ pending' \in [Node -> [Key -> HandlerId \cup {NoFetch}]]
  <2>1. n \in Node /\ AddNode(EmptyRing, n, Tokens[n]) \in Rings
    BY UnstableAssumption, OwnRing
  <2>2. EmptyCache \in Contents
    BY DEF EmptyCache, Contents
  <2>3. [k \in Key |-> NoFetch] \in [Key -> HandlerId \cup {NoFetch}]
    OBVIOUS
  <2>4. QED
    BY ZenonT(60), <1>0, <1>4, <2>1, <2>2, <2>3 DEF Restart
<1>5. QED
  BY ZenonT(60), <1>0, <1>1, <1>2, <1>3, <1>4
     DEF Next, Arrival, Accept, Progress, Failure, RingChange, vars

(* The type invariant holds when the cluster starts. *)
LEMMA TypeInvInit == Init => TypeInv
<1> SUFFICES ASSUME Init PROVE TypeInv
  OBVIOUS
<1>1. ring \in [Node -> Rings]
  BY OwnRing DEF Init
<1>2. store \in [Node -> Contents]
  BY DEF Init, NoTraffic, EmptyCache, Contents
<1>3. pending \in [Node -> [Key -> HandlerId \cup {NoFetch}]]
  BY DEF Init, NoTraffic
<1>4. chain \in [Client -> Seq(Handler)] /\ \A r \in Client : chain[r] = << >>
  BY DEF Init, NoTraffic
<1>5. OwnerKnown
  BY <1>4 DEF OwnerKnown
<1>6. QED
  BY ZenonT(60), <1>1, <1>2, <1>3, <1>4, <1>5 DEF TypeInv, TypeOK

(* Every step of the cluster keeps the type invariant. *)
LEMMA TypeInvNext == TypeInv /\ [Next]_vars => TypeInv'
<1> SUFFICES ASSUME TypeInv, [Next]_vars PROVE TypeInv'
  OBVIOUS
<1>1. ChainsTyped' /\ ChainsGrow
  BY StepEffect
<1>2. TypeOK'
  BY <1>1, OthersTyped DEF TypeOK, ChainsTyped
<1>3. ASSUME NEW s \in Client, NEW j \in DOMAIN chain'[s],
             chain'[s][j].pc \in {"fetch", "proxy"}
      PROVE  chain'[s][j].owner \in Node
  <2>1. CASE j \in DOMAIN chain[s]
    BY ZenonT(60), <1>1, <1>3, <2>1 DEF ChainsGrow, Kept, TypeInv, OwnerKnown, Proxying
  <2>2. CASE j \notin DOMAIN chain[s]
    BY <1>1, <1>3, <2>2 DEF ChainsGrow, Started
  <2>3. QED BY ZenonT(60), <2>1, <2>2
<1>4. OwnerKnown'
  BY <1>3 DEF OwnerKnown, Proxying
<1>5. QED
  BY <1>2, <1>4 DEF TypeInv

(* Type correctness of the request path: rings, stores, wait groups and    *)
(* handlers keep their shape under every step, so a handler is only ever   *)
(* started at a node (coordinator.cpp 141-161).                            *)
THEOREM TypeCorrect == Spec => []TypeOK
<1>1. Spec => []TypeInv
  BY TypeInvInit, TypeInvNext, PTL DEF Spec
<1>2. TypeInv => TypeOK
  BY DEF TypeInv
<1>3. QED
  BY <1>1, <1>2, PTL

-----------------------------------------------------------------------------
(* Forwarding.  The inductive invariant: every node is on its own ring, a  *)
(* chain carries one request, and the owner a handler is proxying to is    *)
(* nearer to the key than the handler's node.                              *)
RingsHoldSelf == \A n \in Node : SelfOnRing(ring[n], n, Tokens)

OneRequest ==
    \A r \in Client : \A i, j \in DOMAIN chain[r] :
        chain[r][i].req = chain[r][j].req

OwnerNearer ==
    \A r \in Client : \A i \in DOMAIN chain[r] :
        Proxying(r, i) =>
            Nearest(HashKey[chain[r][i].req.key], Tokens[chain[r][i].owner])
              < Distance(r, i)

ForwardInv ==
    /\ TypeInv
    /\ RingsHoldSelf
    /\ OneRequest
    /\ OwnerNearer
    /\ ForwardingDescends

(* With distinct tokens, neither adding a node nor removing a peer takes a *)
(* token of n off n's ring.                                                *)
LEMMA RingsHoldSelfStep ==
    ASSUME DistinctTokens, NEW n \in Node, NEW g, SelfOnRing(g, n, Tokens),
           NEW m \in Node
    PROVE  /\ SelfOnRing(AddNode(g, m, Tokens[m]), n, Tokens)
           /\ m # n => SelfOnRing(RemoveNode(g, m), n, Tokens)
<1>1. Tokens[m] \in SUBSET Position /\ (m # n => Tokens[m] \cap Tokens[n] = {})
  BY TokensAssumption DEF DistinctTokens
<1>2. SelfOnRing(AddNode(g, m, Tokens[m]), n, Tokens)
  BY <1>1 DEF SelfOnRing, AddNode
<1>3. ASSUME m # n PROVE SelfOnRing(RemoveNode(g, m), n, Tokens)
  <2> DEFINE D == {t \in DOMAIN g : g[t] # m}
  <2>1. RemoveNode(g, m) = [t \in D |-> g[t]]
    BY DEF RemoveNode, Restrict
  <2>2. QED
    BY <1>3, <2>1 DEF SelfOnRing
<1>4. QED
  BY <1>2, <1>3

(* The ring main() starts a node with holds all its tokens. *)
LEMMA OwnRingHoldsSelf ==
    ASSUME NEW n \in Node
    PROVE  SelfOnRing(AddNode(EmptyRing, n, Tokens[n]), n, Tokens)
BY TokensAssumption DEF SelfOnRing, AddNode, EmptyRing

(* Every step leaves each node on its own ring. *)
LEMMA RingsNext ==
    ASSUME DistinctTokens, TypeOK, RingsHoldSelf, [Next]_vars
    PROVE  RingsHoldSelf'
<1>0. ring \in [Node -> Rings]
  BY DEF TypeOK
<1>1. ASSUME NEW a \in Node, NEW m \in Node, RingAdd(a, m)
      PROVE  RingsHoldSelf'
  <2>1. SelfOnRing(AddNode(ring[a], m, Tokens[m]), a, Tokens)
    BY RingsHoldSelfStep DEF RingsHoldSelf
  <2>2. QED
    BY <1>0, <1>1, <2>1 DEF RingAdd, RingsHoldSelf
<1>2. ASSUME NEW a \in Node, NEW m \in Node, RingRemove(a, m)
      PROVE  RingsHoldSelf'
  <2>1. SelfOnRing(RemoveNode(ring[a], m), a, Tokens)
    BY <1>2, RingsHoldSelfStep DEF RingsHoldSelf, RingRemove
  <2>2. QED
    BY <1>0, <1>2, <2>1 DEF RingRemove, RingsHoldSelf
<1>3. ASSUME NEW a \in Unstable, Restart(a) PROVE RingsHoldSelf'
  <2>1. a \in Node /\ SelfOnRing(AddNode(EmptyRing, a, Tokens[a]), a, Tokens)
    BY UnstableAssumption, OwnRingHoldsSelf
  <2>2. QED
    BY <1>0, <1>3, <2>1 DEF Restart, RingsHoldSelf
<1>4. ASSUME UNCHANGED ring PROVE RingsHoldSelf'
  BY ZenonT(60), <1>4 DEF RingsHoldSelf
<1>5. ASSUME NEW r \in Client, NEW i \in DOMAIN chain[r], HandlerStep(r, i)
      PROVE  UNCHANGED ring
  <2>1. CASE Return(r, i)
    BY <2>1 DEF Return, Finish
  <2>2. CASE RouteLocal(r, i)
    BY ZenonT(60), <2>2 DEF RouteLocal
  <2>3. QED
    BY ZenonT(60), <1>5, <2>1, <2>2
       DEF HandlerStep, RouteClusterInfo, RouteInitiate, RouteJoin, RouteProxy,
           Send, WriteResponse
<1>6. ASSUME NEW r \in Client, NEW i \in DOMAIN chain[r], Fail(r, i)
      PROVE  UNCHANGED ring
  BY <1>6 DEF Fail, Finish
<1>7. Arrival => UNCHANGED ring
  BY DEF Arrival, Accept
<1>8. QED
  BY ZenonT(60), <1>1, <1>2, <1>3, <1>4, <1>5, <1>6, <1>7
     DEF Next, Progress, Failure, RingChange, vars

(* Distances are natural numbers. *)
LEMMA DistanceNat ==
    ASSUME TypeOK, NEW r \in Client, NEW i \in DOMAIN chain[r]
    PROVE  Distance(r, i) \in Nat
<1>1. chain[r][i] \in Handler
  BY DEF TypeOK
<1>2. chain[r][i].node \in Node /\ chain[r][i].req.key \in Key
  BY <1>1, HandlerFields, RequestFields
<1>3. HashKey[chain[r][i].req.key] \in Position
      /\ Tokens[chain[r][i].node] \in SUBSET Position
      /\ Tokens[chain[r][i].node] # {}
  BY ZenonT(60), <1>2, HashKeyAssumption, TokensAssumption
<1>4. QED
  BY <1>3, NearestProperty DEF Distance

(* Every step keeps the owner of a proxied request nearer. *)
LEMMA OwnerNearerNext ==
    ASSUME ForwardInv, ChainsGrow
    PROVE  OwnerNearer'
<1> SUFFICES ASSUME NEW s \in Client, NEW j \in DOMAIN chain'[s],
                    chain'[s][j].pc \in {"fetch", "proxy"}
             PROVE  Nearest(HashKey[chain'[s][j].req.key], Tokens[chain'[s][j].owner])
                      < Nearest(HashKey[chain'[s][j].req.key], Tokens[chain'[s][j].node])
  BY DEF OwnerNearer, Proxying, Distance
<1>1. j \in DOMAIN chain[s] /\ Kept(s, j)
  BY DEF ChainsGrow, Started
<1>2. chain[s][j].node \in Node /\ chain[s][j].req.key \in Key
  BY SMTT(30), <1>1, HandlerFields, RequestFields DEF ForwardInv, TypeInv, TypeOK
<1> DEFINE n == chain[s][j].node
           k == chain[s][j].req.key
<1>3. CASE chain'[s][j].owner = chain[s][j].owner /\ chain[s][j].pc = chain'[s][j].pc
  BY ZenonT(60), <1>1, <1>3 DEF Kept, ForwardInv, OwnerNearer, Proxying, Distance
<1>4. CASE ~IsLocal(n, k) /\ chain'[s][j].owner = OwnerSeenBy(n, k)
  <2>1. SelfOnRing(ring[n], n, Tokens) /\ HashKey[k] \in Position
    BY ZenonT(60), <1>2, HashKeyAssumption DEF ForwardInv, RingsHoldSelf
  <2>2. GetNodeForKey(ring[n], HashKey[k]) \notin {NoNode, n}
    BY ZenonT(60), <1>4 DEF IsLocal, OwnerSeenBy
  <2>3. Nearest(HashKey[k], Tokens[GetNodeForKey(ring[n], HashKey[k])])
          < Nearest(HashKey[k], Tokens[n])
    BY ZenonT(60), <1>2, <2>1, <2>2, TokensAssumption, OwnerIsNearer
  <2>4. QED
    BY ZenonT(60), <1>1, <1>4, <2>3 DEF Kept, OwnerSeenBy
<1>5. QED
  BY ZenonT(60), <1>1, <1>3, <1>4 DEF Kept

(* Every step keeps the handlers of a chain on one request. *)
LEMMA OneRequestNext ==
    ASSUME ForwardInv, ChainsGrow
    PROVE  OneRequest'
<1> SUFFICES ASSUME NEW s \in Client, NEW j \in DOMAIN chain'[s]
             PROVE  \A i \in DOMAIN chain'[s] : chain'[s][i].req = chain'[s][j].req
  BY DEF OneRequest
<1>1. ASSUME NEW a \in DOMAIN chain[s], NEW b \in DOMAIN chain[s]
      PROVE  chain'[s][a].req = chain[s][b].req
  BY <1>1 DEF ChainsGrow, Kept, ForwardInv, OneRequest
<1>2. ASSUME NEW a \in DOMAIN chain'[s], a \notin DOMAIN chain[s]
      PROVE  \/ chain[s] = << >> /\ a = 1
             \/ /\ a - 1 \in DOMAIN chain[s] /\ a = Len(chain[s]) + 1
                /\ chain'[s][a].req = chain[s][a - 1].req
  BY <1>2 DEF ChainsGrow, Started
<1>3. CASE chain[s] = << >>
  <2>1. \A a \in DOMAIN chain'[s] : a = 1
    BY <1>2, <1>3
  <2>2. QED BY <2>1
<1>4. CASE chain[s] # << >>
  <2>1. \A a \in DOMAIN chain'[s] : \A b \in DOMAIN chain[s] :
           chain'[s][a].req = chain[s][b].req
    BY <1>1, <1>2, <1>4 DEF ForwardInv, OneRequest
  <2>2. chain[s] \in Seq(Handler)
    BY DEF ForwardInv, TypeInv, TypeOK
  <2>3. 1 \in DOMAIN chain[s]
    BY SMTT(30), <1>4, <2>2
  <2>4. QED BY <2>1, <2>3
<1>5. QED
  BY <1>3, <1>4

(* The same for the state a step leads to. *)
LEMMA DistanceAfter ==
    ASSUME TypeOK', NEW r \in Client, NEW i \in DOMAIN chain'[r]
    PROVE  Distance(r, i)' \in Nat
<1>1. chain'[r][i] \in Handler
  BY DEF TypeOK
<1>2. chain'[r][i].node \in Node /\ chain'[r][i].req.key \in Key
  BY <1>1, HandlerFields, RequestFields
<1>3. HashKey[chain'[r][i].req.key] \in Position
      /\ Tokens[chain'[r][i].node] \in SUBSET Position
      /\ Tokens[chain'[r][i].node] # {}
  BY <1>2, HashKeyAssumption, TokensAssumption
<1>4. QED
  BY <1>3, NearestProperty DEF Distance

(* Every step keeps the distances along a chain falling. *)
LEMMA DescendsNext ==
    ASSUME ForwardInv, ChainsGrow, TypeOK'
    PROVE  ForwardingDescends'
<1> SUFFICES ASSUME NEW s \in Client,
                    NEW i \in DOMAIN chain'[s], NEW j \in DOMAIN chain'[s], i < j
             PROVE  Distance(s, j)' < Distance(s, i)'
  BY DEF ForwardingDescends
<1>1. chain[s] \in Seq(Handler) /\ TypeOK
  BY ZenonT(60) DEF ForwardInv, TypeInv, TypeOK
<1>2. ASSUME NEW a \in DOMAIN chain[s] PROVE Distance(s, a)' = Distance(s, a)
  BY ZenonT(60), <1>2 DEF ChainsGrow, Kept, Distance
<1>3. ASSUME NEW a \in DOMAIN chain'[s], a \notin DOMAIN chain[s]
      PROVE  \/ chain[s] = << >> /\ a = 1
             \/ /\ a - 1 \in DOMAIN chain[s] /\ a = Len(chain[s]) + 1
                /\ Distance(s, a)' < Distance(s, a - 1)
  BY <1>3 DEF ChainsGrow, Started, Distance, ForwardInv, OwnerNearer
<1>4. CASE chain[s] = << >>
  <2>1. \A a \in DOMAIN chain'[s] : a = 1
    BY <1>3, <1>4
  <2>2. QED BY <2>1
<1>5. CASE chain[s] # << >>
  <2>1. DOMAIN chain[s] = 1 .. Len(chain[s]) /\ Len(chain[s]) \in Nat
    BY <1>1
  <2>2. CASE i \in DOMAIN chain[s] /\ j \in DOMAIN chain[s]
    BY ZenonT(60), <1>2, <2>2 DEF ForwardInv, ForwardingDescends
  <2>3. CASE i \notin DOMAIN chain[s]
    <3>1. i = Len(chain[s]) + 1
      BY <1>3, <1>5, <2>3
    <3>2. j \in DOMAIN chain[s] \/ j = Len(chain[s]) + 1
      BY <1>3, <1>5
    <3>3. QED BY <2>1, <3>1, <3>2
  <2>4. CASE i \in DOMAIN chain[s] /\ j \notin DOMAIN chain[s]
    <3>1. j - 1 \in DOMAIN chain[s] /\ j = Len(chain[s]) + 1
          /\ Distance(s, j)' < Distance(s, j - 1)
      BY <1>3, <1>5, <2>4
    <3>2. i = j - 1 \/ i < j - 1
      BY <2>1, <2>4, <3>1
    <3>3. i = j - 1 \/ Distance(s, j - 1) < Distance(s, i)
      BY <2>4, <3>1, <3>2 DEF ForwardInv, ForwardingDescends
    <3>4. Distance(s, i) \in Nat /\ Distance(s, j - 1) \in Nat
      BY <1>1, <2>4, <3>1, DistanceNat
    <3>5. Distance(s, i)' = Distance(s, i)
      BY <1>2, <2>4
    <3>6. Distance(s, j)' \in Nat
      BY DistanceAfter
    <3>7. QED BY SMTT(30), <3>1, <3>3, <3>4, <3>5, <3>6
  <2>5. QED BY <2>2, <2>3, <2>4
<1>6. QED
  BY <1>4, <1>5

(* The forwarding invariant holds when the cluster starts. *)
LEMMA ForwardInvInit == Init => ForwardInv
<1> SUFFICES ASSUME Init PROVE ForwardInv
  OBVIOUS
<1>1. TypeInv
  BY TypeInvInit
<1>2. RingsHoldSelf
  BY OwnRingHoldsSelf DEF Init, RingsHoldSelf
<1>3. \A r \in Client : DOMAIN chain[r] = {}
  BY DEF Init, NoTraffic
<1>4. QED
  BY <1>1, <1>2, <1>3
     DEF ForwardInv, OneRequest, OwnerNearer, ForwardingDescends

(* Every step of the cluster keeps the forwarding invariant. *)
LEMMA ForwardInvNext ==
    ASSUME DistinctTokens
    PROVE  ForwardInv /\ [Next]_vars => ForwardInv'
<1> SUFFICES ASSUME ForwardInv, [Next]_vars PROVE ForwardInv'
  OBVIOUS
<1>1. TypeInv /\ TypeOK /\ RingsHoldSelf
  BY DEF ForwardInv, TypeInv
<1>2. TypeInv' /\ TypeOK'
  BY <1>1, TypeInvNext DEF TypeInv
<1>3. ChainsGrow
  BY <1>1, StepEffect
<1>4. QED
  BY ZenonT(60), <1>1, <1>2, <1>3, RingsNext, OneRequestNext, OwnerNearerNext, DescendsNext
     DEF ForwardInv

(* The forwarding invariant always holds. *)
LEMMA ForwardInvAlways ==
    ASSUME DistinctTokens
    PROVE  Spec => []ForwardInv
BY ForwardInvInit, ForwardInvNext, PTL DEF Spec

(* If no two nodes share a token, forwarding descends on every cluster,    *)
(* whatever the nodes' views of the membership are and however they change *)
(* while a request is on its way (coordinator.cpp 51-79).                  *)
THEOREM Descends ==
    ASSUME DistinctTokens
    PROVE  Spec => []ForwardingDescends
<1>1. ForwardInv => ForwardingDescends
  BY DEF ForwardInv
<1>2. QED
  BY <1>1, ForwardInvAlways, PTL

(* Hence a request never returns to a node that is already proxying it.    *)
THEOREM LoopFree ==
    ASSUME DistinctTokens
    PROVE  Spec => []NoForwardingLoop
<1>1. ASSUME ForwardInv PROVE NoForwardingLoop
  <2> SUFFICES ASSUME NEW r \in Client,
                      NEW i \in DOMAIN chain[r], NEW j \in DOMAIN chain[r], i # j
               PROVE  chain[r][i].node # chain[r][j].node
    BY DEF NoForwardingLoop
  <2>1. chain[r] \in Seq(Handler) /\ TypeOK
    BY <1>1 DEF ForwardInv, TypeInv, TypeOK
  <2>2. i < j \/ j < i
    BY <2>1
  <2>3. Distance(r, i) \in Nat /\ Distance(r, j) \in Nat
    BY <2>1, DistanceNat
  <2>4. Distance(r, i) # Distance(r, j)
    BY <1>1, <2>2, <2>3 DEF ForwardInv, ForwardingDescends
  <2>5. chain[r][i].req = chain[r][j].req
    BY ZenonT(60), <1>1 DEF ForwardInv, OneRequest
  <2>6. QED
    BY <2>4, <2>5 DEF Distance
<1>2. QED
  BY <1>1, ForwardInvAlways, PTL

(* And no coroutines wait for each other in a circle, within a node's wait *)
(* group or across nodes (coordinator.cpp 58-79, wait_group.cpp 5-37).     *)
THEOREM NoDeadlock ==
    ASSUME DistinctTokens
    PROVE  Spec => []NoCircularWait
<1>1. ASSUME ForwardInv PROVE NoCircularWait
  <2> SUFFICES ASSUME NEW r \in Client, NEW s \in Client,
                      NEW i \in DOMAIN chain[r], NEW j \in DOMAIN chain[s],
                      WaitsFor(r, i, s, j)
               PROVE  Rank(s, j) < Rank(r, i)
    BY DEF NoCircularWait
  <2>1. TypeOK /\ chain[r] \in Seq(Handler)
    BY <1>1 DEF ForwardInv, TypeInv, TypeOK
  <2>2. Distance(r, i) \in Nat /\ Distance(s, j) \in Nat
    BY <2>1, DistanceNat
  <2>3. CASE Proxying(r, i) /\ s = r /\ j = i + 1
    <3>1. i < j
      BY SMTT(30), <2>1, <2>3
    <3>2. Distance(s, j) < Distance(r, i)
      BY ZenonT(60), <1>1, <2>3, <3>1 DEF ForwardInv, ForwardingDescends
    <3>3. Rank(s, j) <= 2 * Distance(s, j) + 1 /\ Rank(r, i) >= 2 * Distance(r, i)
      BY <2>2 DEF Rank
    <3>4. Rank(s, j) \in Nat /\ Rank(r, i) \in Nat
      BY SMTT(30), <2>2 DEF Rank
    <3>5. QED
      BY SMTT(30), <2>2, <3>2, <3>3, <3>4
  <2>4. CASE /\ chain[r][i].pc = "wait" /\ chain[s][j].pc = "fetch"
             /\ chain[s][j].node = chain[r][i].node
             /\ chain[s][j].req.key = chain[r][i].req.key
    <3>1. Distance(s, j) = Distance(r, i)
      BY <2>4 DEF Distance
    <3>2. QED
      BY SMTT(30), <2>2, <2>4, <3>1 DEF Rank
  <2>5. QED
    BY <2>3, <2>4 DEF WaitsFor
<1>2. QED
  BY <1>1, ForwardInvAlways, PTL

-----------------------------------------------------------------------------
(* Request collapsing.  The wait group of a node and the coroutines on it  *)
(* agree: a fetching handler is the one the group knows, the group knows   *)
(* only fetching handlers, and nobody waits for a key that is not in it.   *)
FetchKnown ==
    \A r \in Client : \A i \in DOMAIN chain[r] :
        chain[r][i].pc = "fetch" =>
            pending[chain[r][i].node][chain[r][i].req.key] = <<r, i>>

KnownFetches ==
    \A n \in Node, k \in Key : pending[n][k] # NoFetch =>
        \E s \in Client : \E j \in DOMAIN chain[s] :
            /\ pending[n][k] = <<s, j>>
            /\ chain[s][j].pc = "fetch"
            /\ chain[s][j].node = n /\ chain[s][j].req.key = k

WaitersKnown ==
    \A r \in Client : \A i \in DOMAIN chain[r] :
        chain[r][i].pc = "wait" =>
            pending[chain[r][i].node][chain[r][i].req.key] # NoFetch

FetchInv == TypeInv /\ FetchKnown /\ KnownFetches /\ WaitersKnown

(* The name of a handler is never the mark of no fetch. *)
LEMMA NoFetchIsNone == \A r, i : <<r, i>> # NoFetch
BY ZenonT(60) DEF NoFetch

(* The wait-group invariant implies that fetches collapse. *)
LEMMA FetchInvCollapses == FetchInv => FetchesCollapse
<1> SUFFICES ASSUME FetchInv, NEW r \in Client, NEW i \in DOMAIN chain[r],
                    chain[r][i].pc = "wait"
             PROVE  \E s \in Client : \E j \in DOMAIN chain[s] :
                       /\ WaitsFor(r, i, s, j)
                       /\ pending[chain[r][i].node][chain[r][i].req.key] = <<s, j>>
  BY ZenonT(60) DEF FetchesCollapse, FetchInv, FetchKnown
<1> DEFINE n == chain[r][i].node
           k == chain[r][i].req.key
<1>1. n \in Node /\ k \in Key
  BY SMTT(30), HandlerFields, RequestFields DEF FetchInv, TypeInv, TypeOK
<1>2. pending[n][k] # NoFetch
  BY DEF FetchInv, WaitersKnown
<1>3. \A s \in Client : \A j \in DOMAIN chain[s] :
         (/\ chain[s][j].pc = "fetch"
          /\ chain[s][j].node = n /\ chain[s][j].req.key = k)
         => WaitsFor(r, i, s, j)
  BY DEF WaitsFor
<1> HIDE DEF n, k
<1>4. \E s \in Client : \E j \in DOMAIN chain[s] :
         /\ pending[n][k] = <<s, j>> /\ chain[s][j].pc = "fetch"
         /\ chain[s][j].node = n /\ chain[s][j].req.key = k
  BY <1>1, <1>2 DEF FetchInv, KnownFetches
<1>5. \E s \in Client : \E j \in DOMAIN chain[s] :
         WaitsFor(r, i, s, j) /\ pending[n][k] = <<s, j>>
  BY <1>3, <1>4
<1>6. QED
  BY ZenonT(60), <1>5 DEF n, k

(* What a step that rewrites one handler leaves alone. *)
LEMMA OneHandlerFrame ==
    ASSUME TypeOK, NEW r \in Client, NEW i \in DOMAIN chain[r],
           OneHandlerStep(r, i)
    PROVE  /\ \A s \in Client : DOMAIN chain'[s] = DOMAIN chain[s]
           /\ \A s \in Client : \A j \in DOMAIN chain[s] :
                (s # r \/ j # i) => chain'[s][j] = chain[s][j]
           /\ chain'[r][i].node = chain[r][i].node
           /\ chain'[r][i].req = chain[r][i].req
           /\ chain[r][i].pc \in {"route", "reply"}
<1>1. PICK h \in Handler :
              /\ chain' = [chain EXCEPT ![r][i] = h]
              /\ h.node = chain[r][i].node /\ h.req = chain[r][i].req
              /\ chain[r][i].pc \in {"route", "reply"}
  BY ZenonT(60), OneHandlerEffect
<1>2. chain \in [Client -> Seq(Handler)]
  BY DEF TypeOK
<1>3. QED
  BY ZenonT(60), <1>1, <1>2, ReplaceHandler

(* Where each of them leaves the handler. *)
LEMMA OneHandlerTarget ==
    ASSUME TypeOK, NEW r \in Client, NEW i \in DOMAIN chain[r]
    PROVE  /\ RouteInitiate(r, i) => chain'[r][i].pc = "fetch"
           /\ RouteJoin(r, i) => chain'[r][i].pc = "wait"
           /\ RouteProxy(r, i) => chain'[r][i].pc = "proxy"
           /\ RouteClusterInfo(r, i) \/ RouteLocal(r, i) => chain'[r][i].pc = "reply"
           /\ WriteResponse(r, i) => chain'[r][i].pc = "done"
<1>1. chain \in [Client -> Seq(Handler)] /\ chain[r] \in Seq(Handler) /\ chain[r][i] \in Handler
  BY DEF TypeOK
<1>2. ASSUME NEW pc, RouteRemote(r, i, pc) PROVE chain'[r][i].pc = pc
  <2> DEFINE o == OwnerSeenBy(chain[r][i].node, chain[r][i].req.key)
             h == [chain[r][i] EXCEPT !.pc = pc, !.owner = o]
  <2>1. chain' = [chain EXCEPT ![r][i] = h]
    BY <1>1, <1>2 DEF RouteRemote
  <2> HIDE DEF o
  <2>2. h.pc = pc
    BY <1>1 DEF Handler
  <2> HIDE DEF h
  <2>3. QED BY <1>1, <2>1, <2>2
<1>3. ASSUME NEW x, chain' = [chain EXCEPT ![r][i] = Goto(chain[r][i], "reply", x)]
      PROVE  chain'[r][i].pc = "reply"
  <2>1. Goto(chain[r][i], "reply", x).pc = "reply"
    BY ZenonT(60), <1>1 DEF Goto, Handler
  <2>2. QED BY <1>1, <1>3, <2>1
<1>4. RouteInitiate(r, i) => chain'[r][i].pc = "fetch"
  BY ZenonT(60), <1>2 DEF RouteInitiate
<1>5. RouteJoin(r, i) => chain'[r][i].pc = "wait"
  BY <1>2 DEF RouteJoin
<1>6. RouteProxy(r, i) => chain'[r][i].pc = "proxy"
  BY <1>2 DEF RouteProxy
<1>7. RouteClusterInfo(r, i) => chain'[r][i].pc = "reply"
  BY ZenonT(60), <1>1, <1>3 DEF RouteClusterInfo
<1>8. RouteLocal(r, i) => chain'[r][i].pc = "reply"
  BY ZenonT(60), <1>1, <1>3 DEF RouteLocal
<1>9. ASSUME WriteResponse(r, i) PROVE chain'[r][i].pc = "done"
  <2> DEFINE h == [chain[r][i] EXCEPT !.pc = "done"]
  <2>1. chain' = [chain EXCEPT ![r][i] = h]
    BY <1>1, <1>9 DEF WriteResponse
  <2>2. h.pc = "done"
    BY ZenonT(60), <1>1 DEF Handler
  <2> HIDE DEF h
  <2>3. QED BY <1>1, <2>1, <2>2
<1>10. QED
  BY ZenonT(60), <1>4, <1>5, <1>6, <1>7, <1>8, <1>9

(* A step that starts or ends no fetch and takes no waiter's fetch away. *)
LEMMA QuietStep ==
    ASSUME FetchInv, UNCHANGED pending,
           \A s \in Client : \A j \in DOMAIN chain[s] :
              /\ j \in DOMAIN chain'[s]
              /\ chain[s][j].pc = "fetch" => chain'[s][j] = chain[s][j],
           \A s \in Client : \A j \in DOMAIN chain'[s] :
              \/ j \in DOMAIN chain[s] /\ chain'[s][j] = chain[s][j]
              \/ /\ chain'[s][j].pc # "fetch"
                 /\ chain'[s][j].pc = "wait" =>
                      pending[chain'[s][j].node][chain'[s][j].req.key] # NoFetch
    PROVE  FetchKnown' /\ KnownFetches' /\ WaitersKnown'
<1>1. FetchKnown'
  <2> SUFFICES ASSUME NEW s \in Client, NEW j \in DOMAIN chain'[s],
                      chain'[s][j].pc = "fetch"
               PROVE  pending[chain'[s][j].node][chain'[s][j].req.key] = <<s, j>>
    BY ZenonT(60) DEF FetchKnown
  <2>1. j \in DOMAIN chain[s] /\ chain'[s][j] = chain[s][j]
    BY ZenonT(60)
  <2>2. QED BY ZenonT(60), <2>1 DEF FetchInv, FetchKnown
<1>2. WaitersKnown'
  <2> SUFFICES ASSUME NEW s \in Client, NEW j \in DOMAIN chain'[s],
                      chain'[s][j].pc = "wait"
               PROVE  pending[chain'[s][j].node][chain'[s][j].req.key] # NoFetch
    BY ZenonT(60) DEF WaitersKnown
  <2>1. \/ j \in DOMAIN chain[s] /\ chain'[s][j] = chain[s][j]
        \/ pending[chain'[s][j].node][chain'[s][j].req.key] # NoFetch
    BY ZenonT(60)
  <2>2. WaitersKnown
    BY DEF FetchInv
  <2> QED BY ZenonT(60), <2>1, <2>2 DEF WaitersKnown
<1>3. KnownFetches'
  <2> SUFFICES ASSUME NEW n \in Node, NEW k \in Key, pending[n][k] # NoFetch
               PROVE  \E s \in Client : \E j \in DOMAIN chain'[s] :
                         /\ pending[n][k] = <<s, j>>
                         /\ chain'[s][j].pc = "fetch"
                         /\ chain'[s][j].node = n /\ chain'[s][j].req.key = k
    BY SMTT(30) DEF KnownFetches
  <2>1. PICK s \in Client : \E j \in DOMAIN chain[s] :
           /\ pending[n][k] = <<s, j>> /\ chain[s][j].pc = "fetch"
           /\ chain[s][j].node = n /\ chain[s][j].req.key = k
    BY SMTT(30) DEF FetchInv, KnownFetches
  <2>2. PICK j \in DOMAIN chain[s] :
           /\ pending[n][k] = <<s, j>> /\ chain[s][j].pc = "fetch"
           /\ chain[s][j].node = n /\ chain[s][j].req.key = k
    BY <2>1
  <2>3. QED BY ZenonT(60), <2>2
<1>4. QED
  BY ZenonT(60), <1>1, <1>2, <1>3

(* try_join inserted the key: the initiator becomes the known fetch. *)
LEMMA InitiateCollapses ==
    ASSUME FetchInv, NEW r \in Client, NEW i \in DOMAIN chain[r],
           RouteInitiate(r, i)
    PROVE  FetchKnown' /\ KnownFetches' /\ WaitersKnown'
<1> DEFINE n == chain[r][i].node
           k == chain[r][i].req.key
<1>0. TypeOK /\ chain[r][i] \in Handler
  BY DEF FetchInv, TypeInv, TypeOK
<1>1. n \in Node /\ k \in Key
  BY ZenonT(60), <1>0, HandlerFields, RequestFields
<1>2. /\ pending[n][k] = NoFetch
      /\ pending' = [pending EXCEPT ![n][k] = <<r, i>>]
  BY ZenonT(60) DEF RouteInitiate
<1>3. /\ \A s \in Client : DOMAIN chain'[s] = DOMAIN chain[s]
      /\ \A s \in Client : \A j \in DOMAIN chain[s] :
           (s # r \/ j # i) => chain'[s][j] = chain[s][j]
      /\ chain'[r][i].node = n /\ chain'[r][i].req.key = k
      /\ chain'[r][i].pc = "fetch" /\ chain[r][i].pc \in {"route", "reply"}
  BY SMTT(30), <1>0, OneHandlerFrame, OneHandlerTarget DEF OneHandlerStep
<1>4. /\ pending'[n][k] = <<r, i>>
      /\ \A m \in Node, l \in Key : (m # n \/ l # k) => pending'[m][l] = pending[m][l]
  BY ZenonT(60), <1>0, <1>1, <1>2 DEF TypeOK
<1>5. ASSUME NEW s \in Client, NEW j \in DOMAIN chain[s]
      PROVE  chain[s][j].node \in Node /\ chain[s][j].req.key \in Key
  BY SMTT(30), <1>0, HandlerFields, RequestFields DEF TypeOK
<1> HIDE DEF n, k
<1>6. ASSUME NEW s \in Client, NEW j \in DOMAIN chain[s], s # r \/ j # i,
             chain[s][j].pc \in {"fetch", "wait"}
      PROVE  chain[s][j].node # n \/ chain[s][j].req.key # k
  <2>1. chain[s][j].pc = "fetch" =>
           pending[chain[s][j].node][chain[s][j].req.key] = <<s, j>>
    BY ZenonT(60) DEF FetchInv, FetchKnown
  <2>2. chain[s][j].pc = "wait" =>
           pending[chain[s][j].node][chain[s][j].req.key] # NoFetch
    BY DEF FetchInv, WaitersKnown
  <2>3. <<s, j>> # NoFetch
    BY ZenonT(60), NoFetchIsNone
  <2>4. QED BY ZenonT(60), <1>2, <1>6, <2>1, <2>2, <2>3
<1>7. FetchKnown'
  <2> SUFFICES ASSUME NEW s \in Client, NEW j \in DOMAIN chain[s],
                      chain'[s][j].pc = "fetch"
               PROVE  pending'[chain'[s][j].node][chain'[s][j].req.key] = <<s, j>>
    BY ZenonT(60), <1>3 DEF FetchKnown
  <2>1. CASE s = r /\ j = i
    BY ZenonT(60), <1>3, <1>4, <2>1, NoFetchIsNone
  <2>2. CASE s # r \/ j # i
    <3>1. chain'[s][j] = chain[s][j]
      BY ZenonT(60), <1>3, <2>2
    <3>2. pending'[chain[s][j].node][chain[s][j].req.key]
            = pending[chain[s][j].node][chain[s][j].req.key]
      BY ZenonT(60), <1>4, <1>5, <1>6, <2>2, <3>1
    <3>3. QED BY ZenonT(60), <3>1, <3>2 DEF FetchInv, FetchKnown
  <2>3. QED BY ZenonT(60), <2>1, <2>2
<1>8. WaitersKnown'
  <2> SUFFICES ASSUME NEW s \in Client, NEW j \in DOMAIN chain[s],
                      chain'[s][j].pc = "wait"
               PROVE  pending'[chain'[s][j].node][chain'[s][j].req.key] # NoFetch
    BY ZenonT(60), <1>3 DEF WaitersKnown
  <2>1. CASE s = r /\ j = i
    BY ZenonT(60), <1>3, <1>4, <2>1, NoFetchIsNone
  <2>2. CASE s # r \/ j # i
    <3>1. chain'[s][j] = chain[s][j]
      BY ZenonT(60), <1>3, <2>2
    <3>2. pending'[chain[s][j].node][chain[s][j].req.key]
            = pending[chain[s][j].node][chain[s][j].req.key]
      BY ZenonT(60), <1>4, <1>5, <1>6, <2>2, <3>1
    <3>3. QED BY ZenonT(60), <3>1, <3>2 DEF FetchInv, WaitersKnown
  <2>3. QED BY ZenonT(60), <2>1, <2>2
<1>9. ASSUME NEW m \in Node, NEW l \in Key, pending'[m][l] # NoFetch
      PROVE  \E s \in Client : \E j \in DOMAIN chain'[s] :
                /\ pending'[m][l] = <<s, j>> /\ chain'[s][j].pc = "fetch"
                /\ chain'[s][j].node = m /\ chain'[s][j].req.key = l
  <2>1. CASE m = n /\ l = k
    BY ZenonT(60), <1>3, <1>4, <2>1
  <2>2. CASE m # n \/ l # k
    <3>1. PICK s \in Client : \E j \in DOMAIN chain[s] :
           /\ pending[m][l] = <<s, j>> /\ chain[s][j].pc = "fetch"
           /\ chain[s][j].node = m /\ chain[s][j].req.key = l
      BY SMTT(30), <1>4, <1>9, <2>2 DEF FetchInv, KnownFetches
    <3>2. QED BY SMTT(30), <1>3, <1>4, <2>2, <3>1
  <2>3. QED BY ZenonT(60), <2>1, <2>2
<1>10. KnownFetches'
  BY <1>9 DEF KnownFetches
<1>11. QED
  BY ZenonT(60), <1>7, <1>8, <1>10

(* complete(): the fetch leaves the wait group together with its waiters,  *)
(* and a failed or finished PUT or DEL leaves the group alone.             *)
LEMMA FinishCollapses ==
    ASSUME FetchInv, NEW r \in Client, NEW i \in DOMAIN chain[r],
           NEW resp \in Response, Proxying(r, i), Finish(r, i, resp)
    PROVE  FetchKnown' /\ KnownFetches' /\ WaitersKnown'
<1> DEFINE n == chain[r][i].node
           k == chain[r][i].req.key
<1>0. TypeOK /\ chain \in [Client -> Seq(Handler)] /\ chain[r][i] \in Handler
  BY DEF FetchInv, TypeInv, TypeOK
<1>1. n \in Node /\ k \in Key
  BY ZenonT(60), <1>0, HandlerFields, RequestFields
<1>2. /\ \A s \in Client : DOMAIN chain'[s] = DOMAIN chain[s]
      /\ chain'[r][i] = Goto(chain[r][i], "reply", resp)
  BY <1>0, FinishEffect
<1>3. ASSUME NEW s \in Client, NEW j \in DOMAIN chain[s], s # r \/ j # i
      PROVE  \/ chain'[s][j] = chain[s][j]
             \/ chain[s][j].pc \in {"wait", "reply"}
                /\ chain'[s][j].pc \in {"reply", "done"}
  <2>1. chain[s][j] \in Handler
    BY <1>0
  <2>2. \/ chain'[s][j] = chain[s][j]
        \/ /\ chain[s][j].pc = "wait"
           /\ chain'[s][j] = Goto(chain[s][j], "reply", Shared(resp))
        \/ /\ chain[s][j].pc = "reply"
           /\ chain'[s][j] = [chain[s][j] EXCEPT !.pc = "done"]
    BY <1>0, <1>3, FinishEffect DEF Waiting
  <2>3. \A x : Goto(chain[s][j], "reply", x).pc = "reply"
    BY <2>1 DEF Goto, Handler
  <2>4. [chain[s][j] EXCEPT !.pc = "done"].pc = "done"
    BY <2>1 DEF Handler
  <2>5. QED BY ZenonT(60), <2>2, <2>3, <2>4
<1>4. chain'[r][i].pc = "reply"
  BY ZenonT(60), <1>0, <1>2 DEF Goto, Handler
<1>5. CASE chain[r][i].pc # "fetch"
  <2>1. UNCHANGED pending
    BY <1>5 DEF Finish
  <2>2. ASSUME NEW s \in Client, NEW j \in DOMAIN chain[s]
        PROVE  \/ chain'[s][j] = chain[s][j]
               \/ chain[s][j].pc # "fetch" /\ chain'[s][j].pc \in {"reply", "done"}
    BY <1>3, <1>4, <1>5
  <2>3. QED
    BY ZenonT(60), <1>2, <2>1, <2>2, QuietStep
<1>6. CASE chain[r][i].pc = "fetch"
  <2>1. pending' = [pending EXCEPT ![n][k] = NoFetch]
    BY ZenonT(60), <1>6 DEF Finish
  <2>2. /\ pending'[n][k] = NoFetch
        /\ \A m \in Node, l \in Key : (m # n \/ l # k) => pending'[m][l] = pending[m][l]
    BY ZenonT(60), <1>0, <1>1, <2>1 DEF TypeOK
  <2>3. pending[n][k] = <<r, i>>
    BY ZenonT(60), <1>6 DEF FetchInv, FetchKnown
  <2>4. ASSUME NEW s \in Client, NEW j \in DOMAIN chain[s],
               chain'[s][j].pc \in {"fetch", "wait"}
        PROVE  /\ chain'[s][j] = chain[s][j]
               /\ chain[s][j].node \in Node /\ chain[s][j].req.key \in Key
               /\ chain[s][j].node # n \/ chain[s][j].req.key # k
    <3>1. s # r \/ j # i
      BY ZenonT(60), <1>4, <2>4
    <3>2. chain'[s][j] = chain[s][j] /\ chain[s][j] \in Handler
      <4>1. chain[s][j] \in Handler
        BY SMTT(30), <1>0, <2>4 DEF TypeOK
      <4>2. QED BY ZenonT(60), <1>3, <2>4, <3>1, <4>1
    <3>3. CASE chain[s][j].pc = "fetch"
      <4>1. pending[chain[s][j].node][chain[s][j].req.key] = <<s, j>>
        BY ZenonT(60), <3>3 DEF FetchInv, FetchKnown
      <4>2. <<s, j>> # <<r, i>>
        BY ZenonT(60), <3>1
      <4>3. chain[s][j].node # n \/ chain[s][j].req.key # k
        BY ZenonT(60), <2>3, <4>1, <4>2
      <4>4. QED
        BY <3>2, <4>3, HandlerFields, RequestFields
    <3>4. CASE chain[s][j].pc = "wait"
      <4>1. Waiting(s, j, n, k) => chain'[s][j] = Goto(chain[s][j], "reply", Shared(resp))
        BY SMTT(30), <1>0, <1>6, <3>1, FinishEffect
      <4>2. Goto(chain[s][j], "reply", Shared(resp)).pc = "reply"
        BY ZenonT(60), <3>2 DEF Goto, Handler
      <4>3. ~Waiting(s, j, n, k)
        BY ZenonT(60), <2>4, <4>1, <4>2
      <4>4. QED
        BY ZenonT(60), <3>2, <3>4, <4>3, HandlerFields, RequestFields DEF Waiting
    <3>5. QED BY ZenonT(60), <2>4, <3>2, <3>3, <3>4
  <2> HIDE DEF n, k
  <2>5. FetchKnown'
    <3> SUFFICES ASSUME NEW s \in Client, NEW j \in DOMAIN chain[s],
                        chain'[s][j].pc = "fetch"
                 PROVE  pending'[chain'[s][j].node][chain'[s][j].req.key] = <<s, j>>
      BY ZenonT(60), <1>2 DEF FetchKnown
    <3>1. pending'[chain[s][j].node][chain[s][j].req.key]
            = pending[chain[s][j].node][chain[s][j].req.key]
      BY ZenonT(60), <2>2, <2>4
    <3>2. QED BY ZenonT(60), <2>4, <3>1 DEF FetchInv, FetchKnown
  <2>6. WaitersKnown'
    <3> SUFFICES ASSUME NEW s \in Client, NEW j \in DOMAIN chain[s],
                        chain'[s][j].pc = "wait"
                 PROVE  pending'[chain'[s][j].node][chain'[s][j].req.key] # NoFetch
      BY Zenon, <1>2 DEF WaitersKnown
    <3>1. pending'[chain[s][j].node][chain[s][j].req.key]
            = pending[chain[s][j].node][chain[s][j].req.key]
      BY ZenonT(60), <2>2, <2>4
    <3>2. QED BY ZenonT(60), <2>4, <3>1 DEF FetchInv, WaitersKnown
  <2>7. ASSUME NEW m \in Node, NEW l \in Key, pending'[m][l] # NoFetch
        PROVE  \E s \in Client : \E j \in DOMAIN chain'[s] :
                  /\ pending'[m][l] = <<s, j>> /\ chain'[s][j].pc = "fetch"
                  /\ chain'[s][j].node = m /\ chain'[s][j].req.key = l
    <3>1. (m # n \/ l # k) /\ pending'[m][l] = pending[m][l]
      BY ZenonT(60), <2>2, <2>7
    <3>2. PICK s \in Client : \E j \in DOMAIN chain[s] :
           /\ pending[m][l] = <<s, j>> /\ chain[s][j].pc = "fetch"
           /\ chain[s][j].node = m /\ chain[s][j].req.key = l
      BY SMTT(30), <2>7, <3>1 DEF FetchInv, KnownFetches
    <3>6. PICK j \in DOMAIN chain[s] :
           /\ pending[m][l] = <<s, j>> /\ chain[s][j].pc = "fetch"
           /\ chain[s][j].node = m /\ chain[s][j].req.key = l
      BY ZenonT(60), <3>2
    <3>3. s # r \/ j # i
      BY ZenonT(60), <3>1, <3>6 DEF n, k
    <3>4. chain'[s][j] = chain[s][j]
      BY ZenonT(60), <1>3, <3>6, <3>3
    <3>5. QED BY ZenonT(60), <1>2, <3>1, <3>6, <3>4
  <2>8. KnownFetches'
    BY <2>7 DEF KnownFetches
  <2>9. QED BY ZenonT(60), <2>5, <2>6, <2>8
<1>7. QED
  BY <1>5, <1>6

(* A restart takes a node's wait group and its coroutines down together. *)
LEMMA RestartCollapses ==
    ASSUME FetchInv, NEW n \in Node, Restart(n)
    PROVE  FetchKnown' /\ KnownFetches' /\ WaitersKnown'
<1>0. TypeOK /\ chain \in [Client -> Seq(Handler)]
  BY DEF FetchInv, TypeInv, TypeOK
<1>1. /\ \A k \in Key : pending'[n][k] = NoFetch
      /\ \A m \in Node, k \in Key : m # n => pending'[m][k] = pending[m][k]
  BY <1>0 DEF Restart, TypeOK
<1>2. \A s \in Client : DOMAIN chain'[s] = DOMAIN chain[s]
  BY DEF Restart
<1>3. ASSUME NEW s \in Client, NEW j \in DOMAIN chain[s]
      PROVE  /\ chain[s][j].node # n => chain'[s][j] = chain[s][j]
             /\ chain[s][j].node = n => chain'[s][j].pc \in {"done", "dead"}
  <2>1. chain[s][j] \in Handler
    BY <1>0
  <2>2. chain'[s][j] = IF chain[s][j].node = n /\ chain[s][j].pc # "done"
                       THEN [chain[s][j] EXCEPT !.pc = "dead"]
                       ELSE chain[s][j]
    BY DEF Restart
  <2>3. [chain[s][j] EXCEPT !.pc = "dead"].pc = "dead"
    BY ZenonT(60), <2>1 DEF Handler
  <2>4. QED BY <2>2, <2>3
<1>4. ASSUME NEW s \in Client, NEW j \in DOMAIN chain[s],
             chain'[s][j].pc \in {"fetch", "wait"}
      PROVE  /\ chain'[s][j] = chain[s][j]
             /\ pending'[chain[s][j].node][chain[s][j].req.key]
                  = pending[chain[s][j].node][chain[s][j].req.key]
  <2>1. chain[s][j].node # n /\ chain'[s][j] = chain[s][j]
    BY ZenonT(60), <1>3, <1>4
  <2>2. chain[s][j].node \in Node /\ chain[s][j].req.key \in Key
    BY SMTT(30), <1>0, HandlerFields, RequestFields
  <2>3. QED BY ZenonT(60), <1>1, <2>1, <2>2
<1>5. FetchKnown'
  <2> SUFFICES ASSUME NEW s \in Client, NEW j \in DOMAIN chain[s],
                      chain'[s][j].pc = "fetch"
               PROVE  pending'[chain'[s][j].node][chain'[s][j].req.key] = <<s, j>>
    BY ZenonT(60), <1>2 DEF FetchKnown
  <2>1. /\ chain'[s][j] = chain[s][j]
        /\ pending'[chain[s][j].node][chain[s][j].req.key]
             = pending[chain[s][j].node][chain[s][j].req.key]
    BY ZenonT(60), <1>4
  <2>2. pending[chain[s][j].node][chain[s][j].req.key] = <<s, j>>
    BY ZenonT(60), <2>1 DEF FetchInv, FetchKnown
  <2>3. QED BY ZenonT(60), <2>1, <2>2
<1>6. WaitersKnown'
  <2> SUFFICES ASSUME NEW s \in Client, NEW j \in DOMAIN chain[s],
                      chain'[s][j].pc = "wait"
               PROVE  pending'[chain'[s][j].node][chain'[s][j].req.key] # NoFetch
    BY ZenonT(60), <1>2 DEF WaitersKnown
  <2>1. /\ chain'[s][j] = chain[s][j]
        /\ pending'[chain[s][j].node][chain[s][j].req.key]
             = pending[chain[s][j].node][chain[s][j].req.key]
    BY ZenonT(60), <1>4
  <2>2. pending[chain[s][j].node][chain[s][j].req.key] # NoFetch
    BY ZenonT(60), <2>1 DEF FetchInv, WaitersKnown
  <2>3. QED BY ZenonT(60), <2>1, <2>2
<1>7. ASSUME NEW m \in Node, NEW l \in Key, pending'[m][l] # NoFetch
      PROVE  \E s \in Client : \E j \in DOMAIN chain'[s] :
                /\ pending'[m][l] = <<s, j>> /\ chain'[s][j].pc = "fetch"
                /\ chain'[s][j].node = m /\ chain'[s][j].req.key = l
  <2>1. m # n /\ pending'[m][l] = pending[m][l]
    BY ZenonT(60), <1>1, <1>7
  <2>2. PICK s \in Client : \E j \in DOMAIN chain[s] :
           /\ pending[m][l] = <<s, j>> /\ chain[s][j].pc = "fetch"
           /\ chain[s][j].node = m /\ chain[s][j].req.key = l
    BY SMTT(30), <1>7, <2>1 DEF FetchInv, KnownFetches
  <2>3. PICK j \in DOMAIN chain[s] :
           /\ pending[m][l] = <<s, j>> /\ chain[s][j].pc = "fetch"
           /\ chain[s][j].node = m /\ chain[s][j].req.key = l
    BY ZenonT(60), <2>2
  <2>4. chain'[s][j] = chain[s][j]
    BY ZenonT(60), <1>3, <2>1, <2>3
  <2>5. QED BY ZenonT(60), <1>2, <2>1, <2>3, <2>4
<1>8. KnownFetches'
  BY SMTT(30), <1>7 DEF KnownFetches
<1>9. QED
  BY ZenonT(60), <1>5, <1>6, <1>8

(* Accept and Send only start handlers, which have not been routed. *)
LEMMA StartCollapses ==
    ASSUME FetchInv, ChainsGrow, UNCHANGED pending,
           \A s \in Client : \A j \in DOMAIN chain[s] : chain'[s][j] = chain[s][j]
    PROVE  FetchKnown' /\ KnownFetches' /\ WaitersKnown'
<1>1. \A s \in Client : \A j \in DOMAIN chain'[s] :
         j \in DOMAIN chain[s] \/ chain'[s][j].pc = "route"
  BY DEF ChainsGrow, Started
<1>2. \A s \in Client : \A j \in DOMAIN chain[s] : j \in DOMAIN chain'[s]
  BY DEF ChainsGrow
<1>3. QED
  BY ZenonT(60), <1>1, <1>2, QuietStep

(* Every step of a handler keeps the wait-group invariant. *)
LEMMA HandlerStepCollapses ==
    ASSUME FetchInv, ChainsGrow, NEW r \in Client, NEW i \in DOMAIN chain[r],
           HandlerStep(r, i)
    PROVE  FetchKnown' /\ KnownFetches' /\ WaitersKnown'
<1>0. TypeOK /\ chain \in [Client -> Seq(Handler)]
  BY DEF FetchInv, TypeInv, TypeOK
<1>1. CASE RouteInitiate(r, i)
  BY ZenonT(60), <1>1, InitiateCollapses
<1>2. ASSUME OneHandlerStep(r, i), UNCHANGED pending,
             chain'[r][i].pc # "fetch",
             chain'[r][i].pc = "wait" =>
                pending[chain[r][i].node][chain[r][i].req.key] # NoFetch
      PROVE  FetchKnown' /\ KnownFetches' /\ WaitersKnown'
  <2>1. /\ \A s \in Client : DOMAIN chain'[s] = DOMAIN chain[s]
        /\ \A s \in Client : \A j \in DOMAIN chain[s] :
             (s # r \/ j # i) => chain'[s][j] = chain[s][j]
        /\ chain'[r][i].node = chain[r][i].node
        /\ chain'[r][i].req = chain[r][i].req
        /\ chain[r][i].pc # "fetch"
    BY ZenonT(60), <1>0, <1>2, OneHandlerFrame
  <2>2. ASSUME NEW s \in Client, NEW j \in DOMAIN chain[s]
        PROVE  chain[s][j].pc = "fetch" => chain'[s][j] = chain[s][j]
    BY ZenonT(60), <2>1
  <2>3. ASSUME NEW s \in Client, NEW j \in DOMAIN chain'[s]
        PROVE  \/ j \in DOMAIN chain[s] /\ chain'[s][j] = chain[s][j]
               \/ /\ chain'[s][j].pc # "fetch"
                  /\ chain'[s][j].pc = "wait" =>
                       pending[chain'[s][j].node][chain'[s][j].req.key] # NoFetch
    BY ZenonT(60), <1>2, <2>1
  <2>4. QED
    BY ZenonT(60), <1>2, <2>1, <2>2, <2>3, QuietStep
<1>3. CASE RouteJoin(r, i)
  <2>1. chain'[r][i].pc = "wait"
    BY ZenonT(60), <1>0, <1>3, OneHandlerTarget
  <2>2. QED
    BY ZenonT(60), <1>2, <1>3, <2>1 DEF OneHandlerStep, RouteJoin
<1>4. CASE \/ RouteProxy(r, i) \/ RouteClusterInfo(r, i) \/ RouteLocal(r, i)
           \/ WriteResponse(r, i)
  <2>1. chain'[r][i].pc \in {"proxy", "reply", "done"}
    BY ZenonT(60), <1>0, <1>4, OneHandlerTarget
  <2>2. UNCHANGED pending
    BY <1>4 DEF RouteProxy, RouteClusterInfo, RouteLocal, WriteResponse
  <2>3. QED
    BY ZenonT(60), <1>2, <1>4, <2>1, <2>2 DEF OneHandlerStep
<1>5. CASE Send(r, i)
  <2>1. UNCHANGED pending
    BY ZenonT(60), <1>5 DEF Send
  <2>2. ASSUME NEW s \in Client, NEW j \in DOMAIN chain[s]
        PROVE  chain'[s][j] = chain[s][j]
    <3> DEFINE h == NewHandler(chain[r][i].owner, chain[r][i].req)
    <3>1. chain' = [chain EXCEPT ![r] = Append(chain[r], h)]
      BY <1>0, <1>5 DEF Send
    <3> HIDE DEF h
    <3>2. chain[r] \in Seq(Handler)
      BY <1>0
    <3>3. \A l \in DOMAIN chain[r] : Append(chain[r], h)[l] = chain[r][l]
      BY SMTT(30), <3>2
    <3>4. QED BY ZenonT(60), <1>0, <3>1, <3>3
  <2>3. QED
    BY ZenonT(60), <2>1, <2>2, StartCollapses
<1>6. CASE Return(r, i)
  <2>1. chain[r][i + 1] \in Handler
    BY SMTT(30), <1>0, <1>6 DEF Return
  <2>2. chain[r][i + 1].resp \in Response
    BY ZenonT(60), <2>1, HandlerFields
  <2>3. QED
    BY ZenonT(60), <1>6, <2>2, FinishCollapses DEF Return
<1>7. QED
  BY ZenonT(60), <1>1, <1>3, <1>4, <1>5, <1>6 DEF HandlerStep

(* Every step of the cluster keeps the wait-group invariant. *)
LEMMA FetchInvNext == FetchInv /\ [Next]_vars => FetchInv'
<1> SUFFICES ASSUME FetchInv, [Next]_vars PROVE FetchInv'
  OBVIOUS
<1>1. TypeInv /\ TypeInv' /\ ChainsGrow
  BY TypeInvNext, StepEffect DEF FetchInv
<1> SUFFICES FetchKnown' /\ KnownFetches' /\ WaitersKnown'
  BY ZenonT(60), <1>1 DEF FetchInv
<1>2. CASE UNCHANGED <<chain, pending>>
  BY ZenonT(60), <1>1, <1>2, QuietStep
<1>3. ASSUME NEW r \in Client, NEW n \in Node, NEW q \in Workload, Accept(r, n, q)
      PROVE  FetchKnown' /\ KnownFetches' /\ WaitersKnown'
  <2>1. chain \in [Client -> Seq(Handler)]
    BY <1>1 DEF TypeInv, TypeOK
  <2>2. chain[r] = << >> /\ chain' = [chain EXCEPT ![r] = <<NewHandler(n, q)>>]
        /\ UNCHANGED pending
    BY <1>3 DEF Accept
  <2>3. \A s \in Client : \A j \in DOMAIN chain[s] : chain'[s][j] = chain[s][j]
    BY <2>1, <2>2
  <2>4. QED
    BY ZenonT(60), <1>1, <2>2, <2>3, StartCollapses
<1>4. ASSUME NEW r \in Client, NEW i \in DOMAIN chain[r], HandlerStep(r, i)
      PROVE  FetchKnown' /\ KnownFetches' /\ WaitersKnown'
  BY ZenonT(60), <1>1, <1>4, HandlerStepCollapses
<1>5. ASSUME NEW r \in Client, NEW i \in DOMAIN chain[r], Fail(r, i)
      PROVE  FetchKnown' /\ KnownFetches' /\ WaitersKnown'
  <2>1. Reply("Error") \in Response
    BY DEF Reply, Response, Status
  <2>2. QED
    BY ZenonT(60), <1>5, <2>1, FinishCollapses DEF Fail
<1>6. ASSUME NEW n \in Unstable, Restart(n)
      PROVE  FetchKnown' /\ KnownFetches' /\ WaitersKnown'
  BY ZenonT(60), <1>6, UnstableAssumption, RestartCollapses
<1>7. RingChange => UNCHANGED <<chain, pending>>
  BY DEF RingChange, RingAdd, RingRemove
<1>8. QED
  BY ZenonT(60), <1>2, <1>3, <1>4, <1>5, <1>6, <1>7
     DEF Next, Arrival, Progress, Failure, vars

(* At most one fetch of a key per node, and no GET is ever left behind in  *)
(* the wait group, on every cluster and whatever fails (wait_group.cpp     *)
(* 5-37, coordinator.cpp 58-76).  No assumption on the tokens is needed.   *)
THEOREM Collapses == Spec => []FetchesCollapse
<1>1. Init => FetchInv
  <2> SUFFICES ASSUME Init PROVE FetchInv
    OBVIOUS
  <2>1. \A r \in Client : DOMAIN chain[r] = {}
    BY DEF Init, NoTraffic
  <2>2. \A n \in Node, k \in Key : pending[n][k] = NoFetch
    BY DEF Init, NoTraffic
  <2>3. QED
    BY ZenonT(60), <2>1, <2>2, TypeInvInit DEF FetchInv, FetchKnown, KnownFetches, WaitersKnown
<1>2. QED
  BY <1>1, FetchInvNext, FetchInvCollapses, PTL DEF Spec
=============================================================================
