-------------------------- MODULE PeerClientProofs --------------------------
(***************************************************************************)
(* Connections and registered buffers have one owner in PeerClient.tla,    *)
(* for any number of peers, calls, sockets and buffers.  The invariant is  *)
(* the two properties with the types (Inv).  A step, apart from all it     *)
(* does to the messages on a connection, moves nothing, or one connection, *)
(* or one buffer, or both of the same call; each move preserves each part. *)
(***************************************************************************)
EXTENDS PeerStreamProofs, FiniteSetTheorems

-----------------------------------------------------------------------------
(* Pools and the free list as sets of what they hold *)

(* Taking the last one. *)
LEMMA FrontOf ==
    ASSUME NEW S, NEW s \in Seq(S), s # << >>, IsInjective(s)
    PROVE  /\ SubSeq(s, 1, Len(s) - 1) \in Seq(S)
           /\ s[Len(s)] \in S /\ s[Len(s)] \in Range(s)
           /\ Range(SubSeq(s, 1, Len(s) - 1)) = Range(s) \ {s[Len(s)]}
           /\ IsInjective(SubSeq(s, 1, Len(s) - 1))
<1> DEFINE t == SubSeq(s, 1, Len(s) - 1)
           e == s[Len(s)]
<1>1. /\ Len(s) \in Nat /\ DOMAIN s = 1 .. Len(s) /\ Len(s) > 0
      /\ Len(s) \in DOMAIN s /\ e \in S
  OBVIOUS
<1>2. t \in Seq(S) /\ Len(t) = Len(s) - 1 /\ \A i \in 1 .. Len(s) - 1 : t[i] = s[i]
  BY <1>1
<1> HIDE DEF t
<1>3. DOMAIN t = 1 .. Len(s) - 1
  BY <1>2
<1>4. \A i, j \in DOMAIN s : s[i] = s[j] => i = j
  BY DEF IsInjective
<1>5. \A i \in DOMAIN t : i \in DOMAIN s /\ i # Len(s) /\ t[i] = s[i]
  BY <1>1, <1>2, <1>3
<1>6. \A i \in DOMAIN s : i # Len(s) => i \in DOMAIN t
  BY <1>1, <1>3
<1>7. IsInjective(t)
  BY <1>4, <1>5, ZenonT(60) DEF IsInjective
<1>8. Range(t) = Range(s) \ {e}
  <2>1. ASSUME NEW x \in Range(t) PROVE x \in Range(s) \ {e}
    <3>1. PICK i \in DOMAIN t : x = t[i]
      BY DEF Range
    <3> QED
      BY <3>1, <1>1, <1>4, <1>5 DEF Range
  <2>2. ASSUME NEW x \in Range(s) \ {e} PROVE x \in Range(t)
    <3>1. PICK i \in DOMAIN s : x = s[i]
      BY DEF Range
    <3> QED
      BY <3>1, <1>1, <1>5, <1>6 DEF Range
  <2> QED
    BY <2>1, <2>2
<1>9. e \in Range(s)
  BY <1>1 DEF Range
<1> QED
  BY <1>1, <1>2, <1>7, <1>8, <1>9 DEF t

(* Adding one that is not there. *)
LEMMA AppendOf ==
    ASSUME NEW S, NEW s \in Seq(S), NEW x \in S, x \notin Range(s), IsInjective(s)
    PROVE  /\ Range(Append(s, x)) = Range(s) \cup {x}
           /\ IsInjective(Append(s, x))
BY Appended DEF Range, IsInjective

-----------------------------------------------------------------------------
(* What steps do to connections and buffers *)

(* The calls other than c keep what they hold. *)
OthersKeep(c) ==
    /\ DOMAIN call' = Call
    /\ \A d \in Call : CallFields \subseteq DOMAIN call'[d]
    /\ \A d \in Call \ {c} :
         /\ call'[d].fd = call[d].fd /\ call'[d].peer = call[d].peer
         /\ call'[d].buffer = call[d].buffer /\ call'[d].pc = call[d].pc

(* The connections stay what they are, but for what is under way on them. *)
SameConns ==
    /\ DOMAIN conn' = DOMAIN conn
    /\ \A f \in DOMAIN conn :
         "peer" \in DOMAIN conn'[f] /\ conn'[f].peer = conn[f].peer

KeepsFd(c) == call'[c].fd = call[c].fd /\ call'[c].peer = call[c].peer

NowIdle(c) ==
    call'[c].pc = "idle" /\ call'[c].fd = NoFd /\ call'[c].buffer = NoBuffer

(* What a step does to connections and buffers: it moves none, or one.     *)

StaysIdle(c) == call'[c].pc = "idle" <=> call[c].pc = "idle"

Nothing ==
    /\ SameConns /\ UNCHANGED <<pool, free>>
    /\ DOMAIN call' = Call
    /\ \A d \in Call :
         /\ CallFields \subseteq DOMAIN call'[d]
         /\ KeepsFd(d) /\ StaysIdle(d) /\ call'[d].buffer = call[d].buffer
         /\ call[d].pc = "value" => call'[d].pc = "value"

Begun(c, p, f) ==
    /\ OthersKeep(c) /\ UNCHANGED free
    /\ call[c].pc = "idle"
    /\ call'[c].pc # "idle" /\ call'[c].fd = f /\ call'[c].peer = p
    /\ call'[c].buffer = NoBuffer

FromPool(c, p) ==
    /\ Begun(c, p, Head(pool[p])) /\ SameConns
    /\ pool[p] # << >> /\ pool' = [pool EXCEPT ![p] = Tail(@)]

Fresh(c, p, f) ==
    /\ Begun(c, p, f) /\ pool[p] = << >> /\ UNCHANGED pool
    /\ f \in Socket \ DOMAIN conn /\ DOMAIN conn' = DOMAIN conn \cup {f}
    /\ \A g \in DOMAIN conn' :
         /\ "peer" \in DOMAIN conn'[g]
         /\ conn'[g].peer = IF g = f THEN p ELSE conn[g].peer

Shut(c) ==
    /\ OthersKeep(c) /\ NowIdle(c) /\ UNCHANGED <<pool, free>>
    /\ call[c].pc \in {"connect", "close", "broken"}
    /\ DOMAIN conn' = DOMAIN conn \ {call[c].fd}
    /\ \A g \in DOMAIN conn' : conn'[g] = conn[g]

BufferBack(c) ==
    /\ free' = Released(call[c].buffer) /\ call'[c].buffer = NoBuffer

Back(c) ==
    /\ OthersKeep(c) /\ NowIdle(c) /\ BufferBack(c) /\ SameConns
    /\ call[c].pc \in {"header", "value"}
    /\ pool' = [pool EXCEPT ![call[c].peer] = Append(@, call[c].fd)]

GivesUp(c) ==
    /\ OthersKeep(c) /\ KeepsFd(c) /\ BufferBack(c) /\ SameConns /\ UNCHANGED pool
    /\ call[c].pc # "idle" /\ call'[c].pc # "idle"

TakesBuffer(c) ==
    /\ OthersKeep(c) /\ KeepsFd(c) /\ SameConns /\ UNCHANGED pool
    /\ call[c].pc = "header" /\ call'[c].pc = "value"
    /\ \/ call'[c].buffer = NoBuffer /\ UNCHANGED free
       \/ /\ free # << >>
          /\ call'[c].buffer = free[Len(free)] /\ free' = SubSeq(free, 1, Len(free) - 1)

OfCall(c) == Shut(c) \/ Back(c) \/ GivesUp(c) \/ TakesBuffer(c)

OfPeer(c, p) == FromPool(c, p) \/ \E f \in Socket : Fresh(c, p, f)

Moves ==
    \/ Nothing
    \/ \E c \in Call : OfCall(c) \/ \E p \in Peer : OfPeer(c, p)

(* A call begins on the descriptor f. *)
LEMMA BeginsMoves ==
    ASSUME TypeInv, NEW c \in Call, NEW p \in Peer, NEW r \in Request,
           NEW f, NEW pc, pc # "idle", Begins(c, p, r, f, pc), UNCHANGED free
    PROVE  Begun(c, p, f)
BY DEF Begins, Begun, OthersKeep, TypeInv, CallFields, Idle

(* Every action moves what its code hands over, and no more: first acquire. *)
LEMMA AcquireMoves ==
    ASSUME TypeInv, NEW c \in Call, NEW p \in Peer, NEW r \in Request,
           AcquirePooled(c, p, r) \/ OpenConnection(c, p, r)
    PROVE  OfPeer(c, p)
<1>1. ASSUME AcquirePooled(c, p, r) PROVE OfPeer(c, p)
  <2>1. Begun(c, p, Head(pool[p]))
    BY <1>1, BeginsMoves DEF AcquirePooled
  <2>2. SameConns
    BY <1>1 DEF AcquirePooled, SameConns, TypeInv
  <2> QED
    BY <1>1, <2>1, <2>2 DEF AcquirePooled, OfPeer, FromPool
<1>2. ASSUME OpenConnection(c, p, r) PROVE OfPeer(c, p)
  <2>1. PICK f \in Socket \ DOMAIN conn :
          /\ Begins(c, p, r, f, "connect")
          /\ conn' = [g \in DOMAIN conn \cup {f} |->
                        IF g = f THEN Opened(p) ELSE conn[g]]
    BY <1>2 DEF OpenConnection
  <2>2. pool[p] = << >> /\ UNCHANGED <<pool, free>>
    BY <1>2 DEF OpenConnection
  <2>3. Begun(c, p, f)
    BY <2>1, <2>2, BeginsMoves
  <2>4. /\ DOMAIN conn' = DOMAIN conn \cup {f}
        /\ \A g \in DOMAIN conn' :
             /\ "peer" \in DOMAIN conn'[g]
             /\ conn'[g].peer = IF g = f THEN p ELSE conn[g].peer
    BY <2>1 DEF TypeInv, Opened
  <2> QED
    BY Zenon, <2>1, <2>2, <2>3, <2>4 DEF OfPeer, Fresh
<1> QED
  BY <1>1, <1>2

(* connect() succeeds. *)
LEMMA ConnectedMoves ==
    ASSUME TypeInv, NEW c \in Call, Connected(c)
    PROVE  Nothing
<1>1. SameConns
  BY DEF Connected, SameConns, TypeInv
<1> QED
  BY <1>1 DEF Connected, Nothing, TypeInv, CallFields, KeepsFd, StaysIdle

(* A piece of the request is written. *)
LEMMA WriteMoves ==
    ASSUME TypeInv, NEW c \in Call, Write(c)
    PROVE  Nothing
<1> DEFINE f == call[c].fd
<1>1. PICK n \in 1 .. Len(call[c].todo) :
        /\ call' = [call EXCEPT ![c].todo = SubSeq(@, n + 1, Len(@)),
                      ![c].pc = IF n = Len(call[c].todo) THEN "header" ELSE @]
        /\ conn' = IF conn[f].alive
                   THEN [conn EXCEPT ![f].out = @ \o SubSeq(call[c].todo, 1, n)]
                   ELSE conn
  BY Zenon DEF Write
<1>2. call[c].pc = "write" /\ UNCHANGED <<pool, free>>
  BY DEF Write
<1>3. \/ conn' = [conn EXCEPT ![f].out = @ \o SubSeq(call[c].todo, 1, n)]
      \/ conn' = conn
  BY <1>1
<1>4. SameConns
  BY Zenon, <1>3 DEF SameConns, TypeInv
<1>5. ASSUME NEW x, NEW y, y # "idle",
             call' = [call EXCEPT ![c].todo = x, ![c].pc = y]
      PROVE  Nothing
  BY <1>2, <1>4, <1>5 DEF Nothing, TypeInv, CallFields, KeepsFd, StaysIdle
<1>6. (IF n = Len(call[c].todo) THEN "header" ELSE call[c].pc) # "idle"
  BY <1>2
<1> QED
  BY <1>1, <1>5, <1>6, Zenon

(* The connection is refused, or closed after an error. *)
LEMMA ClosedMoves ==
    ASSUME TypeInv, NEW c \in Call, ConnectRefused(c) \/ Close(c)
    PROVE  Shut(c)
BY DEF ConnectRefused, Close, Closed, Shut, OthersKeep, NowIdle, TypeInv, CallFields, Idle

(* A read or write fails. *)
LEMMA BreakMoves ==
    ASSUME TypeInv, NEW c \in Call, Break(c)
    PROVE  GivesUp(c)
<1>1. SameConns
  BY DEF Break, SameConns, TypeInv
<1>2. OthersKeep(c) /\ KeepsFd(c) /\ call'[c].buffer = NoBuffer /\ call'[c].pc = "broken"
  BY DEF Break, OthersKeep, KeepsFd, TypeInv, CallFields
<1> QED
  BY <1>1, <1>2 DEF Break, GivesUp, BufferBack

(* A piece of the response is read, the last one included. *)
LEMMA ReadMoves ==
    ASSUME TypeInv, NEW c \in Call, Read(c)
    PROVE  Nothing \/ OfCall(c)
<1> DEFINE f == call[c].fd
<1>1. PICK n \in 1 .. Len(conn[f].in) :
        /\ conn' = [conn EXCEPT ![f].in = SubSeq(@, n + 1, Len(@))]
        /\ LET got == call[c].got \o SubSeq(conn[f].in, 1, n)
           IN  IF n < Wanted(c)
               THEN /\ call' = [call EXCEPT ![c].got = got]
                    /\ UNCHANGED <<pool, free>>
               ELSE IF call[c].pc = "header" /\ Response(got).value > 0
               THEN ReadValue(c, got)
               ELSE Finish(c, got)
  BY Zenon DEF Read
<1> DEFINE got == call[c].got \o SubSeq(conn[f].in, 1, n)
<1>2. SameConns
  BY <1>1 DEF SameConns, TypeInv
<1>3. call[c].pc \in {"header", "value"}
  BY DEF Read
<1>4. ASSUME NEW g, call' = [call EXCEPT ![c].got = g], UNCHANGED <<pool, free>>
      PROVE  Nothing
  BY <1>2, <1>4 DEF Nothing, TypeInv, CallFields, KeepsFd, StaysIdle
<1>5. ASSUME NEW g, ReadValue(c, g), call[c].pc = "header" PROVE TakesBuffer(c)
  <2>1. OthersKeep(c) /\ KeepsFd(c) /\ call'[c].pc = "value"
    BY <1>5 DEF ReadValue, OthersKeep, KeepsFd, TypeInv, CallFields
  <2>2. call'[c].buffer = IF Fits(Response(g).value) THEN free[Len(free)] ELSE NoBuffer
    BY <1>5 DEF ReadValue, TypeInv, CallFields
  <2> QED
    BY <1>2, <1>5, <2>1, <2>2 DEF ReadValue, TakesBuffer, Fits
<1>6. ASSUME NEW g, Finish(c, g) PROVE OfCall(c)
  <2>1. ASSUME Response(g).status = "Error" PROVE GivesUp(c)
    <3>0. call' = [call EXCEPT ![c].pc = "close", ![c].buffer = NoBuffer,
                               ![c].got = << >>]
      BY <1>6, <2>1 DEF Finish
    <3>1. OthersKeep(c) /\ KeepsFd(c) /\ call'[c].pc = "close" /\ call'[c].buffer = NoBuffer
      BY <3>0 DEF OthersKeep, KeepsFd, TypeInv, CallFields
    <3> QED
      BY <1>2, <1>3, <1>6, <2>1, <3>1 DEF Finish, GivesUp, BufferBack
  <2>2. ASSUME Response(g).status # "Error" PROVE Back(c)
    <3>1. OthersKeep(c) /\ NowIdle(c)
      BY <1>6, <2>2 DEF Finish, OthersKeep, NowIdle, TypeInv, CallFields, Idle
    <3> QED
      BY <1>2, <1>3, <1>6, <2>2, <3>1 DEF Finish, Back, BufferBack, NowIdle
  <2> QED
    BY <2>1, <2>2 DEF OfCall
<1> HIDE DEF got
<1>7. \/ call' = [call EXCEPT ![c].got = got] /\ UNCHANGED <<pool, free>>
      \/ call[c].pc = "header" /\ ReadValue(c, got)
      \/ Finish(c, got)
  BY Zenon, <1>1 DEF got
<1> QED
  BY <1>4, <1>5, <1>6, <1>7 DEF OfCall

(* The peer reads a request or writes a response. *)
LEMMA HandlerMoves ==
    ASSUME TypeInv, NEW f \in DOMAIN conn, Handler(f)
    PROVE  Nothing
<1>1. ASSUME HandlerRead(f) PROVE Nothing
  <2>1. UNCHANGED <<pool, free>>
    BY <1>1 DEF HandlerRead
  <2>2. PICK n \in 1 .. Len(conn[f].out) :
          LET got == conn[f].handler.got \o SubSeq(conn[f].out, 1, n)
              rest == SubSeq(conn[f].out, n + 1, Len(conn[f].out))
          IN  IF RequestWanted(got) > 0
              THEN /\ conn' = [conn EXCEPT ![f].out = rest, ![f].handler.got = got]
                   /\ UNCHANGED call
              ELSE Serve(f, got[1].msg, rest)
    BY <1>1, Zenon DEF HandlerRead
  <2>3. ASSUME NEW rest, NEW got, UNCHANGED call,
               conn' = [conn EXCEPT ![f].out = rest, ![f].handler.got = got]
        PROVE  Nothing
    <3>1. SameConns
      BY <2>3 DEF SameConns, TypeInv
    <3> QED
      BY <2>1, <2>3, <3>1 DEF Nothing, TypeInv, KeepsFd, StaysIdle
  <2>4. ASSUME NEW rest, NEW msg, Serve(f, msg, rest) PROVE Nothing
    <3>1. SameConns
      BY <2>4 DEF Serve, SameConns, TypeInv
    <3>2. PICK c : call' = [call EXCEPT ![c].served = @ + 1]
      BY Zenon, <2>4 DEF Serve
    <3> QED
      BY <2>1, <3>1, <3>2 DEF Nothing, TypeInv, CallFields, KeepsFd, StaysIdle
  <2> DEFINE got == conn[f].handler.got \o SubSeq(conn[f].out, 1, n)
             rest == SubSeq(conn[f].out, n + 1, Len(conn[f].out))
  <2>5. CASE RequestWanted(got) > 0
    <3>1. conn' = [conn EXCEPT ![f].out = rest, ![f].handler.got = got] /\ UNCHANGED call
      BY <2>2, <2>5
    <3> HIDE DEF got, rest
    <3> QED
      BY <2>3, <3>1, Zenon
  <2>6. CASE ~(RequestWanted(got) > 0)
    <3>1. Serve(f, got[1].msg, rest)
      BY <2>2, <2>6
    <3> HIDE DEF got, rest
    <3> QED
      BY <2>4, <3>1, Zenon
  <2> QED
    BY <2>5, <2>6
<1>2. ASSUME HandlerWrite(f) PROVE Nothing
  <2>1. SameConns
    <3>1. ASSUME NEW x, NEW y, conn' = [conn EXCEPT ![f].in = x, ![f].handler = y]
          PROVE  SameConns
      BY <3>1 DEF SameConns, TypeInv
    <3> QED
      BY <1>2, <3>1, Zenon DEF HandlerWrite
  <2> QED
    BY Zenon, <1>2, <2>1 DEF HandlerWrite, Nothing, TypeInv, KeepsFd, StaysIdle
<1> QED
  BY <1>1, <1>2 DEF Handler

(* A peer stops or starts. *)
LEMMA PeerMoves ==
    ASSUME TypeInv, NEW p \in Peer, Stop(p) \/ Start(p)
    PROVE  Nothing
<1>1. SameConns
  BY Zenon DEF Stop, Start, SameConns, TypeInv
<1> QED
  BY Zenon, <1>1 DEF Stop, Start, Nothing, TypeInv, KeepsFd, StaysIdle

(* So every step of the specification is one of the moves. *)
LEMMA StepMoves == TypeInv /\ [Next]_vars => Moves
<1> SUFFICES ASSUME TypeInv, [Next]_vars PROVE Moves
  OBVIOUS
<1>1. ASSUME NEW c \in Call, NEW p \in Peer, NEW r \in Request,
             AcquirePooled(c, p, r) \/ OpenConnection(c, p, r)
      PROVE  Moves
  BY <1>1, AcquireMoves, Zenon DEF Moves
<1>2. ASSUME NEW c \in Call, CallStep(c) PROVE Moves
  BY <1>2, ConnectedMoves, ClosedMoves, WriteMoves, ReadMoves, BreakMoves, Zenon
     DEF CallStep, Moves, OfCall
<1>3. ASSUME NEW f \in DOMAIN conn, Handler(f) PROVE Moves
  BY <1>3, HandlerMoves, Zenon DEF Moves
<1>4. ASSUME NEW p \in Peer, Stop(p) \/ Start(p) PROVE Moves
  BY <1>4, PeerMoves, Zenon DEF Moves
<1>5. ASSUME UNCHANGED vars PROVE Moves
  BY <1>5 DEF vars, Moves, Nothing, TypeInv, SameConns, KeepsFd, StaysIdle
<1> QED
  BY <1>1, <1>2, <1>3, <1>4, <1>5, Zenon DEF Next

-----------------------------------------------------------------------------
(* The moves keep the types *)

(* What Released gives back has its type. *)
LEMMA ReleasedTyped ==
    ASSUME TypeInv, NEW c \in Call
    PROVE  Released(call[c].buffer) \in Seq(0 .. Buffers - 1)
BY Zenon, Appended DEF TypeInv, Released

(* A step that moves nothing keeps the types. *)
LEMMA NothingTyped ==
    ASSUME TypeInv, Nothing
    PROVE  TypeInv'
BY DEF TypeInv, Nothing, SameConns, KeepsFd

(* So does acquire, *)
LEMMA OfPeerTyped ==
    ASSUME Inv, NEW c \in Call, NEW p \in Peer, OfPeer(c, p)
    PROVE  TypeInv'
<1>0. TypeInv
  BY DEF Inv
<1>1. ASSUME NEW f \in Socket, Begun(c, p, f)
      PROVE  /\ free' \in Seq(0 .. Buffers - 1)
             /\ DOMAIN call' = Call
             /\ \A d \in Call :
                  /\ CallFields \subseteq DOMAIN call'[d]
                  /\ call'[d].fd \in Socket \cup {NoFd}
                  /\ call'[d].buffer \in (0 .. Buffers - 1) \cup {NoBuffer}
  BY <1>0, <1>1 DEF TypeInv, Begun, OthersKeep
<1>2. ASSUME FromPool(c, p) PROVE TypeInv'
  <2>1. pool[p] \in Seq(Socket) /\ pool[p] # << >>
    BY <1>0, <1>2 DEF TypeInv, FromPool
  <2>2. Head(pool[p]) \in Socket /\ Tail(pool[p]) \in Seq(Socket)
    BY <2>1
  <2>3. pool' \in [Peer -> Seq(Socket)]
    BY <1>0, <1>2, <2>2 DEF TypeInv, FromPool
  <2>4. /\ DOMAIN conn' \subseteq Socket
        /\ \A f \in DOMAIN conn' : "peer" \in DOMAIN conn'[f] /\ conn'[f].peer \in Peer
    BY <1>0, <1>2 DEF TypeInv, FromPool, SameConns
  <2> QED
    BY <1>1, <1>2, <2>2, <2>3, <2>4 DEF TypeInv, FromPool
<1>3. ASSUME NEW f \in Socket, Fresh(c, p, f) PROVE TypeInv'
  <2>1. /\ DOMAIN conn' \subseteq Socket
        /\ \A g \in DOMAIN conn' : "peer" \in DOMAIN conn'[g] /\ conn'[g].peer \in Peer
    BY <1>0, <1>3 DEF TypeInv, Fresh
  <2> QED
    BY <1>0, <1>1, <1>3, <2>1 DEF TypeInv, Fresh
<1> QED
  BY <1>2, <1>3 DEF OfPeer

(* and the end of a call, or of its reading of a header. *)
LEMMA OfCallTyped ==
    ASSUME Inv, NEW c \in Call, OfCall(c)
    PROVE  TypeInv'
<1>0. TypeInv /\ ConnectionsOwned /\ BuffersOwned
  BY DEF Inv
<1>1. ASSUME OthersKeep(c), call'[c].fd \in Socket \cup {NoFd},
             call'[c].buffer \in (0 .. Buffers - 1) \cup {NoBuffer}
      PROVE  /\ DOMAIN call' = Call
             /\ \A d \in Call :
                  /\ CallFields \subseteq DOMAIN call'[d]
                  /\ call'[d].fd \in Socket \cup {NoFd}
                  /\ call'[d].buffer \in (0 .. Buffers - 1) \cup {NoBuffer}
  BY <1>0, <1>1 DEF TypeInv, OthersKeep
<1>2. ASSUME SameConns
      PROVE  /\ DOMAIN conn' \subseteq Socket
             /\ \A f \in DOMAIN conn' : "peer" \in DOMAIN conn'[f] /\ conn'[f].peer \in Peer
  BY <1>0, <1>2 DEF TypeInv, SameConns
<1>3. ASSUME Shut(c) PROVE TypeInv'
  <2>1. /\ DOMAIN conn' \subseteq Socket
        /\ \A f \in DOMAIN conn' : "peer" \in DOMAIN conn'[f] /\ conn'[f].peer \in Peer
    BY <1>0, <1>3 DEF TypeInv, Shut
  <2> QED
    BY <1>0, <1>1, <1>3, <2>1 DEF TypeInv, Shut, NowIdle
<1>4. ASSUME Back(c) PROVE TypeInv'
  <2>1. call[c].fd \in Socket /\ call[c].peer \in Peer
    BY <1>0, <1>4, HeldFd DEF Back
  <2>2. pool' \in [Peer -> Seq(Socket)]
    BY <1>0, <1>4, <2>1 DEF TypeInv, Back
  <2>3. free' \in Seq(0 .. Buffers - 1)
    BY <1>0, <1>4, ReleasedTyped DEF Back, BufferBack
  <2> QED
    BY <1>1, <1>2, <1>4, <2>2, <2>3 DEF TypeInv, Back, NowIdle
<1>5. ASSUME GivesUp(c) PROVE TypeInv'
  <2>1. free' \in Seq(0 .. Buffers - 1)
    BY <1>0, <1>5, ReleasedTyped DEF GivesUp, BufferBack
  <2> QED
    BY <1>0, <1>1, <1>2, <1>5, <2>1 DEF TypeInv, GivesUp, KeepsFd, BufferBack
<1>6. ASSUME TakesBuffer(c) PROVE TypeInv'
  <2>1. /\ free' \in Seq(0 .. Buffers - 1)
        /\ call'[c].buffer \in (0 .. Buffers - 1) \cup {NoBuffer}
    <3>1. free \in Seq(0 .. Buffers - 1) /\ IsInjective(free)
      BY <1>0 DEF TypeInv, BuffersOwned
    <3>2. ASSUME free # << >>
          PROVE  SubSeq(free, 1, Len(free) - 1) \in Seq(0 .. Buffers - 1) /\ free[Len(free)] \in 0 .. Buffers - 1
      BY <3>1, <3>2, FrontOf, Zenon
    <3> QED
      BY <1>6, <3>1, <3>2 DEF TakesBuffer
  <2> QED
    BY <1>0, <1>1, <1>2, <1>6, <2>1 DEF TypeInv, TakesBuffer, KeepsFd
<1> QED
  BY <1>3, <1>4, <1>5, <1>6 DEF OfCall

(* Hence every move. *)
LEMMA MovesTyped == Inv /\ Moves => TypeInv'
BY NothingTyped, OfPeerTyped, OfCallTyped, Zenon DEF Moves, Inv

-----------------------------------------------------------------------------
(* The moves keep the owners of connections *)

(* Where every call keeps its connection, owners stay. *)
LEMMA KeepsOwned ==
    ASSUME Inv, SameConns, UNCHANGED pool,
           \A d \in Call : KeepsFd(d) /\ StaysIdle(d)
    PROVE  ConnectionsOwned'
<1>0. ConnectionsOwned /\ TypeInv
  BY DEF Inv
<1>1. \A d \in Call : /\ call'[d].fd = call[d].fd /\ call'[d].peer = call[d].peer
                      /\ call'[d].pc = "idle" <=> call[d].pc = "idle"
                      /\ Held(d)' <=> Held(d)
  BY DEF KeepsFd, StaysIdle, Held
<1>2. DOMAIN conn' = DOMAIN conn /\ \A g \in DOMAIN conn : conn'[g].peer = conn[g].peer
  BY DEF SameConns
<1>3. \A d \in Call : Held(d)' <=> call'[d].pc # "idle"
  BY <1>0, <1>1 DEF ConnectionsOwned
<1>4. ASSUME NEW d \in Call, Held(d)'
      PROVE  /\ call'[d].fd \in DOMAIN conn' /\ conn'[call'[d].fd].peer = call'[d].peer
             /\ \A e \in Call \ {d} : call'[e].fd # call'[d].fd
             /\ \A q \in Peer : call'[d].fd \notin Range(pool'[q])
  BY <1>0, <1>1, <1>2, <1>4 DEF ConnectionsOwned
<1>5. ASSUME NEW q \in Peer
      PROVE  /\ IsInjective(pool'[q])
             /\ \A g \in Range(pool'[q]) : g \in DOMAIN conn' /\ conn'[g].peer = q
  BY <1>0, <1>2 DEF ConnectionsOwned
<1>6. ASSUME NEW g \in DOMAIN conn'
      PROVE  (\E d \in Call : call'[d].fd = g) \/ g \in Range(pool'[conn'[g].peer])
  BY <1>0, <1>1, <1>2 DEF ConnectionsOwned
<1> QED
  BY <1>3, <1>4, <1>5, <1>6, Zenon DEF ConnectionsOwned

(* A pooled connection passes to the call. *)
LEMMA FromPoolOwned ==
    ASSUME Inv, NEW c \in Call, NEW p \in Peer, FromPool(c, p)
    PROVE  ConnectionsOwned'
<1> DEFINE f == Head(pool[p])
<1>0. ConnectionsOwned /\ TypeInv
  BY DEF Inv
<1>1. pool[p] \in Seq(Socket) /\ pool[p] # << >> /\ IsInjective(pool[p])
  BY <1>0 DEF TypeInv, ConnectionsOwned, FromPool
<1>2. /\ f \in Socket /\ f \in Range(pool[p])
      /\ Range(Tail(pool[p])) = Range(pool[p]) \ {f} /\ IsInjective(Tail(pool[p]))
  BY <1>1, TailOf, Zenon
<1>3. \A q \in Peer : pool'[q] = IF q = p THEN Tail(pool[p]) ELSE pool[q]
  BY <1>0 DEF TypeInv, FromPool
<1>4. f \in DOMAIN conn /\ conn[f].peer = p
  BY <1>0, <1>2 DEF ConnectionsOwned
<1>5. \A q \in Peer : f \notin Range(pool'[q])
  <2>1. ASSUME NEW q \in Peer, q # p, f \in Range(pool[q]) PROVE FALSE
    BY <1>0, <1>4, <2>1 DEF ConnectionsOwned
  <2> QED
    BY <1>2, <1>3, <2>1
<1>6. \A d \in Call : call[d].fd # f
  <2>1. ASSUME NEW d \in Call, call[d].fd = f PROVE FALSE
    <3>1. Held(d)
      BY <1>2, <2>1, Absence DEF Held
    <3> QED
      BY <1>0, <1>2, <2>1, <3>1 DEF ConnectionsOwned
  <2> QED
    BY <2>1
<1>7. \A q \in Peer : Range(pool'[q]) = Range(pool[q]) \ {f} /\ IsInjective(pool'[q])
  BY <1>0, <1>2, <1>3, <1>4, <1>5 DEF ConnectionsOwned
<1>8. /\ call'[c].fd = f /\ call'[c].peer = p /\ call'[c].pc # "idle"
      /\ \A d \in Call \ {c} : /\ call'[d].fd = call[d].fd /\ call'[d].peer = call[d].peer
                               /\ call'[d].pc = call[d].pc
  BY DEF FromPool, Begun, OthersKeep
<1>9. DOMAIN conn' = DOMAIN conn /\ \A g \in DOMAIN conn : conn'[g].peer = conn[g].peer
  BY DEF FromPool, SameConns
<1>10. call[c].pc = "idle" /\ call[c].fd = NoFd
  BY <1>0 DEF FromPool, Begun, ConnectionsOwned, Held
<1> HIDE DEF f
<1>11. \A d \in Call : Held(d)' <=> call'[d].pc # "idle"
  BY <1>0, <1>2, <1>8, Absence DEF ConnectionsOwned, Held
<1>12. ASSUME NEW d \in Call, Held(d)'
       PROVE  /\ call'[d].fd \in DOMAIN conn' /\ conn'[call'[d].fd].peer = call'[d].peer
              /\ \A e \in Call \ {d} : call'[e].fd # call'[d].fd
              /\ \A q \in Peer : call'[d].fd \notin Range(pool'[q])
  <2>1. CASE d = c
    BY <1>4, <1>5, <1>6, <1>8, <1>9, <2>1
  <2>2. CASE d # c
    <3>1. Held(d)
      BY <1>8, <1>12, <2>2 DEF Held
    <3>2. /\ call[d].fd \in DOMAIN conn /\ conn[call[d].fd].peer = call[d].peer
          /\ \A e \in Call \ {d} : call[e].fd # call[d].fd
          /\ \A q \in Peer : call[d].fd \notin Range(pool[q])
      BY <1>0, <3>1 DEF ConnectionsOwned
    <3>3. \A q \in Peer : call'[d].fd \notin Range(pool'[q])
      BY <1>7, <1>8, <2>2, <3>2
    <3>4. \A e \in Call \ {d} : call'[e].fd # call'[d].fd
      BY <1>6, <1>8, <2>2, <3>2
    <3> QED
      BY <1>8, <1>9, <2>2, <3>2, <3>3, <3>4
  <2> QED
    BY <2>1, <2>2
<1>13. ASSUME NEW q \in Peer
       PROVE  /\ IsInjective(pool'[q])
              /\ \A g \in Range(pool'[q]) : g \in DOMAIN conn' /\ conn'[g].peer = q
  BY <1>0, <1>7, <1>9 DEF ConnectionsOwned
<1>14. ASSUME NEW g \in DOMAIN conn'
       PROVE  (\E d \in Call : call'[d].fd = g) \/ g \in Range(pool'[conn'[g].peer])
  <2>1. CASE g = f
    BY <1>8, <2>1
  <2>2. ASSUME g # f, NEW d \in Call, call[d].fd = g
        PROVE  call'[d].fd = g
    <3>1. g # NoFd
      BY <1>0, <1>9, Absence DEF TypeInv
    <3> QED
      BY <1>8, <1>10, <2>2, <3>1
  <2>3. ASSUME g # f, g \in Range(pool[conn[g].peer])
        PROVE  g \in Range(pool'[conn'[g].peer])
    BY <1>0, <1>7, <1>9, <2>3 DEF TypeInv
  <2> QED
    BY <1>0, <1>9, <2>1, <2>2, <2>3, Zenon DEF ConnectionsOwned
<1> QED
  BY <1>11, <1>12, <1>13, <1>14, Zenon DEF ConnectionsOwned

(* A new connection belongs to the call that opened it. *)
LEMMA FreshOwned ==
    ASSUME Inv, NEW c \in Call, NEW p \in Peer, NEW f \in Socket, Fresh(c, p, f)
    PROVE  ConnectionsOwned'
<1>0. ConnectionsOwned /\ TypeInv
  BY DEF Inv
<1>1. /\ call'[c].fd = f /\ call'[c].peer = p /\ call'[c].pc # "idle"
      /\ \A d \in Call \ {c} : /\ call'[d].fd = call[d].fd /\ call'[d].peer = call[d].peer
                               /\ call'[d].pc = call[d].pc
  BY DEF Fresh, Begun, OthersKeep
<1>2. /\ f \notin DOMAIN conn /\ DOMAIN conn' = DOMAIN conn \cup {f} /\ conn'[f].peer = p
      /\ \A g \in DOMAIN conn : conn'[g].peer = conn[g].peer
      /\ UNCHANGED pool
  BY DEF Fresh
<1>3. call[c].pc = "idle" /\ call[c].fd = NoFd
  BY <1>0 DEF Fresh, Begun, ConnectionsOwned, Held
<1>4. f # NoFd /\ \A d \in Call : call[d].fd # f
  BY <1>0, <1>2, Absence DEF ConnectionsOwned, Held
<1>5. \A q \in Peer : f \notin Range(pool[q])
  BY <1>0, <1>2 DEF ConnectionsOwned
<1>6. \A d \in Call : Held(d)' <=> call'[d].pc # "idle"
  BY <1>0, <1>1, <1>4 DEF ConnectionsOwned, Held
<1>7. ASSUME NEW d \in Call, Held(d)'
      PROVE  /\ call'[d].fd \in DOMAIN conn' /\ conn'[call'[d].fd].peer = call'[d].peer
             /\ \A e \in Call \ {d} : call'[e].fd # call'[d].fd
             /\ \A q \in Peer : call'[d].fd \notin Range(pool'[q])
  <2>1. CASE d = c
    BY <1>1, <1>2, <1>4, <1>5, <2>1
  <2>2. CASE d # c
    <3>1. Held(d)
      BY <1>1, <1>7, <2>2 DEF Held
    <3> QED
      BY <1>0, <1>1, <1>2, <1>4, <2>2, <3>1 DEF ConnectionsOwned
  <2> QED
    BY <2>1, <2>2
<1>8. ASSUME NEW q \in Peer
      PROVE  /\ IsInjective(pool'[q])
             /\ \A g \in Range(pool'[q]) : g \in DOMAIN conn' /\ conn'[g].peer = q
  BY <1>0, <1>2 DEF ConnectionsOwned
<1>9. ASSUME NEW g \in DOMAIN conn'
      PROVE  (\E d \in Call : call'[d].fd = g) \/ g \in Range(pool'[conn'[g].peer])
  <2>1. CASE g = f
    BY <1>1, <2>1
  <2>2. CASE g # f
    <3>1. g \in DOMAIN conn /\ g # NoFd
      BY <1>0, <1>2, <2>2, Absence DEF TypeInv
    <3> QED
      BY <1>0, <1>1, <1>2, <1>3, <3>1 DEF ConnectionsOwned
  <2> QED
    BY <2>1, <2>2
<1> QED
  BY <1>6, <1>7, <1>8, <1>9, Zenon DEF ConnectionsOwned

(* A closed connection is in no pool and in no other call. *)
LEMMA ShutOwned ==
    ASSUME Inv, NEW c \in Call, Shut(c)
    PROVE  ConnectionsOwned'
<1> DEFINE f == call[c].fd
<1>0. ConnectionsOwned /\ TypeInv
  BY DEF Inv
<1>1. /\ call'[c].fd = NoFd /\ call'[c].pc = "idle"
      /\ \A d \in Call \ {c} : /\ call'[d].fd = call[d].fd /\ call'[d].peer = call[d].peer
                               /\ call'[d].pc = call[d].pc
  BY DEF Shut, NowIdle, OthersKeep
<1>2. /\ DOMAIN conn' = DOMAIN conn \ {f} /\ UNCHANGED pool
      /\ \A g \in DOMAIN conn' : conn'[g].peer = conn[g].peer
  BY DEF Shut
<1>3. Held(c)
  BY <1>0 DEF Shut, ConnectionsOwned
<1>4. /\ \A d \in Call \ {c} : call[d].fd # f
      /\ \A q \in Peer : f \notin Range(pool[q])
  BY <1>0, <1>3 DEF ConnectionsOwned
<1> HIDE DEF f
<1>5. \A d \in Call : Held(d)' <=> call'[d].pc # "idle"
  BY <1>0, <1>1 DEF ConnectionsOwned, Held
<1>6. ASSUME NEW d \in Call, Held(d)'
      PROVE  /\ call'[d].fd \in DOMAIN conn' /\ conn'[call'[d].fd].peer = call'[d].peer
             /\ \A e \in Call \ {d} : call'[e].fd # call'[d].fd
             /\ \A q \in Peer : call'[d].fd \notin Range(pool'[q])
  <2>1. d # c /\ call'[d].fd # NoFd /\ Held(d)
    BY <1>1, <1>6 DEF Held
  <2> QED
    BY <1>0, <1>1, <1>2, <1>4, <2>1 DEF ConnectionsOwned
<1>7. ASSUME NEW q \in Peer
      PROVE  /\ IsInjective(pool'[q])
             /\ \A g \in Range(pool'[q]) : g \in DOMAIN conn' /\ conn'[g].peer = q
  BY <1>0, <1>2, <1>4 DEF ConnectionsOwned
<1>8. ASSUME NEW g \in DOMAIN conn'
      PROVE  (\E d \in Call : call'[d].fd = g) \/ g \in Range(pool'[conn'[g].peer])
  BY <1>0, <1>1, <1>2, <1>8 DEF ConnectionsOwned, f
<1> QED
  BY <1>5, <1>6, <1>7, <1>8, Zenon DEF ConnectionsOwned

(* A connection given back is in the pool once. *)
LEMMA BackOwned ==
    ASSUME Inv, NEW c \in Call, Back(c)
    PROVE  ConnectionsOwned'
<1> DEFINE f == call[c].fd
           p == call[c].peer
<1>0. ConnectionsOwned /\ TypeInv
  BY DEF Inv
<1>1. /\ call'[c].fd = NoFd /\ call'[c].pc = "idle"
      /\ \A d \in Call \ {c} : /\ call'[d].fd = call[d].fd /\ call'[d].peer = call[d].peer
                               /\ call'[d].pc = call[d].pc
  BY DEF Back, NowIdle, OthersKeep
<1>2. DOMAIN conn' = DOMAIN conn /\ \A g \in DOMAIN conn : conn'[g].peer = conn[g].peer
  BY DEF Back, SameConns
<1>3. /\ f \in Socket /\ f \in DOMAIN conn /\ p \in Peer /\ conn[f].peer = p
      /\ Held(c)
  BY <1>0, HeldFd DEF Back, ConnectionsOwned
<1>4. /\ \A d \in Call \ {c} : call[d].fd # f
      /\ \A q \in Peer : f \notin Range(pool[q])
  BY <1>0, <1>3 DEF ConnectionsOwned
<1>5. \A q \in Peer : pool'[q] = IF q = p THEN Append(pool[p], f) ELSE pool[q]
  BY <1>0 DEF TypeInv, Back
<1>6. pool[p] \in Seq(Socket) /\ IsInjective(pool[p]) /\ f \notin Range(pool[p])
  BY <1>0, <1>3, <1>4 DEF TypeInv, ConnectionsOwned
<1>7. Range(Append(pool[p], f)) = Range(pool[p]) \cup {f} /\ IsInjective(Append(pool[p], f))
  BY <1>3, <1>6, AppendOf
<1> HIDE DEF f, p
<1>8. \A d \in Call : Held(d)' <=> call'[d].pc # "idle"
  BY <1>0, <1>1 DEF ConnectionsOwned, Held
<1>9. ASSUME NEW d \in Call, Held(d)'
      PROVE  /\ call'[d].fd \in DOMAIN conn' /\ conn'[call'[d].fd].peer = call'[d].peer
             /\ \A e \in Call \ {d} : call'[e].fd # call'[d].fd
             /\ \A q \in Peer : call'[d].fd \notin Range(pool'[q])
  <2>1. d # c /\ call'[d].fd # NoFd /\ Held(d)
    BY <1>1, <1>9 DEF Held
  <2>2. call'[d].fd # f /\ call'[d].fd = call[d].fd
    BY <1>1, <1>4, <2>1
  <2>3. \A q \in Peer : call'[d].fd \notin Range(pool'[q])
    BY <1>0, <1>3, <1>5, <1>7, <2>1, <2>2 DEF ConnectionsOwned
  <2> QED
    BY <1>0, <1>1, <1>2, <2>1, <2>2, <2>3 DEF ConnectionsOwned
<1>10. ASSUME NEW q \in Peer
       PROVE  /\ IsInjective(pool'[q])
              /\ \A g \in Range(pool'[q]) : g \in DOMAIN conn' /\ conn'[g].peer = q
  <2>1. CASE q = p
    <3>1. \A g \in Range(pool[p]) : g \in DOMAIN conn /\ conn[g].peer = p
      BY <1>0, <1>3 DEF ConnectionsOwned
    <3> QED
      BY <1>2, <1>3, <1>5, <1>7, <2>1, <3>1
  <2>2. CASE q # p
    <3>1. pool'[q] = pool[q]
      BY <1>5, <2>2
    <3> QED
      BY <1>0, <1>2, <3>1 DEF ConnectionsOwned
  <2> QED
    BY <2>1, <2>2
<1>11. ASSUME NEW g \in DOMAIN conn'
       PROVE  (\E d \in Call : call'[d].fd = g) \/ g \in Range(pool'[conn'[g].peer])
  <2>1. CASE g = f
    BY <1>2, <1>3, <1>5, <1>7, <2>1
  <2>2. CASE g # f
    <3>1. g \in DOMAIN conn /\ conn'[g].peer = conn[g].peer /\ conn[g].peer \in Peer
      BY <1>0, <1>2 DEF TypeInv
    <3>2. ASSUME NEW d \in Call, call[d].fd = g PROVE call'[d].fd = g
      BY <1>1, <2>2, <3>2 DEF f
    <3>3. ASSUME g \in Range(pool[conn[g].peer]) PROVE g \in Range(pool'[conn'[g].peer])
      BY <1>5, <1>7, <3>1, <3>3
    <3> QED
      BY <1>0, <3>1, <3>2, <3>3, Zenon DEF ConnectionsOwned
  <2> QED
    BY <2>1, <2>2
<1> QED
  BY <1>8, <1>9, <1>10, <1>11, Zenon DEF ConnectionsOwned

(* Hence every move keeps the owners. *)
LEMMA MovesOwned == Inv /\ Moves => ConnectionsOwned'
<1>1. ASSUME Inv, NEW c \in Call, OfCall(c) PROVE ConnectionsOwned'
  <2>1. ASSUME GivesUp(c) \/ TakesBuffer(c) PROVE ConnectionsOwned'
    <3>1. SameConns /\ UNCHANGED pool
      BY <2>1 DEF GivesUp, TakesBuffer
    <3>2. \A d \in Call : KeepsFd(d) /\ StaysIdle(d)
      BY <2>1 DEF GivesUp, TakesBuffer, OthersKeep, KeepsFd, StaysIdle
    <3> QED
      BY <1>1, <3>1, <3>2, KeepsOwned
  <2> QED
    BY <1>1, <2>1, ShutOwned, BackOwned DEF OfCall
<1>2. ASSUME Inv, NEW c \in Call, NEW p \in Peer, OfPeer(c, p) PROVE ConnectionsOwned'
  BY <1>2, FromPoolOwned, FreshOwned DEF OfPeer
<1>3. ASSUME Inv, Nothing PROVE ConnectionsOwned'
  BY <1>3, KeepsOwned DEF Nothing
<1> QED
  BY <1>1, <1>2, <1>3, Zenon DEF Moves

-----------------------------------------------------------------------------
(* The moves keep the owners of buffers *)

(* What BuffersOwned says of one buffer. *)
OneUser(b) ==
    IF b \in Range(free) THEN \A c \in Call : call[c].buffer # b
    ELSE \E c \in Call : /\ call[c].buffer = b
                         /\ \A d \in Call \ {c} : call[d].buffer # b

(* Where calls keep their buffers, or have none to keep, users stay. *)
LEMMA SameUsers ==
    ASSUME Inv, UNCHANGED free,
           \A d \in Call : /\ call'[d].buffer = call[d].buffer
                           /\ call'[d].buffer # NoBuffer => call'[d].pc = "value"
    PROVE  BuffersOwned'
BY DEF Inv, BuffersOwned

(* A buffer given back is free once. *)
LEMMA GivenBack ==
    ASSUME Inv, NEW c \in Call, OthersKeep(c), BufferBack(c)
    PROVE  BuffersOwned'
<1> DEFINE b == call[c].buffer
<1>0. TypeInv /\ BuffersOwned
  BY DEF Inv
<1>1. /\ call'[c].buffer = NoBuffer
      /\ \A d \in Call \ {c} : call'[d].buffer = call[d].buffer /\ call'[d].pc = call[d].pc
  BY DEF OthersKeep, BufferBack
<1>2. CASE b = NoBuffer
  <2>1. UNCHANGED free /\ \A d \in Call : call'[d].buffer = call[d].buffer
    BY <1>1, <1>2 DEF BufferBack, Released
  <2>2. \A d \in Call : call'[d].buffer # NoBuffer => call'[d].pc = "value"
    BY <1>0, <1>1 DEF BuffersOwned
  <2> QED
    BY <2>1, <2>2, SameUsers
<1>3. CASE b # NoBuffer
  <2>1. b \in 0 .. Buffers - 1 /\ free \in Seq(0 .. Buffers - 1) /\ IsInjective(free)
    BY <1>0, <1>3 DEF TypeInv, BuffersOwned
  <2>2. b \notin Range(free)
    BY <1>0, <2>1 DEF BuffersOwned
  <2>3. \A d \in Call \ {c} : call[d].buffer # b
    BY <1>0, <2>1, <2>2 DEF BuffersOwned
  <2>4. free' = Append(free, b)
    BY <1>3 DEF BufferBack, Released
  <2>5. Range(free') = Range(free) \cup {b} /\ IsInjective(free')
    <3> DEFINE S == 0 .. Buffers - 1
    <3>1. free \in Seq(S) /\ b \in S
      BY <2>1
    <3> HIDE DEF S, b
    <3>2. Range(Append(free, b)) = Range(free) \cup {b} /\ IsInjective(Append(free, b))
      BY <2>1, <2>2, <3>1, AppendOf
    <3> QED
      BY <2>4, <3>2
  <2>6. b # NoBuffer /\ \A d \in Call : call'[d].buffer # b
    BY <1>1, <1>3, <2>3
  <2>7. \A d \in Call : call'[d].buffer # NoBuffer => call'[d].pc = "value"
    BY <1>0, <1>1 DEF BuffersOwned
  <2> HIDE DEF b
  <2>8. ASSUME NEW x \in 0 .. Buffers - 1 PROVE OneUser(x)'
    <3>0. x # NoBuffer /\ OneUser(x)
      BY <1>0, Absence DEF BuffersOwned, OneUser
    <3>1. CASE x = b
      BY <2>5, <2>6, <3>1 DEF OneUser
    <3>2. CASE x # b
      <4>1. \A d \in Call : call'[d].buffer = x <=> call[d].buffer = x
        BY <1>1, <3>0, <3>2 DEF b
      <4>2. x \in Range(free') <=> x \in Range(free)
        BY <2>5, <3>2
      <4> QED
        BY <3>0, <4>1, <4>2 DEF OneUser
    <3> QED
      BY <3>1, <3>2
  <2> QED
    BY <2>5, <2>7, <2>8 DEF BuffersOwned, OneUser
<1> QED
  BY <1>2, <1>3

(* A buffer taken is no other call's. *)
LEMMA Taken ==
    ASSUME Inv, NEW c \in Call, TakesBuffer(c)
    PROVE  BuffersOwned'
<1> DEFINE b == free[Len(free)]
<1>0. TypeInv /\ BuffersOwned
  BY DEF Inv
<1>1. /\ call[c].buffer = NoBuffer /\ call'[c].pc = "value"
      /\ \A d \in Call \ {c} : call'[d].buffer = call[d].buffer /\ call'[d].pc = call[d].pc
  BY <1>0 DEF TakesBuffer, OthersKeep, BuffersOwned
<1>2. \A d \in Call : call'[d].buffer # NoBuffer => call'[d].pc = "value"
  BY <1>0, <1>1 DEF BuffersOwned
<1>3. CASE call'[c].buffer = NoBuffer /\ UNCHANGED free
  BY <1>1, <1>2, <1>3, SameUsers
<1>4. CASE free # << >> /\ call'[c].buffer = b /\ free' = SubSeq(free, 1, Len(free) - 1)
  <2>1. free \in Seq(0 .. Buffers - 1) /\ IsInjective(free)
    BY <1>0 DEF TypeInv, BuffersOwned
  <2>2. /\ b \in 0 .. Buffers - 1 /\ b \in Range(free)
        /\ Range(free') = Range(free) \ {b} /\ IsInjective(free')
    BY Zenon, <1>4, <2>1, FrontOf
  <2>3. \A d \in Call : call[d].buffer # b
    BY <1>0, <2>2 DEF BuffersOwned
  <2> HIDE DEF b
  <2>4. ASSUME NEW x \in 0 .. Buffers - 1 PROVE OneUser(x)'
    <3>0. x # NoBuffer /\ OneUser(x)
      BY <1>0, Absence DEF BuffersOwned, OneUser
    <3>1. CASE x = b
      BY <1>1, <1>4, <2>2, <2>3, <3>1 DEF OneUser
    <3>2. CASE x # b
      <4>1. \A d \in Call : call'[d].buffer = x <=> call[d].buffer = x
        BY <1>1, <1>4, <3>0, <3>2
      <4>2. x \in Range(free') <=> x \in Range(free)
        BY <2>2, <3>2
      <4> QED
        BY <3>0, <4>1, <4>2 DEF OneUser
    <3> QED
      BY <3>1, <3>2
  <2> QED
    BY <1>2, <2>2, <2>4 DEF BuffersOwned, OneUser
<1> QED
  BY <1>3, <1>4 DEF TakesBuffer

(* Hence every move keeps the users. *)
LEMMA MovesUsed == Inv /\ Moves => BuffersOwned'
<1>1. ASSUME Inv, NEW c \in Call, OfCall(c) PROVE BuffersOwned'
  <2>1. ASSUME Shut(c) PROVE BuffersOwned'
    <3>1. call[c].buffer = NoBuffer /\ call'[c].buffer = NoBuffer
      BY <1>1, <2>1 DEF Inv, BuffersOwned, Shut, NowIdle
    <3>2. \A d \in Call : /\ call'[d].buffer = call[d].buffer
                          /\ call'[d].buffer # NoBuffer => call'[d].pc = "value"
      BY <1>1, <2>1, <3>1 DEF Inv, BuffersOwned, Shut, OthersKeep
    <3> QED
      BY <1>1, <2>1, <3>2, SameUsers DEF Shut
  <2> QED
    BY <1>1, <2>1, GivenBack, Taken DEF OfCall, Back, GivesUp
<1>2. ASSUME Inv, NEW c \in Call, NEW p \in Peer, OfPeer(c, p) PROVE BuffersOwned'
  <2>1. PICK f : Begun(c, p, f)
    BY Zenon, <1>2 DEF OfPeer, FromPool, Fresh
  <2>2. call[c].buffer = NoBuffer /\ call'[c].buffer = NoBuffer
    BY <1>2, <2>1 DEF Inv, BuffersOwned, Begun
  <2>3. \A d \in Call : /\ call'[d].buffer = call[d].buffer
                        /\ call'[d].buffer # NoBuffer => call'[d].pc = "value"
    BY <1>2, <2>1, <2>2 DEF Inv, BuffersOwned, Begun, OthersKeep
  <2> QED
    BY <1>2, <2>1, <2>3, SameUsers DEF Begun
<1>3. ASSUME Inv, Nothing PROVE BuffersOwned'
  <2>1. \A d \in Call : /\ call'[d].buffer = call[d].buffer
                        /\ call'[d].buffer # NoBuffer => call'[d].pc = "value"
    BY <1>3 DEF Inv, BuffersOwned, Nothing
  <2> QED
    BY <1>3, <2>1, SameUsers DEF Nothing
<1> QED
  BY <1>1, <1>2, <1>3, Zenon DEF Moves

-----------------------------------------------------------------------------
(* The number of connections *)

ToPeer(p) == {f \in DOMAIN conn : conn[f].peer = p}

PeakInv ==
    \A p \in Peer : IsFiniteSet(ToPeer(p)) /\ Cardinality(ToPeer(p)) <= Cardinality(Call)

(* As many descriptors as calls that hold one, at most. *)
LEMMA HeldAreFew ==
    ASSUME NEW S, NEW h \in [S -> Call], \A f \in S, g \in S : h[f] = h[g] => f = g
    PROVE  IsFiniteSet(S) /\ Cardinality(S) <= Cardinality(Call)
<1>1. h \in Injection(S, Call)
  BY Zenon DEF Injection, IsInjective
<1>2. IsFiniteSet(Call)
  BY PeerClientAssumption
<1> QED
  BY <1>1, <1>2, FS_Injection, Zenon

(* Where a connection was opened all others to the peer are in use: each   *)
(* call holds one of them at most.                                         *)
LEMMA FreshIsWithin ==
    ASSUME Inv, NEW c \in Call, NEW p \in Peer, NEW f \in Socket, Fresh(c, p, f)
    PROVE  IsFiniteSet(ToPeer(p)') /\ Cardinality(ToPeer(p)') <= Cardinality(Call)
<1>1. ConnectionsOwned'
  BY FreshOwned, Zenon
<1>2. pool'[p] = << >>
  BY DEF Fresh
<1>3. Range(pool'[p]) = {}
  BY <1>2 DEF Range
<1> DEFINE S == ToPeer(p)'
           h == [g \in S |-> CHOOSE d \in Call : call'[d].fd = g]
<1>4. ASSUME NEW g \in S PROVE \E d \in Call : call'[d].fd = g
  BY <1>1, <1>3, Zenon DEF ConnectionsOwned, ToPeer
<1>5. \A g \in S : h[g] \in Call /\ call'[h[g]].fd = g
  BY <1>4, Zenon
<1>6. h \in [S -> Call]
  BY <1>4, Zenon
<1> HIDE DEF h, S
<1>7. \A g \in S, k \in S : h[g] = h[k] => g = k
  BY <1>5, Zenon
<1> QED
  BY <1>6, <1>7, HeldAreFew, Zenon DEF S

(* All other moves open no connection. *)
LEMMA FewerAreWithin ==
    ASSUME PeakInv, NEW p \in Peer, ToPeer(p)' \subseteq ToPeer(p)
    PROVE  IsFiniteSet(ToPeer(p)') /\ Cardinality(ToPeer(p)') <= Cardinality(Call)
<1> DEFINE S == ToPeer(p)
           T == ToPeer(p)'
<1>1. IsFiniteSet(S) /\ Cardinality(S) <= Cardinality(Call) /\ T \in SUBSET S
  BY Zenon DEF PeakInv
<1> HIDE DEF S, T
<1>2. IsFiniteSet(T) /\ Cardinality(T) <= Cardinality(S)
  BY <1>1, FS_Subset, Zenon
<1>3. Cardinality(S) \in Nat /\ Cardinality(T) \in Nat /\ Cardinality(Call) \in Nat
  BY <1>1, <1>2, FS_CardinalityType, PeerClientAssumption, Zenon
<1>4. Cardinality(T) <= Cardinality(Call)
  BY <1>1, <1>2, <1>3
<1> QED
  BY <1>2, <1>4, Zenon DEF T

(* So no move exceeds the number of calls. *)
LEMMA MovesWithin == Inv /\ PeakInv /\ Moves => PeakInv'
<1> SUFFICES ASSUME Inv, PeakInv, Moves, NEW p \in Peer
             PROVE  IsFiniteSet(ToPeer(p)') /\ Cardinality(ToPeer(p)') <= Cardinality(Call)
  BY Zenon DEF PeakInv
<1>1. ASSUME SameConns PROVE ToPeer(p)' \subseteq ToPeer(p)
  BY <1>1, Zenon DEF SameConns, ToPeer
<1>2. ASSUME NEW c \in Call, Shut(c) PROVE ToPeer(p)' \subseteq ToPeer(p)
  BY <1>2, Zenon DEF Shut, ToPeer
<1>3. ASSUME NEW c \in Call, NEW q \in Peer, NEW f \in Socket, Fresh(c, q, f), q # p
      PROVE  ToPeer(p)' \subseteq ToPeer(p)
  BY <1>3 DEF Fresh, ToPeer
<1>4. ASSUME NEW c \in Call, NEW f \in Socket, Fresh(c, p, f)
      PROVE  IsFiniteSet(ToPeer(p)') /\ Cardinality(ToPeer(p)') <= Cardinality(Call)
  BY <1>4, FreshIsWithin, Zenon
<1>5. ASSUME NEW c \in Call, NEW q \in Peer, FromPool(c, q) PROVE ToPeer(p)' \subseteq ToPeer(p)
  BY <1>1, <1>5, Zenon DEF FromPool
<1>6. ASSUME NEW c \in Call, Back(c) \/ GivesUp(c) \/ TakesBuffer(c)
      PROVE  ToPeer(p)' \subseteq ToPeer(p)
  BY <1>1, <1>6, Zenon DEF Back, GivesUp, TakesBuffer
<1>7. ASSUME Nothing PROVE ToPeer(p)' \subseteq ToPeer(p)
  BY <1>1, <1>7, Zenon DEF Nothing
<1> QED
  BY <1>2, <1>3, <1>4, <1>5, <1>6, <1>7, FewerAreWithin, Zenon DEF Moves, OfCall, OfPeer

-----------------------------------------------------------------------------
(* The theorems *)

(* At the start all buffers are free and there is no connection. *)
LEMMA InitInv == Init => Inv
<1> SUFFICES ASSUME Init PROVE Inv
  OBVIOUS
<1>0. Buffers \in Nat
  BY PeerClientAssumption
<1>1. \A c \in Call : call[c] = Idle
  BY DEF Init
<1>2. DOMAIN conn = {}
  BY DEF Init
<1>3. /\ free \in Seq(0 .. Buffers - 1) /\ DOMAIN free = 1 .. Buffers
      /\ \A i \in 1 .. Buffers : free[i] = Buffers - i
  BY <1>0 DEF Init
<1>4. IsInjective(free) /\ Range(free) = 0 .. Buffers - 1
  <2>1. IsInjective(free)
    BY <1>0, <1>3 DEF IsInjective
  <2>2. ASSUME NEW b \in 0 .. Buffers - 1 PROVE b \in Range(free)
    <3>1. Buffers - b \in 1 .. Buffers /\ Buffers - (Buffers - b) = b
      BY <1>0
    <3>2. Buffers - b \in DOMAIN free /\ free[Buffers - b] = b
      BY <1>3, <3>1
    <3> QED
      BY <3>2 DEF Range
  <2>3. ASSUME NEW b \in Range(free) PROVE b \in 0 .. Buffers - 1
    <3>1. PICK i \in 1 .. Buffers : b = Buffers - i
      BY <1>3 DEF Range
    <3> QED
      BY <1>0, <3>1
  <2> QED
    BY Zenon, <2>1, <2>2, <2>3
<1>5. \A p \in Peer : pool[p] = << >> /\ pool[p] \in Seq(Socket)
  BY DEF Init
<1>6. TypeInv
  <2>1. pool \in [Peer -> Seq(Socket)]
    BY <1>5 DEF Init
  <2>2. DOMAIN call = Call
    BY DEF Init
  <2>3. \A c \in Call :
          /\ CallFields \subseteq DOMAIN call[c]
          /\ call[c].fd \in Socket \cup {NoFd}
          /\ call[c].buffer \in (0 .. Buffers - 1) \cup {NoBuffer}
    BY <1>1 DEF Idle, CallFields
  <2> QED
    BY <1>2, <1>3, <2>1, <2>2, <2>3 DEF TypeInv
<1>7. \A p \in Peer : Range(pool[p]) = {} /\ IsInjective(pool[p])
  BY <1>5 DEF Range, IsInjective
<1>8. ConnectionsOwned
  <2>1. \A c \in Call : call[c].pc = "idle" /\ ~Held(c)
    BY <1>1 DEF Held, Idle
  <2> QED
    BY <1>2, <1>7, <2>1, ZenonT(60) DEF ConnectionsOwned
<1>9. BuffersOwned
  <2>1. \A c \in Call : call[c].buffer = NoBuffer
    BY <1>1 DEF Idle
  <2> QED
    BY <1>4, <2>1, Absence DEF BuffersOwned
<1> QED
  BY <1>6, <1>8, <1>9 DEF Inv

(* The invariant is inductive. *)
LEMMA StepInv == Inv /\ [Next]_vars => Inv'
BY StepMoves, MovesTyped, MovesOwned, MovesUsed, Zenon DEF Inv

(* For any number of peers, calls, sockets and buffers, whatever breaks or *)
(* restarts: an open connection to a peer belongs to one call or is once   *)
(* in the pool of its peer, and a call under way holds exactly one         *)
(* (peer_client.cpp 20-67, coordinator.cpp 149-160).                       *)
THEOREM OneOwner == Spec => []ConnectionsOwned
<1>1. Inv => ConnectionsOwned
  BY DEF Inv
<1> QED
  BY InitInv, StepInv, <1>1, PTL DEF Spec

(* And a registered buffer is on the free list once or in use by one call: *)
(* none leaks and none is given out twice (peer_client.cpp 82-98,          *)
(* buffer_pool.cpp 53-70).                                                 *)
THEOREM OneUserEach == Spec => []BuffersOwned
<1>1. Inv => BuffersOwned
  BY DEF Inv
<1> QED
  BY InitInv, StepInv, <1>1, PTL DEF Spec

(* However calls overlap and whatever fails, there are never more open     *)
(* connections to a peer than there can be calls at a time, though the     *)
(* pool has no limit (peer_client.cpp 20-36).                              *)
THEOREM PoolIsBounded == Spec => []PoolWithinPeak
<1>1. Init => PeakInv
  <2> SUFFICES ASSUME Init, NEW p \in Peer
               PROVE  IsFiniteSet(ToPeer(p)) /\ Cardinality(ToPeer(p)) <= Cardinality(Call)
    BY Zenon DEF PeakInv
  <2>1. ToPeer(p) = {}
    BY DEF Init, ToPeer
  <2>2. IsFiniteSet({}) /\ Cardinality({}) = 0
    BY FS_EmptySet, Zenon
  <2>3. Cardinality(Call) \in Nat
    BY FS_CardinalityType, PeerClientAssumption, Zenon
  <2> QED
    BY <2>1, <2>2, <2>3
<1>2. Inv /\ PeakInv /\ [Next]_vars => PeakInv'
  BY StepMoves, MovesWithin, Zenon DEF Inv
<1>3. PeakInv => PoolWithinPeak
  BY Zenon DEF PeakInv, PoolWithinPeak, ToPeer
<1> QED
  BY InitInv, StepInv, <1>1, <1>2, <1>3, PTL DEF Spec

(* For requests and values of any length, in whatever pieces they arrive,  *)
(* the peer's handler has read the beginning of one request and nothing    *)
(* else, and no request is served twice (coordinator.cpp 23-33,            *)
(* peer_client.cpp 69-73).                                                 *)
THEOREM RequestsArriveWhole == Spec => []RequestsIntact
<1>1. Inv /\ Inv' /\ StreamInv /\ [Next]_vars => StreamInv'
  BY Zenon, StepStream
<1> QED
  BY InitInv, StepInv, InitStream, <1>1, StreamsIntact, PTL DEF Spec

(* And a call that returns Ok or NotFound has read the whole response to   *)
(* its own request, which was served once, whoever used the connection     *)
(* before it (peer_client.cpp 69-110, coordinator.cpp 21-47).              *)
THEOREM AnswersAreOurs == Spec => AnswersMatch
<1>1. Inv /\ Inv' /\ StreamInv /\ [Next]_vars => StreamInv'
  BY Zenon, StepStream
<1>2. Inv /\ Inv' /\ StreamInv /\ [Next]_vars =>
        [\A c \in Call :
           call[c].pc \in {"header", "value"} /\ call'[c].pc = "idle" =>
              /\ HasRead(c) = ResponseUnits(Response(HasRead(c)))
              /\ Response(HasRead(c)).call = c
              /\ call[c].served = 1]_vars
  BY Zenon, StepStream DEF Answered
<1> QED
  BY InitInv, StepInv, InitStream, <1>1, <1>2, PTL DEF Spec, AnswersMatch
=============================================================================
