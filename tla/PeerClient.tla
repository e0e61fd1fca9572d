----------------------------- MODULE PeerClient -----------------------------
(***************************************************************************)
(* The connections between a node and its peers: the proxied calls of the  *)
(* node (coordinator.cpp proxy_to_peer), the pool of idle connections they *)
(* share (peer_client.cpp), the registered buffers responses are read into *)
(* (buffer_pool.cpp), and at the other end of each connection the peer's   *)
(* handle_connection.  A message is a sequence of units that TCP carries   *)
(* in order and hands over in pieces of any size (stream_utils.h); a peer  *)
(* may restart between any two pieces, or fall silent.                     *)
(***************************************************************************)
EXTENDS Integers, Sequences, FiniteSetsExt, Functions

CONSTANTS Peer, NoPeer,
          Call,        \* the handler coroutines of the node that may proxy
          Request,     \* the lengths of a request: [key : Nat, value : Nat]
          ValueLen,    \* the lengths of the value in a response
          HeaderLen,   \* sizeof(RequestHeader) = sizeof(ResponseHeader)
          KeyMod,      \* 2^16: key_len has 16 bits
          Buffers,     \* buffer_count of the BufferPool, 64 in main.cpp
          BufferSize,  \* its buffer_size, 65536 in main.cpp
          Socket,      \* the descriptors the process may have open to peers
          Unstable,    \* the peers that may stop and start
          Silent       \* the peers that may stop answering and keep running

ASSUME PeerClientAssumption ==
    /\ NoPeer \notin Peer
    /\ IsFiniteSet(Call)
    /\ Request \subseteq [key : 0 .. KeyMod - 1, value : Nat]
    /\ ValueLen \subseteq Nat
    /\ {HeaderLen, KeyMod} \subseteq Nat \ {0}
    /\ {Buffers, BufferSize} \subseteq Nat
    /\ Socket \subseteq Nat
    /\ Unstable \subseteq Peer /\ Silent \subseteq Peer

VARIABLES up,      \* the peers that run
          pool,    \* conn_pool_: the idle connections to each peer
          free,    \* free_list_, its back last
          call,    \* call[c]: where the proxied call of c stands
          conn     \* the connections, by descriptor

vars == <<up, pool, free, call, conn>>

NoFd == -1
NoBuffer == -1

-----------------------------------------------------------------------------
(* Messages.  call says whose request a message is or answers; it is not   *)
(* on the wire, it lets the properties tell messages apart.                *)

Units(msg, len) == [i \in 1 .. len |-> [msg |-> msg, at |-> i]]

(* serialize_request: the header, which names the lengths, key and value. *)
RequestUnits(msg) == Units(msg, HeaderLen + msg.key + msg.value)

(* Mutant of PayloadLen: the key is not counted. *)
PayloadLenNoKey(header) == header.msg.value

(* What the header of a request says follows it. *)
PayloadLen(header) == (header.msg.key % KeyMod) + header.msg.value

(* write_response: the header and the value. *)
ResponseUnits(msg) == Units(msg, HeaderLen + msg.value)

-----------------------------------------------------------------------------
(* State of a call, of a connection, and of the peer's handler on it *)

(* served is history: how often the peer has served the call's request. *)
Idle ==
    [pc |-> "idle", peer |-> NoPeer, fd |-> NoFd, buffer |-> NoBuffer,
     todo |-> << >>, got |-> << >>, served |-> 0]

Reading == [pc |-> "read", got |-> << >>, todo |-> << >>]

Opened(p) ==
    [peer |-> p, alive |-> FALSE, out |-> << >>, in |-> << >>,
     handler |-> Reading]

(* close().  The peer's handler reads the end of the stream and ends too:  *)
(* a call closes only after the peer has answered or has gone.             *)
Closed(f) == [g \in DOMAIN conn \ {f} |-> conn[g]]

Init ==
    /\ up = Peer
    /\ pool = [p \in Peer |-> << >>]
    /\ free = [i \in 1 .. Buffers |-> Buffers - i]
    /\ call = [c \in Call |-> Idle]
    /\ conn = << >>

-----------------------------------------------------------------------------
(* A proxied call: PeerClient::acquire *)

(* A call of c to p with a request r begins. *)
Begins(c, p, r, fd, pc) ==
    /\ call[c].pc = "idle"
    /\ call' = [call EXCEPT ![c] =
         [Idle EXCEPT !.pc = pc, !.peer = p, !.fd = fd,
            !.todo = RequestUnits([call |-> c, key |-> r.key, value |-> r.value])]]

(* The connection that has been idle longest is taken. *)
AcquirePooled(c, p, r) ==
    /\ pool[p] # << >>
    /\ Begins(c, p, r, Head(pool[p]), "write")
    /\ pool' = [pool EXCEPT ![p] = Tail(@)]
    /\ UNCHANGED <<up, free, conn>>

(* Mutant of OpenConnection: the pool is not asked first. *)
OpenAlways(c, p, r) ==
    /\ \E f \in Socket \ DOMAIN conn :
         /\ \A g \in Socket \ DOMAIN conn : f <= g
         /\ Begins(c, p, r, f, "connect")
         /\ conn' = [g \in DOMAIN conn \cup {f} |-> IF g = f THEN Opened(p) ELSE conn[g]]
    /\ UNCHANGED <<up, pool, free>>

(* open_connection up to its suspension in async_connect.  Where socket()  *)
(* or inet_pton fails the call is over at once and nothing has changed.    *)
OpenConnection(c, p, r) ==
    /\ pool[p] = << >>
    /\ \E f \in Socket \ DOMAIN conn :
         /\ \A g \in Socket \ DOMAIN conn : f <= g
         /\ Begins(c, p, r, f, "connect")
         /\ conn' = [g \in DOMAIN conn \cup {f} |-> IF g = f THEN Opened(p) ELSE conn[g]]
    /\ UNCHANGED <<up, pool, free>>

(* The peer accepts: its listener starts a handler for the connection. *)
Connected(c) ==
    /\ call[c].pc = "connect" /\ call[c].peer \in up
    /\ call' = [call EXCEPT ![c].pc = "write"]
    /\ conn' = [conn EXCEPT ![call[c].fd].alive = TRUE]
    /\ UNCHANGED <<up, pool, free>>

ConnectRefused(c) ==
    /\ call[c].pc = "connect" /\ call[c].peer \notin up
    /\ call' = [call EXCEPT ![c] = Idle]
    /\ conn' = Closed(call[c].fd)
    /\ UNCHANGED <<up, pool, free>>

-----------------------------------------------------------------------------
(* PeerClient::send_request and the end of proxy_to_peer *)

(* One async_write of write_all.  What is written to a peer that is gone   *)
(* may still be accepted.                                                  *)
Write(c) ==
    LET f == call[c].fd
    IN  /\ call[c].pc = "write"
        /\ \E n \in 1 .. Len(call[c].todo) :
             /\ call' = [call EXCEPT ![c].todo = SubSeq(@, n + 1, Len(@)),
                           ![c].pc = IF n = Len(call[c].todo) THEN "header" ELSE @]
             /\ conn' = IF conn[f].alive
                        THEN [conn EXCEPT ![f].out = @ \o SubSeq(call[c].todo, 1, n)]
                        ELSE conn
        /\ UNCHANGED <<up, pool, free>>

(* The response whose header has been read. *)
Response(got) == got[1].msg

(* Mutant of Wanted: no more is read than a buffer holds. *)
WantedUpToBuffer(c) ==
    IF call[c].pc = "header" THEN HeaderLen - Len(call[c].got)
    ELSE Min({HeaderLen + Response(call[c].got).value, HeaderLen + BufferSize})
           - Len(call[c].got)

(* What is still to be read of the header, or of the value. *)
Wanted(c) ==
    (IF call[c].pc = "header" THEN HeaderLen
     ELSE HeaderLen + Response(call[c].got).value) - Len(call[c].got)

(* BufferPool::acquire and release: the free list is a stack. *)
Fits(len) == free # << >> /\ BufferSize >= len

Released(b) == IF b = NoBuffer THEN free ELSE Append(free, b)

(* Mutant of Finish: an Error is passed on and the connection forgotten. *)
FinishForgets(c, got) ==
    /\ free' = Released(call[c].buffer)
    /\ call' = [call EXCEPT ![c] = Idle]
    /\ pool' = IF Response(got).status = "Error" THEN pool
               ELSE [pool EXCEPT ![call[c].peer] = Append(@, call[c].fd)]

(* The response is complete: the buffer goes back, and the connection too  *)
(* unless the peer answered Error.                                         *)
Finish(c, got) ==
    /\ free' = Released(call[c].buffer)
    /\ IF Response(got).status = "Error"
       THEN /\ call' = [call EXCEPT ![c].pc = "close", ![c].buffer = NoBuffer,
                                    ![c].got = << >>]
            /\ UNCHANGED pool
       ELSE /\ call' = [call EXCEPT ![c] = Idle]
            /\ pool' = [pool EXCEPT ![call[c].peer] = Append(@, call[c].fd)]

(* Mutant of ReadValue: the call waits until a buffer is free. *)
ReadValueWaits(c, got) ==
    /\ free # << >>
    /\ call' = [call EXCEPT ![c].pc = "value", ![c].got = got, ![c].buffer = free[Len(free)]]
    /\ free' = SubSeq(free, 1, Len(free) - 1)
    /\ UNCHANGED pool

(* The header announces a value: a buffer is used if one is free and large *)
(* enough, the heap otherwise.                                             *)
ReadValue(c, got) ==
    LET fits == Fits(Response(got).value)
    IN  /\ call' = [call EXCEPT ![c].pc = "value", ![c].got = got,
                                ![c].buffer = IF fits THEN free[Len(free)] ELSE NoBuffer]
        /\ free' = IF fits THEN SubSeq(free, 1, Len(free) - 1) ELSE free
        /\ UNCHANGED pool

(* One async_read of read_exact. *)
Read(c) ==
    LET f == call[c].fd
    IN  /\ call[c].pc \in {"header", "value"}
        /\ \E n \in 1 .. Len(conn[f].in) :
             LET got == call[c].got \o SubSeq(conn[f].in, 1, n)
             IN  /\ n <= Wanted(c)
                 /\ conn' = [conn EXCEPT ![f].in = SubSeq(@, n + 1, Len(@))]
                 /\ IF n < Wanted(c)
                    THEN /\ call' = [call EXCEPT ![c].got = got]
                         /\ UNCHANGED <<pool, free>>
                    ELSE IF call[c].pc = "header" /\ Response(got).value > 0
                    THEN ReadValue(c, got)
                    ELSE Finish(c, got)
        /\ UNCHANGED up

(* Mutant of Break: the buffer is not given back. *)
BreakKeepsBuffer(c) ==
    /\ call[c].pc \in {"write", "header", "value"}
    /\ ~conn[call[c].fd].alive
    /\ call' = [call EXCEPT ![c].pc = "broken", ![c].buffer = NoBuffer,
                            ![c].todo = << >>, ![c].got = << >>]
    /\ UNCHANGED <<up, pool, free, conn>>

(* A write or read on a connection the peer has left fails. *)
Break(c) ==
    /\ call[c].pc \in {"write", "header", "value"}
    /\ ~conn[call[c].fd].alive
    /\ free' = Released(call[c].buffer)
    /\ call' = [call EXCEPT ![c].pc = "broken", ![c].buffer = NoBuffer,
                            ![c].todo = << >>, ![c].got = << >>]
    /\ UNCHANGED <<up, pool, conn>>

(* Mutant of Close: the connection goes back to the pool, broken or not. *)
CloseToPool(c) ==
    /\ call[c].pc \in {"close", "broken"}
    /\ call' = [call EXCEPT ![c] = Idle]
    /\ pool' = [pool EXCEPT ![call[c].peer] = Append(@, call[c].fd)]
    /\ UNCHANGED <<up, free, conn>>

(* The async_close of proxy_to_peer. *)
Close(c) ==
    /\ call[c].pc \in {"close", "broken"}
    /\ call' = [call EXCEPT ![c] = Idle]
    /\ conn' = Closed(call[c].fd)
    /\ UNCHANGED <<up, pool, free>>

-----------------------------------------------------------------------------
(* Coordinator::handle_connection at the peer, on connection f *)

RequestWanted(got) ==
    (IF Len(got) < HeaderLen THEN HeaderLen ELSE HeaderLen + PayloadLen(got[1]))
      - Len(got)

(* The request msg is complete: the peer serves it.  NotFound is to the    *)
(* connection what Ok without a value is.                                  *)
Serve(f, msg, rest) ==
    /\ \E status \in {"Ok", "Error"}, len \in ValueLen :
         /\ status # "Ok" => len = 0
         /\ conn' = [conn EXCEPT ![f].out = rest, ![f].handler =
              [pc |-> "write", got |-> << >>,
               todo |-> ResponseUnits([call |-> msg.call, status |-> status, value |-> len])]]
    /\ call' = [call EXCEPT ![msg.call].served = @ + 1]

(* One async_read; the last one of a request leads to its being served. *)
HandlerRead(f) ==
    LET h == conn[f].handler
    IN  /\ conn[f].alive /\ h.pc = "read"
        /\ \E n \in 1 .. Len(conn[f].out) :
             LET got == h.got \o SubSeq(conn[f].out, 1, n)
                 rest == SubSeq(conn[f].out, n + 1, Len(conn[f].out))
             IN  /\ n <= RequestWanted(h.got)
                 /\ IF RequestWanted(got) > 0
                    THEN /\ conn' = [conn EXCEPT ![f].out = rest, ![f].handler.got = got]
                         /\ UNCHANGED call
                    ELSE Serve(f, got[1].msg, rest)
        /\ UNCHANGED <<up, pool, free>>

(* One async_write of write_response. *)
HandlerWrite(f) ==
    LET h == conn[f].handler
    IN  /\ conn[f].alive /\ h.pc = "write"
        /\ \E n \in 1 .. Len(h.todo) :
             conn' = [conn EXCEPT
               ![f].in = @ \o SubSeq(h.todo, 1, n),
               ![f].handler = IF n = Len(h.todo) THEN Reading
                              ELSE [h EXCEPT !.todo = SubSeq(@, n + 1, Len(@))]]
        /\ UNCHANGED <<up, pool, free, call>>

-----------------------------------------------------------------------------
(* The peers *)

(* A peer stops, its handlers with it; what it has sent may still arrive. *)
Stop(p) ==
    /\ p \in up \cap Unstable
    /\ up' = up \ {p}
    /\ conn' = [f \in DOMAIN conn |->
                  IF conn[f].peer # p THEN conn[f]
                  ELSE [conn[f] EXCEPT !.alive = FALSE, !.out = << >>,
                                       !.handler = Reading]]
    /\ UNCHANGED <<pool, free, call>>

Start(p) ==
    /\ p \notin up
    /\ up' = up \cup {p}
    /\ UNCHANGED <<pool, free, call, conn>>

Handler(f) == HandlerRead(f) \/ HandlerWrite(f)

CallStep(c) ==
    \/ Connected(c) \/ ConnectRefused(c)
    \/ Write(c) \/ Read(c) \/ Break(c) \/ Close(c)

Next ==
    \/ \E c \in Call, p \in Peer :
         \E r \in Request : AcquirePooled(c, p, r) \/ OpenConnection(c, p, r)
    \/ \E c \in Call : CallStep(c)
    \/ \E f \in DOMAIN conn : Handler(f)
    \/ \E p \in Peer : Stop(p) \/ Start(p)

Spec == Init /\ [][Next]_vars

(* The event loops of the node and of the peers that are not silent resume *)
(* every coroutine whose read or write is complete.                        *)
Fairness ==
    /\ \A c \in Call : WF_vars(CallStep(c))
    /\ \A f \in Socket :
         WF_vars(f \in DOMAIN conn /\ conn[f].peer \notin Silent /\ Handler(f))

FairSpec == Spec /\ Fairness

-----------------------------------------------------------------------------
(* Properties *)

Held(c) == call[c].fd # NoFd

(* A connection is never in two hands and never lost: a proxied call holds *)
(* one as long as it is under way, open, to its own peer, held by no other *)
(* call and in no pool; a pool holds open connections to its peer, each    *)
(* once; and every open connection is held or pooled, so that every path   *)
(* through send_request gives it back or closes it (peer_client.cpp 20-67, *)
(* coordinator.cpp 149-160).                                               *)
ConnectionsOwned ==
    /\ \A c \in Call : Held(c) <=> call[c].pc # "idle"
    /\ \A c \in Call : Held(c) =>
         /\ call[c].fd \in DOMAIN conn /\ conn[call[c].fd].peer = call[c].peer
         /\ \A d \in Call \ {c} : call[d].fd # call[c].fd
         /\ \A p \in Peer : call[c].fd \notin Range(pool[p])
    /\ \A p \in Peer :
         /\ IsInjective(pool[p])
         /\ \A f \in Range(pool[p]) : f \in DOMAIN conn /\ conn[f].peer = p
    /\ \A f \in DOMAIN conn :
         (\E c \in Call : call[c].fd = f) \/ f \in Range(pool[conn[f].peer])

(* Likewise every registered buffer is on the free list once, or in use by *)
(* one call, which is reading a value, also when a read fails half-way     *)
(* (peer_client.cpp 82-98, buffer_pool.cpp 53-70).                         *)
BuffersOwned ==
    /\ \A c \in Call : call[c].buffer # NoBuffer => call[c].pc = "value"
    /\ IsInjective(free)
    /\ \A b \in 0 .. Buffers - 1 :
         IF b \in Range(free) THEN \A c \in Call : call[c].buffer # b
         ELSE \E c \in Call : /\ call[c].buffer = b
                              /\ \A d \in Call \ {c} : call[d].buffer # b

(* What c has read of a response once the step is done. *)
HasRead(c) ==
    LET in == conn[call[c].fd].in
    IN  call[c].got \o SubSeq(in, 1, Len(in) - Len(conn'[call[c].fd].in))

(* Whatever the pieces in which TCP delivers and whoever used the          *)
(* connection before, a call that returns Ok or NotFound has read the      *)
(* whole response to its own request and nothing else, and the peer has    *)
(* served that request exactly once (peer_client.cpp 69-110,               *)
(* coordinator.cpp 21-47).                                                 *)
AnswersMatch ==
    [][\A c \in Call :
         call[c].pc \in {"header", "value"} /\ call'[c].pc = "idle" =>
            /\ HasRead(c) = ResponseUnits(Response(HasRead(c)))
            /\ Response(HasRead(c)).call = c
            /\ call[c].served = 1]_vars

(* The peer reads requests as they were sent, and serves none twice: what  *)
(* its handler has read is the beginning of one request (coordinator.cpp   *)
(* 23-33, peer_client.cpp 69-73).                                          *)
RequestsIntact ==
    /\ \A c \in Call : call[c].served <= 1
    /\ \A f \in DOMAIN conn : conn[f].alive =>
         LET got == conn[f].handler.got
             asked == RequestUnits(got[1].msg)
         IN  got # << >> => Len(got) <= Len(asked) /\ got = SubSeq(asked, 1, Len(got))

(* The pool has no limit of its own, but a connection is opened only when  *)
(* all others to the peer are in use: there are never more of them than    *)
(* calls that can be under way (peer_client.cpp 20-36).                    *)
PoolWithinPeak ==
    \A p \in Peer :
        Cardinality({f \in DOMAIN conn : conn[f].peer = p}) <= Cardinality(Call)

(* A call to a peer that answers comes to its end, though the calls to a   *)
(* silent peer never do and keep their connections and buffers             *)
(* (peer_client.cpp 82-98: without a buffer the value is read to the heap).*)
CallsEnd ==
    \A c \in Call :
        call[c].pc # "idle" /\ call[c].peer \notin Silent ~> call[c].pc = "idle"

(* The connections that the restart of a peer left broken in the pool are  *)
(* used up: once the peer keeps running, calls to it cease to fail         *)
(* (peer_client.cpp 24-27, coordinator.cpp 154-159).                       *)
FailuresCease ==
    \A p \in Peer :
        <>[](p \in up)
          => <>[](\A c \in Call : call[c].peer = p => call[c].pc # "broken")
=============================================================================
