--------------------------- MODULE PeerClientInv ---------------------------
(***************************************************************************)
(* The inductive invariant of PeerClient: connections and buffers have one *)
(* owner (Inv), and of the request under way on a connection, and then of  *)
(* its response, every unit is in one place, in order, between the writer  *)
(* and the reader (StreamInv).                                             *)
(***************************************************************************)
EXTENDS PeerClient

CallFields == {"pc", "peer", "fd", "buffer"}

(* What the proofs need to know of the shape of a state. *)
TypeInv ==
    /\ pool \in [Peer -> Seq(Socket)]
    /\ free \in Seq(0 .. Buffers - 1)
    /\ DOMAIN conn \subseteq Socket
    /\ \A f \in DOMAIN conn : "peer" \in DOMAIN conn[f] /\ conn[f].peer \in Peer
    /\ DOMAIN call = Call
    /\ \A c \in Call :
         /\ CallFields \subseteq DOMAIN call[c]
         /\ call[c].fd \in Socket \cup {NoFd}
         /\ call[c].buffer \in (0 .. Buffers - 1) \cup {NoBuffer}

Inv == TypeInv /\ ConnectionsOwned /\ BuffersOwned

-----------------------------------------------------------------------------
(* Messages under way *)

Unit(m, i) == [msg |-> m, at |-> i]

(* The units a + 1 to b of the message m. *)
Seg(m, a, b) == [i \in 1 .. b - a |-> Unit(m, a + i)]

(* s is that part of m. *)
Part(s, m, a, b) == a \in Nat /\ b \in Nat /\ a <= b /\ s = Seg(m, a, b)

Asked(c) == {[call |-> c, key |-> r.key, value |-> r.value] : r \in Request}

Answers(c) == [call : {c}, status : {"Ok", "Error"}, value : ValueLen]

AskLen(m) == HeaderLen + m.key + m.value

AnswerLen(m) == HeaderLen + m.value

(* The peer waits for a request. *)
Waits(k) == k.handler.pc = "read" /\ k.handler.got = << >>

(* Nothing is under way on the connection k. *)
Quiet(k) == k.in = << >> /\ (k.alive => k.out = << >> /\ Waits(k))

(* The call x has written its request m up to b, of which the peer has     *)
(* read a.                                                                 *)
Asking(x, k, m, a, b) ==
    /\ x.served = 0 /\ x.got = << >> /\ k.in = << >>
    /\ Part(x.todo, m, b, AskLen(m))
    /\ x.pc = "connect" => b = 0 /\ ~k.alive
    /\ x.pc = "write" => b < AskLen(m)
    /\ x.pc = "header" => b = AskLen(m)
    /\ k.alive => /\ Part(k.out, m, a, b) /\ a < AskLen(m)
                  /\ k.handler.pc = "read" /\ Part(k.handler.got, m, 0, a)

(* The peer has served the request of x and written its answer m up to b,  *)
(* of which the call has read a.                                           *)
Answering(x, k, m, a, b) ==
    /\ x.served = 1 /\ Part(x.got, m, 0, a) /\ Part(k.in, m, a, b)
    /\ x.pc = "header" => a < HeaderLen
    /\ x.pc = "value" => HeaderLen <= a /\ a < AnswerLen(m)
    /\ k.alive => /\ k.out = << >> /\ k.handler.got = << >>
                  /\ IF b = AnswerLen(m) THEN k.handler.pc = "read"
                     ELSE /\ k.handler.pc = "write"
                          /\ Part(k.handler.todo, m, b, AnswerLen(m))

Phase(c, x, k) ==
    \/ /\ x.pc \in {"connect", "write", "header"}
       /\ \E m \in Asked(c) : \E a, b \in 0 .. AskLen(m) : Asking(x, k, m, a, b)
    \/ /\ x.pc \in {"header", "value"}
       /\ \E m \in Answers(c) : \E a, b \in 0 .. AnswerLen(m) : Answering(x, k, m, a, b)
    \/ x.pc = "close" /\ x.served = 1 /\ Quiet(k)
    \/ x.pc = "broken" /\ x.served \in 0 .. 1 /\ ~k.alive

IsCall(x) ==
    /\ DOMAIN x = {"pc", "peer", "fd", "buffer", "todo", "got", "served"}
    /\ x.pc = "idle" => x.served = 0

IsConn(k) ==
    /\ DOMAIN k = {"peer", "alive", "out", "in", "handler"}
    /\ DOMAIN k.handler = {"pc", "got", "todo"}
    /\ k.alive \in BOOLEAN
    /\ ~k.alive => k.out = << >> /\ Waits(k)

StreamInv ==
    /\ \A c \in Call : IsCall(call[c])
    /\ \A f \in DOMAIN conn : IsConn(conn[f])
    /\ \A c \in Call : call[c].pc # "idle" => Phase(c, call[c], conn[call[c].fd])
    /\ \A p \in Peer : \A f \in Range(pool[p]) : Quiet(conn[f])
=============================================================================
