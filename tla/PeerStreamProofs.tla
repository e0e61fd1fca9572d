-------------------------- MODULE PeerStreamProofs --------------------------
(***************************************************************************)
(* The messages on the connections of PeerClient.tla: a step of a call, or *)
(* of the peer's handler, moves some units of one message from its writer  *)
(* to the connection or from the connection to its reader (StreamInv), if  *)
(* connections have one owner (Inv).  PeerClientProofs.tla draws the       *)
(* conclusions.                                                            *)
(***************************************************************************)
EXTENDS PeerClientInv, TLAPS

-----------------------------------------------------------------------------
(* Parts of messages *)

(* What is in which place of two sequences put together, *)
LEMMA Joined ==
    ASSUME NEW S, NEW s \in Seq(S), NEW t \in Seq(S)
    PROVE  /\ s \o t \in Seq(S) /\ Len(s \o t) = Len(s) + Len(t)
           /\ \A i \in 1 .. Len(s) + Len(t) :
                (s \o t)[i] = IF i <= Len(s) THEN s[i] ELSE t[i - Len(s)]
OBVIOUS

(* and of a sequence with one more element. *)
LEMMA Appended ==
    ASSUME NEW S, NEW s \in Seq(S), NEW x \in S
    PROVE  /\ Append(s, x) \in Seq(S)
           /\ Len(s) \in Nat /\ DOMAIN s = 1 .. Len(s)
           /\ DOMAIN Append(s, x) = 1 .. Len(s) + 1
           /\ Append(s, x)[Len(s) + 1] = x
           /\ \A i \in 1 .. Len(s) : Append(s, x)[i] = s[i]
OBVIOUS

(* Sequences with the same elements in the same places. *)
LEMMA SameElements ==
    ASSUME NEW S, NEW s \in Seq(S), NEW t \in Seq(S), Len(s) = Len(t),
           \A i \in 1 .. Len(s) : s[i] = t[i]
    PROVE  s = t
OBVIOUS

(* A part of a message as a sequence. *)
LEMMA SegIs ==
    ASSUME NEW m, NEW a \in Nat, NEW b \in Nat, a <= b
    PROVE  /\ Seg(m, a, b) \in Seq({Unit(m, j) : j \in Nat})
           /\ Len(Seg(m, a, b)) = b - a
           /\ \A i \in 1 .. b - a : Seg(m, a, b)[i] = Unit(m, a + i)
BY DEF Seg

(* An empty part. *)
LEMMA SegEmpty ==
    ASSUME NEW m, NEW a \in Nat, NEW b \in Nat, a <= b
    PROVE  Seg(m, a, b) = << >> <=> a = b
<1>1. Seg(m, a, b) \in Seq({Unit(m, j) : j \in Nat}) /\ Len(Seg(m, a, b)) = b - a
  BY Zenon, SegIs
<1> QED
  BY <1>1

(* Two parts that follow each other. *)
LEMMA SegJoin ==
    ASSUME NEW m, NEW a \in Nat, NEW b \in Nat, NEW d \in Nat, a <= b, b <= d
    PROVE  Seg(m, a, b) \o Seg(m, b, d) = Seg(m, a, d)
<1> DEFINE S == {Unit(m, j) : j \in Nat}
           s == Seg(m, a, b)
           t == Seg(m, b, d)
           u == Seg(m, a, d)
<1>1. s \in Seq(S) /\ Len(s) = b - a /\ \A i \in 1 .. b - a : s[i] = Unit(m, a + i)
  BY Zenon, SegIs
<1>2. t \in Seq(S) /\ Len(t) = d - b /\ \A i \in 1 .. d - b : t[i] = Unit(m, b + i)
  BY Zenon, SegIs
<1>3. u \in Seq(S) /\ Len(u) = d - a /\ \A i \in 1 .. d - a : u[i] = Unit(m, a + i)
  <2>1. a <= d
    OBVIOUS
  <2> QED
    BY Zenon, <2>1, SegIs
<1> HIDE DEF s, t, u, S
<1>4. /\ s \o t \in Seq(S) /\ Len(s \o t) = d - a
      /\ \A i \in 1 .. d - a : (s \o t)[i] = IF i <= b - a THEN s[i] ELSE t[i - (b - a)]
  <2>1. /\ s \o t \in Seq(S) /\ Len(s \o t) = Len(s) + Len(t)
        /\ \A i \in 1 .. Len(s) + Len(t) :
             (s \o t)[i] = IF i <= Len(s) THEN s[i] ELSE t[i - Len(s)]
    BY Zenon, <1>1, <1>2, Joined
  <2>2. Len(s) + Len(t) = d - a
    BY <1>1, <1>2
  <2> QED
    BY <1>1, <2>1, <2>2
<1>5. \A i \in 1 .. d - a : (s \o t)[i] = u[i]
  <2> SUFFICES ASSUME NEW i \in 1 .. d - a PROVE (s \o t)[i] = u[i]
    BY Zenon
  <2>1. CASE i <= b - a
    <3>1. i \in 1 .. b - a /\ (s \o t)[i] = s[i]
      BY <1>4, <2>1
    <3> QED
      BY <1>1, <1>3, <3>1
  <2>2. CASE i > b - a
    <3>1. i - (b - a) \in 1 .. d - b /\ (s \o t)[i] = t[i - (b - a)] /\ b + (i - (b - a)) = a + i
      BY <1>4, <2>2
    <3> QED
      BY <1>2, <1>3, <3>1
  <2>3. i <= b - a \/ i > b - a
    OBVIOUS
  <2> QED
    BY Zenon, <2>1, <2>2, <2>3
<1>6. s \o t = u
  BY Zenon, <1>3, <1>4, <1>5, SameElements
<1> QED
  BY <1>6 DEF s, t, u

(* The first unit of a message names it. *)
LEMMA SegFirst ==
    ASSUME NEW m, NEW b \in Nat, 0 < b
    PROVE  Seg(m, 0, b) # << >> /\ Seg(m, 0, b)[1].msg = m
<1>1. Seg(m, 0, b)[1] = Unit(m, 1)
  BY DEF Seg
<1>2. Seg(m, 0, b) # << >>
  BY SegEmpty
<1> QED
  BY <1>1, <1>2 DEF Unit

(* A part without units. *)
LEMMA EmptyPart ==
    /\ \A m : \A a \in Nat : Part(<< >>, m, a, a)
    /\ \A s, m, a, b : Part(s, m, a, b) => (s = << >> <=> a = b)
<1>1. ASSUME NEW m, NEW a \in Nat PROVE Part(<< >>, m, a, a)
  <2>1. a <= a
    OBVIOUS
  <2> QED
    BY Zenon, <2>1, SegEmpty DEF Part
<1>2. ASSUME NEW s, NEW m, NEW a, NEW b, Part(s, m, a, b) PROVE s = << >> <=> a = b
  BY Zenon, <1>2, SegEmpty DEF Part
<1> QED
  BY Zenon, <1>1, <1>2

(* When nothing is left of a part. *)
LEMMA NoneLeft ==
    ASSUME NEW s, NEW m, NEW a, NEW b, Part(s, m, a, b), a = b
    PROVE  s = << >>
BY Zenon, EmptyPart

(* Cutting a part in two. *)
LEMMA Split ==
    ASSUME NEW s, NEW m, NEW a, NEW b, Part(s, m, a, b)
    PROVE  /\ Len(s) = b - a
           /\ \A n \in 1 .. Len(s) :
                /\ Part(SubSeq(s, 1, n), m, a, a + n)
                /\ Part(SubSeq(s, n + 1, Len(s)), m, a + n, b)
<1> DEFINE S == {Unit(m, j) : j \in Nat}
<1>0. a \in Nat /\ b \in Nat /\ a <= b
  BY Zenon DEF Part
<1>1. s \in Seq(S) /\ Len(s) = b - a /\ \A i \in 1 .. b - a : s[i] = Unit(m, a + i)
  BY Zenon, <1>0, SegIs DEF Part
<1>2. ASSUME NEW n \in 1 .. Len(s)
      PROVE  /\ Part(SubSeq(s, 1, n), m, a, a + n)
             /\ Part(SubSeq(s, n + 1, Len(s)), m, a + n, b)
  <2>0. a + n \in Nat /\ a <= a + n /\ a + n <= b
    BY <1>0, <1>1
  <2>1. /\ Seg(m, a, a + n) \in Seq(S) /\ Len(Seg(m, a, a + n)) = n
        /\ \A i \in 1 .. n : Seg(m, a, a + n)[i] = Unit(m, a + i)
    BY <1>0 DEF Seg
  <2>2. /\ Seg(m, a + n, b) \in Seq(S) /\ Len(Seg(m, a + n, b)) = b - (a + n)
        /\ \A i \in 1 .. b - (a + n) : Seg(m, a + n, b)[i] = Unit(m, a + n + i)
    BY Zenon, <1>0, <2>0, SegIs
  <2> HIDE DEF S
  <2>3. SubSeq(s, 1, n) \in Seq(S) /\ Len(SubSeq(s, 1, n)) = n
        /\ \A i \in 1 .. n : SubSeq(s, 1, n)[i] = s[i]
    BY <1>1
  <2>4. /\ SubSeq(s, n + 1, Len(s)) \in Seq(S)
        /\ Len(SubSeq(s, n + 1, Len(s))) = b - (a + n)
        /\ \A i \in 1 .. b - (a + n) : SubSeq(s, n + 1, Len(s))[i] = s[i + n]
    BY <1>0, <1>1, <2>0
  <2>5. SubSeq(s, 1, n) = Seg(m, a, a + n)
    <3>1. \A i \in 1 .. n : SubSeq(s, 1, n)[i] = Seg(m, a, a + n)[i]
      <4> SUFFICES ASSUME NEW i \in 1 .. n PROVE SubSeq(s, 1, n)[i] = Seg(m, a, a + n)[i]
        OBVIOUS
      <4>1. i \in 1 .. b - a
        BY <1>0, <1>1
      <4> QED
        BY <1>1, <2>1, <2>3, <4>1
    <3> QED
      BY <2>1, <2>3, <3>1, SameElements
  <2>6. SubSeq(s, n + 1, Len(s)) = Seg(m, a + n, b)
    <3>1. \A i \in 1 .. b - (a + n) : SubSeq(s, n + 1, Len(s))[i] = Seg(m, a + n, b)[i]
      <4> SUFFICES ASSUME NEW i \in 1 .. b - (a + n)
                   PROVE  SubSeq(s, n + 1, Len(s))[i] = Seg(m, a + n, b)[i]
        BY Zenon
      <4>1. i + n \in 1 .. b - a /\ a + (i + n) = a + n + i
        BY <1>0, <1>1
      <4> QED
        BY <1>1, <2>2, <2>4, <4>1
    <3> QED
      BY Zenon, <2>2, <2>4, <3>1, SameElements
  <2> QED
    BY Zenon, <1>0, <2>0, <2>5, <2>6 DEF Part
<1> QED
  BY Zenon, <1>1, <1>2

(* The length of a beginning. *)
LEMMA BeginningLen ==
    ASSUME NEW s, NEW m, NEW b, Part(s, m, 0, b)
    PROVE  Len(s) = b
<1>1. b \in Nat /\ Len(s) = b - 0
  BY Split DEF Part
<1> QED
  BY <1>1

(* Joining two parts. *)
LEMMA Join ==
    ASSUME NEW s, NEW t, NEW m, NEW a, NEW b, NEW d, Part(s, m, a, b), Part(t, m, b, d)
    PROVE  Part(s \o t, m, a, d)
<1>1. a \in Nat /\ b \in Nat /\ a <= b /\ s = Seg(m, a, b)
  BY Zenon DEF Part
<1>2. d \in Nat /\ b <= d /\ t = Seg(m, b, d)
  BY Zenon DEF Part
<1>3. s \o t = Seg(m, a, d)
  BY Zenon, <1>1, <1>2, SegJoin
<1>4. a <= d
  BY <1>1, <1>2
<1> QED
  BY Zenon, <1>1, <1>2, <1>3, <1>4 DEF Part

(* The first unit names the message. *)
LEMMA First ==
    ASSUME NEW s, NEW m, NEW b, Part(s, m, 0, b), 0 < b
    PROVE  s[1].msg = m
BY Zenon, SegFirst DEF Part

(* The lengths of messages. *)
LEMMA Lengths ==
    /\ HeaderLen \in Nat /\ HeaderLen > 0
    /\ \A c : \A m \in Asked(c) :
         /\ m.call = c /\ m.key \in Nat /\ m.value \in Nat /\ m.key % KeyMod = m.key
         /\ AskLen(m) \in Nat /\ AskLen(m) >= HeaderLen
         /\ RequestUnits(m) = Seg(m, 0, AskLen(m))
    /\ \A c : \A m \in Answers(c) :
         /\ m.call = c /\ m.value \in Nat
         /\ AnswerLen(m) \in Nat /\ AnswerLen(m) >= HeaderLen
         /\ ResponseUnits(m) = Seg(m, 0, AnswerLen(m))
<1>1. HeaderLen \in Nat /\ HeaderLen > 0 /\ KeyMod \in Nat /\ KeyMod > 0
  BY PeerClientAssumption
<1>2. ASSUME NEW m, NEW b \in Nat PROVE Units(m, b) = Seg(m, 0, b)
  BY DEF Units, Seg, Unit
<1>3. ASSUME NEW c, NEW m \in Asked(c)
      PROVE  /\ m.call = c /\ m.key \in Nat /\ m.value \in Nat /\ m.key % KeyMod = m.key
             /\ AskLen(m) \in Nat /\ AskLen(m) >= HeaderLen
             /\ RequestUnits(m) = Seg(m, 0, AskLen(m))
  <2>1. PICK r \in Request : m = [call |-> c, key |-> r.key, value |-> r.value]
    BY DEF Asked
  <2>2. r.key \in 0 .. KeyMod - 1 /\ r.value \in Nat
    BY PeerClientAssumption
  <2>3. m.call = c /\ m.key = r.key /\ m.value = r.value
    BY <2>1
  <2>4. m.key % KeyMod = m.key
    BY <1>1, <2>2, <2>3
  <2>5. AskLen(m) \in Nat /\ AskLen(m) >= HeaderLen
    BY <1>1, <2>2, <2>3 DEF AskLen
  <2>6. RequestUnits(m) = Seg(m, 0, AskLen(m))
    BY <1>2, <2>5 DEF RequestUnits, AskLen
  <2> QED
    BY <2>2, <2>3, <2>4, <2>5, <2>6
<1>4. ASSUME NEW c, NEW m \in Answers(c)
      PROVE  /\ m.call = c /\ m.value \in Nat
             /\ AnswerLen(m) \in Nat /\ AnswerLen(m) >= HeaderLen
             /\ ResponseUnits(m) = Seg(m, 0, AnswerLen(m))
  <2>1. m.call = c /\ m.value \in Nat
    BY Zenon, PeerClientAssumption DEF Answers
  <2>2. AnswerLen(m) \in Nat /\ AnswerLen(m) >= HeaderLen
    BY <1>1, <2>1 DEF AnswerLen
  <2>3. ResponseUnits(m) = Seg(m, 0, AnswerLen(m))
    BY <1>2, <2>2 DEF ResponseUnits, AnswerLen
  <2> QED
    BY <2>1, <2>2, <2>3
<1> QED
  BY <1>1, <1>3, <1>4

-----------------------------------------------------------------------------
(* What a read or a write does to a message under way *)

(* A call writes the next n units of its request. *)
Sends(x, k, n, y, l) ==
    /\ y.served = x.served /\ y.got = x.got
    /\ y.todo = SubSeq(x.todo, n + 1, Len(x.todo))
    /\ y.pc = IF n = Len(x.todo) THEN "header" ELSE "write"
    /\ l.alive = k.alive /\ l.in = k.in /\ l.handler = k.handler
    /\ k.alive => l.out = k.out \o SubSeq(x.todo, 1, n)

(* What it has written is the request up to there. *)
LEMMA AskMore ==
    ASSUME NEW c, NEW m \in Asked(c), NEW x, NEW k, NEW a, NEW b,
           Asking(x, k, m, a, b), x.pc = "write",
           NEW n \in 1 .. Len(x.todo), NEW y, NEW l, Sends(x, k, n, y, l)
    PROVE  Asking(y, l, m, a, b + n) /\ b + n \in 0 .. AskLen(m)
<1> DEFINE e == AskLen(m)
<1>1. Part(x.todo, m, b, e)
  BY Zenon DEF Asking
<1>2. /\ Len(x.todo) = e - b
      /\ Part(SubSeq(x.todo, 1, n), m, b, b + n) /\ Part(y.todo, m, b + n, e)
  <2>1. Len(x.todo) = e - b
    BY <1>1, Split
  <2>2. /\ Part(SubSeq(x.todo, 1, n), m, b, b + n)
        /\ Part(SubSeq(x.todo, n + 1, Len(x.todo)), m, b + n, e)
    BY Zenon, <1>1, Split
  <2> QED
    BY Zenon, <2>1, <2>2 DEF Sends
<1>3. b \in Nat /\ e \in Nat /\ b <= e /\ b + n \in Nat /\ b + n <= e
  BY <1>1, <1>2 DEF Part
<1>4. y.pc = IF b + n = e THEN "header" ELSE "write"
  BY <1>2, <1>3 DEF Sends
<1>5. y.served = 0 /\ y.got = << >> /\ l.in = << >>
  BY Zenon DEF Asking, Sends
<1>6. ASSUME l.alive
      PROVE  /\ Part(l.out, m, a, b + n) /\ a < e
             /\ l.handler.pc = "read" /\ Part(l.handler.got, m, 0, a)
  <2>1. /\ Part(k.out, m, a, b) /\ a < e
        /\ k.handler.pc = "read" /\ Part(k.handler.got, m, 0, a)
    BY Zenon, <1>6 DEF Asking, Sends
  <2>2. Part(l.out, m, a, b + n)
    BY Zenon, <1>2, <1>6, <2>1, Join DEF Sends
  <2> QED
    BY Zenon, <2>1, <2>2 DEF Sends
<1>7. y.pc # "connect" /\ (y.pc = "write" => b + n < e) /\ (y.pc = "header" => b + n = e)
  BY <1>3, <1>4
<1> QED
  BY <1>2, <1>3, <1>5, <1>6, <1>7 DEF Asking

(* The peer reads the next n units of a request. *)
PeerHasRead(k, m, a, b, n, got) ==
    /\ a + n \in 0 .. AskLen(m) /\ b <= AskLen(m)
    /\ Part(got, m, 0, a + n)
    /\ Part(SubSeq(k.out, n + 1, Len(k.out)), m, a + n, b)
    /\ RequestWanted(got) > 0 <=> a + n < AskLen(m)
    /\ got[1].msg = m

(* Something is wanted until the request is complete. *)
LEMMA WantedIs ==
    ASSUME NEW m, NEW got, NEW i \in Nat, Len(got) = i,
           PayloadLen(got[1]) = m.key + m.value,
           m.key \in Nat, m.value \in Nat, HeaderLen \in Nat
    PROVE  RequestWanted(got) > 0 <=> i < AskLen(m)
BY DEF RequestWanted, AskLen

(* What it has read is the request up to there. *)
LEMMA PeerReads ==
    ASSUME NEW c, NEW m \in Asked(c), NEW x, NEW k, NEW a, NEW b,
           Asking(x, k, m, a, b), k.alive, NEW n \in 1 .. Len(k.out),
           NEW got, got = k.handler.got \o SubSeq(k.out, 1, n)
    PROVE  PeerHasRead(k, m, a, b, n, got)
<1>1. /\ Part(x.todo, m, b, AskLen(m)) /\ Part(k.out, m, a, b)
      /\ Part(k.handler.got, m, 0, a)
  BY Zenon DEF Asking
<1>2. /\ Part(SubSeq(k.out, 1, n), m, a, a + n)
      /\ Part(SubSeq(k.out, n + 1, Len(k.out)), m, a + n, b)
  <2>1. Part(k.out, m, a, b)
    BY Zenon, <1>1
  <2> QED
    BY Zenon, <2>1, Split
<1>3. Part(got, m, 0, a + n)
  BY Zenon, <1>1, <1>2, Join
<1>4. /\ a \in Nat /\ a + n \in Nat /\ a + n <= b /\ b \in Nat /\ b <= AskLen(m)
      /\ AskLen(m) \in Nat /\ 0 < a + n
  BY <1>1, <1>2 DEF Part
<1>5. Len(got) = a + n /\ got[1].msg = m
  <2>1. Len(got) = a + n
    BY Zenon, <1>3, BeginningLen
  <2>2. got[1].msg = m
    BY Zenon, <1>3, <1>4, First
  <2> QED
    BY Zenon, <2>1, <2>2
<1>6. PayloadLen(got[1]) = m.key + m.value
  BY Zenon, <1>5, Lengths DEF PayloadLen
<1>7. RequestWanted(got) > 0 <=> a + n < AskLen(m)
  <2>1. m.key \in Nat /\ m.value \in Nat /\ HeaderLen \in Nat
    BY Lengths
  <2> QED
    BY Zenon, <1>4, <1>5, <1>6, <2>1, WantedIs
<1>8. a + n \in 0 .. AskLen(m)
  BY <1>4
<1> QED
  BY Zenon, <1>2, <1>3, <1>4, <1>5, <1>7, <1>8 DEF PeerHasRead

(* The peer writes the next n units of its answer. *)
Replies(k, n, l) ==
    /\ l.alive = k.alive /\ l.out = k.out
    /\ l.in = k.in \o SubSeq(k.handler.todo, 1, n)
    /\ IF n = Len(k.handler.todo) THEN l.handler = Reading
       ELSE /\ l.handler.pc = "write" /\ l.handler.got = k.handler.got
            /\ l.handler.todo = SubSeq(k.handler.todo, n + 1, Len(k.handler.todo))

(* What it has written is the answer up to there. *)
LEMMA PeerWrites ==
    ASSUME NEW c, NEW m \in Answers(c), NEW x, NEW k, NEW a, NEW b,
           Answering(x, k, m, a, b), k.alive, k.handler.pc = "write",
           NEW n \in 1 .. Len(k.handler.todo), NEW l, Replies(k, n, l)
    PROVE  Answering(x, l, m, a, b + n) /\ b + n \in 0 .. AnswerLen(m)
<1> DEFINE e == AnswerLen(m)
<1>1. /\ Part(k.in, m, a, b) /\ Part(k.handler.todo, m, b, e)
      /\ k.handler.got = << >> /\ k.out = << >>
  BY DEF Answering
<1>2. /\ Len(k.handler.todo) = e - b
      /\ Part(SubSeq(k.handler.todo, 1, n), m, b, b + n)
      /\ Part(SubSeq(k.handler.todo, n + 1, Len(k.handler.todo)), m, b + n, e)
  <2>1. Part(k.handler.todo, m, b, e)
    BY Zenon, <1>1
  <2>2. Len(k.handler.todo) = e - b
    BY <2>1, Split
  <2>3. /\ Part(SubSeq(k.handler.todo, 1, n), m, b, b + n)
        /\ Part(SubSeq(k.handler.todo, n + 1, Len(k.handler.todo)), m, b + n, e)
    BY Zenon, <2>1, Split
  <2> QED
    BY Zenon, <2>2, <2>3
<1>3. Part(l.in, m, a, b + n)
  BY Zenon, <1>1, <1>2, Join DEF Replies
<1>4. b \in Nat /\ e \in Nat /\ b <= e /\ b + n \in Nat /\ b + n <= e
  BY <1>1, <1>2 DEF Part
<1>5. n = Len(k.handler.todo) <=> b + n = e
  BY <1>2, <1>4
<1>6. /\ l.out = << >> /\ l.handler.got = << >>
      /\ IF b + n = e THEN l.handler.pc = "read"
         ELSE l.handler.pc = "write" /\ Part(l.handler.todo, m, b + n, e)
  <2>1. CASE b + n = e
    BY <1>1, <1>5, <2>1 DEF Reading, Replies
  <2>2. CASE b + n # e
    BY Zenon, <1>1, <1>2, <1>5, <2>2 DEF Replies
  <2> QED
    BY Zenon, <2>1, <2>2
<1> QED
  BY <1>3, <1>4, <1>6 DEF Answering, Replies

(* A call reads the next n units of the answer. *)
Received(x, k, m, a, b, n, got) ==
    /\ a \in Nat /\ a + n \in 0 .. AnswerLen(m) /\ a + n <= b
    /\ Part(got, m, 0, a + n)
    /\ Part(SubSeq(k.in, n + 1, Len(k.in)), m, a + n, b)
    /\ Response(got) = m /\ Len(x.got) = a
    /\ x.pc = "value" => Response(x.got) = m

(* What it has read is the answer up to there. *)
LEMMA CallReads ==
    ASSUME NEW c, NEW m \in Answers(c), NEW x, NEW k, NEW a, NEW b \in 0 .. AnswerLen(m),
           Answering(x, k, m, a, b), NEW n \in 1 .. Len(k.in),
           NEW got, got = x.got \o SubSeq(k.in, 1, n)
    PROVE  Received(x, k, m, a, b, n, got)
<1>1. Part(k.in, m, a, b) /\ Part(x.got, m, 0, a)
  BY Zenon DEF Answering
<1>2. /\ Part(SubSeq(k.in, 1, n), m, a, a + n)
      /\ Part(SubSeq(k.in, n + 1, Len(k.in)), m, a + n, b)
  <2>1. Part(k.in, m, a, b)
    BY Zenon, <1>1
  <2> QED
    BY Zenon, <2>1, Split
<1>3. Part(got, m, 0, a + n)
  BY Zenon, <1>1, <1>2, Join
<1>4. /\ a \in Nat /\ a + n \in Nat /\ a + n <= b /\ b <= AnswerLen(m) /\ 0 < a + n
      /\ a + n \in 0 .. AnswerLen(m)
  <2>1. AnswerLen(m) \in Nat
    BY Lengths, Zenon
  <2> QED
    BY <1>1, <1>2, <2>1 DEF Part
<1>5. Response(got) = m
  BY Zenon, <1>3, <1>4, First DEF Response
<1>6. Len(x.got) = a
  BY Zenon, <1>1, BeginningLen
<1>7. ASSUME x.pc = "value" PROVE Response(x.got) = m
  <2>1. 0 < a
    BY <1>4, <1>7, Lengths DEF Answering
  <2> QED
    BY Zenon, <1>1, <2>1, First DEF Response
<1> QED
  BY Zenon, <1>2, <1>3, <1>4, <1>5, <1>6, <1>7 DEF Received

-----------------------------------------------------------------------------
(* Who holds a connection *)

(* No descriptor and no buffer is the value that says there is none. *)
LEMMA Absence == NoFd \notin Socket /\ NoBuffer \notin 0 .. Buffers - 1
BY PeerClientAssumption DEF NoFd, NoBuffer

(* A call under way holds a descriptor. *)
LEMMA HeldFd ==
    ASSUME TypeInv, ConnectionsOwned, NEW c \in Call, call[c].pc # "idle"
    PROVE  /\ call[c].fd \in Socket /\ call[c].fd \in DOMAIN conn
           /\ call[c].peer \in Peer /\ conn[call[c].fd].peer = call[c].peer
BY DEF TypeInv, ConnectionsOwned, Held

(* Taking the first element of a list without repetitions. *)
LEMMA TailOf ==
    ASSUME NEW S, NEW s \in Seq(S), s # << >>, IsInjective(s)
    PROVE  /\ Tail(s) \in Seq(S) /\ Head(s) \in S /\ Head(s) \in Range(s)
           /\ Range(Tail(s)) = Range(s) \ {Head(s)}
           /\ IsInjective(Tail(s))
<1>1. /\ Len(s) \in Nat /\ DOMAIN s = 1 .. Len(s) /\ Len(s) > 0
      /\ Head(s) = s[1] /\ 1 \in DOMAIN s
  OBVIOUS
<1>2. /\ Tail(s) \in Seq(S) /\ Head(s) \in S /\ Len(Tail(s)) = Len(s) - 1
      /\ \A i \in 1 .. Len(Tail(s)) : Tail(s)[i] = s[i + 1]
  OBVIOUS
<1>3. DOMAIN Tail(s) = 1 .. Len(s) - 1
  BY <1>2
<1>4. \A i, j \in DOMAIN s : s[i] = s[j] => i = j
  BY DEF IsInjective
<1>5. IsInjective(Tail(s))
  <2> SUFFICES ASSUME NEW i \in DOMAIN Tail(s), NEW j \in DOMAIN Tail(s),
                      Tail(s)[i] = Tail(s)[j]
               PROVE  i = j
    BY DEF IsInjective
  <2>1. i + 1 \in DOMAIN s /\ j + 1 \in DOMAIN s /\ s[i + 1] = s[j + 1]
    BY <1>1, <1>2, <1>3
  <2> QED
    BY <2>1, <1>4, <1>3, <1>1
<1>6. ASSUME NEW x PROVE x \in Range(Tail(s)) <=> x \in Range(s) \ {Head(s)}
  <2>1. ASSUME x \in Range(Tail(s)) PROVE x \in Range(s) \ {Head(s)}
    <3>1. PICK i \in DOMAIN Tail(s) : x = Tail(s)[i]
      BY <2>1 DEF Range
    <3>2. i + 1 \in DOMAIN s /\ x = s[i + 1] /\ i + 1 # 1
      BY <3>1, <1>1, <1>2, <1>3
    <3> QED
      BY <3>2, <1>4, <1>1 DEF Range
  <2>2. ASSUME x \in Range(s) \ {Head(s)} PROVE x \in Range(Tail(s))
    <3>1. PICK i \in DOMAIN s : x = s[i]
      BY <2>2 DEF Range
    <3>2. i - 1 \in DOMAIN Tail(s) /\ Tail(s)[i - 1] = x
      BY <3>1, <2>2, <1>1, <1>2, <1>3
    <3> QED
      BY <3>2 DEF Range
  <2> QED
    BY <2>1, <2>2
<1> QED
  BY Zenon, <1>1, <1>2, <1>5, <1>6 DEF Range

-----------------------------------------------------------------------------
(* A step of a call or of the peer's handler on its connection *)

(* The step of c on f changes no other call and no other connection. *)
Touches(c, f) ==
    /\ call[c].pc # "idle" \/ call'[c].pc # "idle"
    /\ call[c].pc # "idle" => call[c].fd = f
    /\ call'[c].pc # "idle" => call'[c].fd = f
    /\ \A d \in Call \ {c} : call'[d] = call[d]
    /\ \A g \in DOMAIN conn' \ {f} : g \in DOMAIN conn /\ conn'[g] = conn[g]

(* What it leaves on f. *)
Leaves(c, f) ==
    /\ IsCall(call'[c])
    /\ f \in DOMAIN conn' => IsConn(conn'[f])
    /\ IF call'[c].pc = "idle" THEN f \in DOMAIN conn' => Quiet(conn'[f])
       ELSE Phase(c, call'[c], conn'[f])

(* A step of one call on its connection keeps the invariant. *)
LEMMA TouchesOne ==
    ASSUME ConnectionsOwned, ConnectionsOwned', TypeInv, StreamInv,
           NEW c \in Call, NEW f, Touches(c, f), Leaves(c, f)
    PROVE  StreamInv'
<1>1. ASSUME NEW d \in Call \ {c} PROVE call'[d].fd = call[d].fd /\ call'[d].pc = call[d].pc
  BY Zenon, <1>1 DEF Touches
<1>a. ASSUME NEW d \in Call, NEW e \in Call \ {d}, call[d].pc # "idle"
      PROVE  call[e].fd # call[d].fd
  BY Zenon, <1>a DEF ConnectionsOwned, Held
<1>b. ASSUME NEW d \in Call, NEW e \in Call \ {d}, call'[d].pc # "idle"
      PROVE  call'[e].fd # call'[d].fd
  <2>1. call'[d].fd # NoFd
    BY Zenon, <1>b DEF ConnectionsOwned, Held
  <2> QED
    BY Zenon, <2>1 DEF ConnectionsOwned, Held
<1>2. ASSUME NEW d \in Call \ {c}, call[d].pc # "idle"
      PROVE  call[d].fd # f /\ call[d].fd \in DOMAIN conn'
  <2>1. call'[d].pc # "idle" /\ call'[d].fd = call[d].fd
    BY Zenon, <1>1, <1>2
  <2>2. call[d].fd \in DOMAIN conn'
    BY Zenon, <2>1 DEF ConnectionsOwned, Held
  <2>3. CASE call[c].pc # "idle"
    BY Zenon, <1>2, <1>a, <2>2, <2>3 DEF Touches
  <2>4. CASE call'[c].pc # "idle"
    BY Zenon, <1>b, <2>1, <2>2, <2>4 DEF Touches
  <2> QED
    BY Zenon, <2>2, <2>3, <2>4 DEF Touches
<1>3. ASSUME NEW d \in Call PROVE IsCall(call'[d])
  BY Zenon, <1>3 DEF Touches, Leaves, StreamInv
<1>4. ASSUME NEW g \in DOMAIN conn' PROVE IsConn(conn'[g])
  BY Zenon, <1>4 DEF Touches, Leaves, StreamInv
<1>5. ASSUME NEW d \in Call, call'[d].pc # "idle"
      PROVE  Phase(d, call'[d], conn'[call'[d].fd])
  <2>1. CASE d = c
    BY Zenon, <1>5, <2>1 DEF Touches, Leaves
  <2>2. CASE d # c
    <3>1. call'[d] = call[d] /\ call[d].pc # "idle"
      BY Zenon, <1>1, <1>5, <2>2 DEF Touches
    <3>2. conn'[call[d].fd] = conn[call[d].fd]
      BY Zenon, <1>2, <2>2, <3>1 DEF Touches
    <3> QED
      BY Zenon, <3>1, <3>2 DEF StreamInv
  <2> QED
    BY Zenon, <2>1, <2>2
<1>6. ASSUME NEW p \in Peer, NEW g \in Range(pool'[p]) PROVE Quiet(conn'[g])
  <2>1. g \in DOMAIN conn' /\ \A d \in Call : call'[d].pc # "idle" => call'[d].fd # g
    <3>1. g \in DOMAIN conn'
      BY Zenon, <1>6 DEF ConnectionsOwned
    <3>2. ASSUME NEW d \in Call, call'[d].pc # "idle" PROVE call'[d].fd # g
      <4>1. call'[d].fd # NoFd
        BY Zenon, <3>2 DEF ConnectionsOwned, Held
      <4>2. \A q \in Peer : call'[d].fd \notin Range(pool'[q])
        BY Zenon, <4>1 DEF ConnectionsOwned, Held
      <4> QED
        BY Zenon, <1>6, <4>2
    <3> QED
      BY Zenon, <3>1, <3>2
  <2>2. CASE g = f
    BY Zenon, <2>1, <2>2 DEF Touches, Leaves
  <2>3. CASE g # f
    <3>1. g \in DOMAIN conn /\ conn'[g] = conn[g]
      BY Zenon, <2>1, <2>3 DEF Touches
    <3>2. ASSUME NEW d \in Call PROVE call[d].fd # g
      <4>1. call[d].pc # "idle" \/ call[d].fd = NoFd
        BY Zenon DEF ConnectionsOwned, Held
      <4>2. g # NoFd
        BY Zenon, <3>1, Absence DEF TypeInv
      <4>3. CASE d = c
        BY Zenon, <2>3, <4>1, <4>2, <4>3 DEF Touches
      <4>4. CASE d # c
        BY Zenon, <1>1, <2>1, <4>1, <4>2, <4>4
      <4> QED
        BY Zenon, <4>3, <4>4
    <3>3. g \in Range(pool[conn[g].peer]) /\ conn[g].peer \in Peer
      BY Zenon, <3>1, <3>2 DEF ConnectionsOwned, TypeInv
    <3> QED
      BY Zenon, <3>1, <3>3 DEF StreamInv
  <2> QED
    BY Zenon, <2>2, <2>3
<1> QED
  BY Zenon, <1>3, <1>4, <1>5, <1>6 DEF StreamInv

(* A call begins on a connection on which nothing is under way. *)
LEMMA Asks ==
    ASSUME TypeInv, NEW c \in Call, NEW p, NEW r \in Request, NEW f,
           NEW pc \in {"write", "connect"}, Begins(c, p, r, f, pc),
           NEW k, Quiet(k), pc = "connect" => ~k.alive
    PROVE  /\ IsCall(call'[c]) /\ call'[c].pc = pc /\ call'[c].fd = f
           /\ Phase(c, call'[c], k)
           /\ \A d \in Call \ {c} : call'[d] = call[d]
<1> DEFINE m == [call |-> c, key |-> r.key, value |-> r.value]
           y == [Idle EXCEPT !.pc = pc, !.peer = p, !.fd = f, !.todo = RequestUnits(m)]
<1>1. m \in Asked(c)
  BY Zenon DEF Asked
<1>2. call' = [call EXCEPT ![c] = y]
  BY Zenon DEF Begins
<1> HIDE DEF m
<1>3. /\ DOMAIN y = {"pc", "peer", "fd", "buffer", "todo", "got", "served"}
      /\ y.pc = pc /\ y.fd = f /\ y.todo = RequestUnits(m) /\ y.got = << >> /\ y.served = 0
  BY DEF Idle
<1> HIDE DEF y
<1>4. call'[c] = y /\ \A d \in Call \ {c} : call'[d] = call[d]
  BY Zenon, <1>2 DEF TypeInv
<1>5. /\ AskLen(m) \in Nat /\ 0 < AskLen(m) /\ 0 \in 0 .. AskLen(m)
      /\ Part(y.todo, m, 0, AskLen(m))
  BY <1>1, <1>3, Lengths DEF Part
<1>6. 0 \in Nat /\ Part(<< >>, m, 0, 0)
  BY EmptyPart
<1>7. Asking(y, k, m, 0, 0)
  BY <1>3, <1>5, <1>6 DEF Asking, Quiet, Waits
<1>8. Phase(c, y, k)
  BY Zenon, <1>1, <1>3, <1>5, <1>7 DEF Phase
<1> QED
  BY Zenon, <1>3, <1>4, <1>8 DEF IsCall

(* What the invariant says of a call under way. *)
LEMMA OfUnderWay ==
    ASSUME TypeInv, ConnectionsOwned, StreamInv, NEW c \in Call, call[c].pc # "idle"
    PROVE  /\ IsCall(call[c]) /\ call[c].fd \in DOMAIN conn /\ IsConn(conn[call[c].fd])
           /\ Phase(c, call[c], conn[call[c].fd])
<1>1. call[c].fd \in DOMAIN conn
  BY Zenon, HeldFd
<1> QED
  BY Zenon, <1>1 DEF StreamInv

(* acquire. *)
LEMMA AcquireTouches ==
    ASSUME TypeInv, ConnectionsOwned, StreamInv,
           NEW c \in Call, NEW p \in Peer, NEW r \in Request,
           AcquirePooled(c, p, r) \/ OpenConnection(c, p, r)
    PROVE  call[c].pc = "idle" /\ \E f : Touches(c, f) /\ Leaves(c, f)
<1>1. ASSUME AcquirePooled(c, p, r) PROVE \E f : Touches(c, f) /\ Leaves(c, f)
  <2> DEFINE f == Head(pool[p])
  <2>1. pool[p] # << >> /\ Begins(c, p, r, f, "write") /\ conn' = conn
    BY Zenon, <1>1 DEF AcquirePooled
  <2>2. f \in Range(pool[p])
    <3>1. pool[p] \in Seq(Socket) /\ IsInjective(pool[p])
      BY Zenon DEF TypeInv, ConnectionsOwned
    <3> QED
      BY Zenon, <2>1, <3>1, TailOf
  <2> HIDE DEF f
  <2>3. f \in DOMAIN conn /\ Quiet(conn[f]) /\ IsConn(conn[f])
    BY Zenon, <2>2 DEF ConnectionsOwned, StreamInv
  <2>4. /\ IsCall(call'[c]) /\ call'[c].pc = "write" /\ call'[c].fd = f
        /\ Phase(c, call'[c], conn[f])
        /\ \A d \in Call \ {c} : call'[d] = call[d]
    BY Zenon, <2>1, <2>3, Asks
  <2>5. call[c].pc = "idle"
    BY Zenon, <2>1 DEF Begins
  <2>6. Touches(c, f)
    BY Zenon, <2>1, <2>4, <2>5 DEF Touches
  <2>7. Leaves(c, f)
    BY Zenon, <2>1, <2>3, <2>4 DEF Leaves
  <2> QED
    BY Zenon, <2>6, <2>7
<1>2. ASSUME OpenConnection(c, p, r) PROVE \E f : Touches(c, f) /\ Leaves(c, f)
  <2>1. PICK f \in Socket \ DOMAIN conn :
          /\ Begins(c, p, r, f, "connect")
          /\ conn' = [g \in DOMAIN conn \cup {f} |->
                        IF g = f THEN Opened(p) ELSE conn[g]]
    BY Zenon, <1>2 DEF OpenConnection
  <2>2. conn'[f] = Opened(p) /\ \A g \in DOMAIN conn' \ {f} : g \in DOMAIN conn /\ conn'[g] = conn[g]
    BY Zenon, <2>1
  <2>3. Quiet(Opened(p)) /\ ~Opened(p).alive /\ IsConn(Opened(p))
    BY DEF Opened, Reading, Quiet, IsConn, Waits
  <2>4. /\ IsCall(call'[c]) /\ call'[c].pc = "connect" /\ call'[c].fd = f
        /\ Phase(c, call'[c], Opened(p))
        /\ \A d \in Call \ {c} : call'[d] = call[d]
    BY Zenon, <2>1, <2>3, Asks
  <2>5. call[c].pc = "idle"
    BY Zenon, <2>1 DEF Begins
  <2>6. Touches(c, f)
    BY Zenon, <2>2, <2>4, <2>5 DEF Touches
  <2>7. Leaves(c, f)
    BY Zenon, <2>2, <2>3, <2>4 DEF Leaves
  <2> QED
    BY Zenon, <2>6, <2>7
<1>3. call[c].pc = "idle"
  BY Zenon DEF AcquirePooled, OpenConnection, Begins
<1> QED
  BY Zenon, <1>1, <1>2, <1>3

(* connect() succeeds. *)
LEMMA ConnectedTouches ==
    ASSUME TypeInv, ConnectionsOwned, StreamInv, NEW c \in Call, Connected(c)
    PROVE  Touches(c, call[c].fd) /\ Leaves(c, call[c].fd)
<1> DEFINE f == call[c].fd
           x == call[c]
           k == conn[f]
           y == call'[c]
           l == conn'[f]
<1>1. x.pc = "connect"
  BY Zenon DEF Connected
<1>2. IsCall(x) /\ f \in DOMAIN conn /\ IsConn(k) /\ Phase(c, x, k)
  BY <1>1, OfUnderWay
<1>3. PICK m \in Asked(c) : \E a, b \in 0 .. AskLen(m) : Asking(x, k, m, a, b)
  BY <1>1, <1>2 DEF Phase
<1>4. Asking(x, k, m, 0, 0) /\ ~k.alive
  BY <1>1, <1>3 DEF Asking
<1>5. /\ y = [x EXCEPT !.pc = "write"] /\ \A d \in Call \ {c} : call'[d] = call[d]
      /\ l = [k EXCEPT !.alive = TRUE] /\ DOMAIN conn' = DOMAIN conn
      /\ \A g \in DOMAIN conn' \ {f} : conn'[g] = conn[g]
  BY <1>2 DEF Connected, TypeInv
<1>6. /\ DOMAIN y = DOMAIN x /\ y.pc = "write" /\ y.fd = f /\ y.todo = x.todo
      /\ y.got = x.got /\ y.served = x.served
  BY <1>2, <1>5 DEF IsCall
<1>7. /\ DOMAIN l = DOMAIN k /\ l.alive = TRUE /\ l.out = k.out /\ l.in = k.in
      /\ l.handler = k.handler
  BY <1>2, <1>5 DEF IsConn
<1> HIDE DEF y, l
<1>8. IsCall(y) /\ IsConn(l)
  BY Zenon, <1>2, <1>6, <1>7 DEF IsCall, IsConn
<1>9. Asking(y, l, m, 0, 0)
  <2>1. k.out = << >> /\ Waits(k)
    BY <1>2, <1>4 DEF IsConn
  <2>2. Part(<< >>, m, 0, 0)
    BY EmptyPart
  <2>3. 0 < AskLen(m)
    BY Lengths
  <2> QED
    BY <1>4, <1>6, <1>7, <2>1, <2>2, <2>3 DEF Asking, Waits
<1>10. 0 \in 0 .. AskLen(m)
  BY Lengths
<1>11. Phase(c, y, l)
  BY Zenon, <1>6, <1>9, <1>10 DEF Phase
<1>12. Touches(c, f)
  BY Zenon, <1>1, <1>5, <1>6 DEF Touches, y
<1>13. Leaves(c, f)
  BY Zenon, <1>6, <1>8, <1>11 DEF Leaves, y, l
<1> QED
  BY Zenon, <1>12, <1>13

(* The connection is refused, or closed after an error. *)
LEMMA ClosedTouches ==
    ASSUME TypeInv, ConnectionsOwned, StreamInv, NEW c \in Call,
           ConnectRefused(c) \/ Close(c)
    PROVE  Touches(c, call[c].fd) /\ Leaves(c, call[c].fd)
<1>1. call[c].pc \in {"connect", "close", "broken"}
  BY Zenon DEF ConnectRefused, Close
<1>2. call' = [call EXCEPT ![c] = Idle] /\ conn' = Closed(call[c].fd)
  BY Zenon DEF ConnectRefused, Close
<1>3. call'[c] = Idle /\ \A d \in Call \ {c} : call'[d] = call[d]
  BY Zenon, <1>2 DEF TypeInv
<1>4. /\ DOMAIN conn' = DOMAIN conn \ {call[c].fd}
      /\ \A g \in DOMAIN conn' : g \in DOMAIN conn /\ conn'[g] = conn[g]
  BY Zenon, <1>2 DEF Closed
<1>5. IsCall(Idle) /\ Idle.pc = "idle"
  BY DEF Idle, IsCall
<1> QED
  BY <1>1, <1>3, <1>4, <1>5 DEF Touches, Leaves

(* A piece of the request is written. *)
LEMMA WriteTouches ==
    ASSUME TypeInv, ConnectionsOwned, StreamInv, NEW c \in Call, Write(c)
    PROVE  Touches(c, call[c].fd) /\ Leaves(c, call[c].fd)
<1> DEFINE f == call[c].fd
           x == call[c]
           k == conn[f]
           y == call'[c]
           l == conn'[f]
<1>1. x.pc = "write"
  BY Zenon DEF Write
<1>2. IsCall(x) /\ f \in DOMAIN conn /\ IsConn(k) /\ Phase(c, x, k)
  BY <1>1, OfUnderWay
<1>3. PICK m \in Asked(c) : \E a, b \in 0 .. AskLen(m) : Asking(x, k, m, a, b)
  BY <1>1, <1>2 DEF Phase
<1>4. PICK a \in 0 .. AskLen(m), b \in 0 .. AskLen(m) : Asking(x, k, m, a, b)
  BY Zenon, <1>3
<1>5. PICK n \in 1 .. Len(x.todo) :
        /\ call' = [call EXCEPT ![c].todo = SubSeq(@, n + 1, Len(@)),
                      ![c].pc = IF n = Len(call[c].todo) THEN "header" ELSE @]
        /\ conn' = IF conn[f].alive
                   THEN [conn EXCEPT ![f].out = @ \o SubSeq(call[c].todo, 1, n)]
                   ELSE conn
  BY Zenon DEF Write
<1>6. /\ DOMAIN y = DOMAIN x /\ y.pc = (IF n = Len(x.todo) THEN "header" ELSE "write")
      /\ y.fd = f /\ y.todo = SubSeq(x.todo, n + 1, Len(x.todo))
      /\ y.got = x.got /\ y.served = x.served
      /\ \A d \in Call \ {c} : call'[d] = call[d]
  <2>1. ASSUME NEW t, NEW q, call' = [call EXCEPT ![c].todo = t, ![c].pc = q]
        PROVE  /\ DOMAIN y = DOMAIN x /\ y.pc = q /\ y.fd = f /\ y.todo = t
               /\ y.got = x.got /\ y.served = x.served
               /\ \A d \in Call \ {c} : call'[d] = call[d]
    BY <1>2, <2>1 DEF TypeInv, IsCall
  <2> QED
    BY Zenon, <1>1, <1>5, <2>1
<1>7. /\ DOMAIN l = DOMAIN k /\ l.alive = k.alive /\ l.in = k.in /\ l.handler = k.handler
      /\ k.alive => l.out = k.out \o SubSeq(x.todo, 1, n)
      /\ ~k.alive => l.out = k.out
      /\ DOMAIN conn' = DOMAIN conn /\ \A g \in DOMAIN conn \ {f} : conn'[g] = conn[g]
  <2>1. ASSUME NEW t, conn' = [conn EXCEPT ![f].out = t]
        PROVE  /\ DOMAIN l = DOMAIN k /\ l.alive = k.alive /\ l.in = k.in
               /\ l.handler = k.handler /\ l.out = t
               /\ DOMAIN conn' = DOMAIN conn /\ \A g \in DOMAIN conn \ {f} : conn'[g] = conn[g]
    BY <1>2, <2>1 DEF IsConn
  <2>2. CASE k.alive
    BY Zenon, <1>5, <2>1, <2>2
  <2>3. CASE ~k.alive
    BY Zenon, <1>5, <2>3
  <2> QED
    BY Zenon, <2>2, <2>3
<1> HIDE DEF y, l
<1>8. IsCall(y) /\ IsConn(l)
  BY <1>2, <1>6, <1>7 DEF IsCall, IsConn, Waits
<1>9. Asking(y, l, m, a, b + n) /\ b + n \in 0 .. AskLen(m)
  <2>1. Sends(x, k, n, y, l)
    BY Zenon, <1>6, <1>7 DEF Sends
  <2> HIDE DEF x, k
  <2> QED
    BY Zenon, <1>1, <1>4, <2>1, AskMore
<1>10. y.pc \in {"write", "header"}
  BY Zenon, <1>6
<1>11. Phase(c, y, l)
  BY Zenon, <1>4, <1>9, <1>10 DEF Phase
<1>12. Touches(c, f)
  BY Zenon, <1>1, <1>6, <1>7, <1>10 DEF Touches, y
<1>13. Leaves(c, f)
  BY <1>8, <1>10, <1>11 DEF Leaves, y, l
<1> QED
  BY Zenon, <1>12, <1>13

(* A read or write fails. *)
LEMMA BreakTouches ==
    ASSUME TypeInv, ConnectionsOwned, StreamInv, NEW c \in Call, Break(c)
    PROVE  call'[c].pc = "broken" /\ Touches(c, call[c].fd) /\ Leaves(c, call[c].fd)
<1> DEFINE f == call[c].fd
           x == call[c]
           k == conn[f]
           y == call'[c]
<1>1. x.pc \in {"write", "header", "value"} /\ ~k.alive /\ conn' = conn
  BY Zenon DEF Break
<1>2. IsCall(x) /\ f \in DOMAIN conn /\ IsConn(k) /\ Phase(c, x, k)
  BY <1>1, OfUnderWay
<1>3. /\ DOMAIN y = DOMAIN x /\ y.pc = "broken" /\ y.fd = f /\ y.served = x.served
      /\ \A d \in Call \ {c} : call'[d] = call[d]
  BY <1>2 DEF Break, TypeInv, IsCall
<1> HIDE DEF y
<1>4. x.served \in 0 .. 1
  <2>1. x.served = 0 \/ x.served = 1 \/ x.served \in 0 .. 1
    BY Zenon, <1>2 DEF Phase, Asking, Answering
  <2> QED
    BY <2>1
<1>5. IsCall(y) /\ Phase(c, y, k)
  BY <1>1, <1>2, <1>3, <1>4 DEF IsCall, Phase
<1> QED
  BY <1>1, <1>2, <1>3, <1>5 DEF Touches, Leaves, y

(* A call that is through with its response has read the one it asked for. *)
Answered(c) ==
    call[c].pc \in {"header", "value"} /\ call'[c].pc = "idle" =>
       /\ HasRead(c) = ResponseUnits(Response(HasRead(c)))
       /\ Response(HasRead(c)).call = c
       /\ call[c].served = 1

(* A piece of the response is read, the last one included. *)
LEMMA ReadTouches ==
    ASSUME TypeInv, ConnectionsOwned, StreamInv, NEW c \in Call, Read(c)
    PROVE  Touches(c, call[c].fd) /\ Leaves(c, call[c].fd) /\ Answered(c)
<1> DEFINE f == call[c].fd
           x == call[c]
           k == conn[f]
           y == call'[c]
           l == conn'[f]
<1>1. x.pc \in {"header", "value"}
  BY Zenon DEF Read
<1>2. IsCall(x) /\ f \in DOMAIN conn /\ IsConn(k) /\ Phase(c, x, k)
  BY <1>1, OfUnderWay
<1>3. PICK n \in 1 .. Len(k.in) :
        LET got == x.got \o SubSeq(k.in, 1, n)
        IN  /\ n <= Wanted(c)
            /\ conn' = [conn EXCEPT ![f].in = SubSeq(@, n + 1, Len(@))]
            /\ IF n < Wanted(c)
               THEN /\ call' = [call EXCEPT ![c].got = got]
                    /\ UNCHANGED <<pool, free>>
               ELSE IF x.pc = "header" /\ Response(got).value > 0
               THEN ReadValue(c, got)
               ELSE Finish(c, got)
  BY Zenon DEF Read
<1>4. PICK m \in Answers(c) : \E a, b \in 0 .. AnswerLen(m) : Answering(x, k, m, a, b)
  <2>1. k.in # << >>
    BY <1>3
  <2> QED
    BY <1>1, <1>2, <2>1 DEF Phase, Asking
<1>5. PICK a \in 0 .. AnswerLen(m), b \in 0 .. AnswerLen(m) : Answering(x, k, m, a, b)
  BY Zenon, <1>4
<1> DEFINE got == x.got \o SubSeq(k.in, 1, n)
<1>6. /\ a \in Nat /\ a + n \in 0 .. AnswerLen(m) /\ a + n <= b
      /\ Part(got, m, 0, a + n)
      /\ Part(SubSeq(k.in, n + 1, Len(k.in)), m, a + n, b)
      /\ Response(got) = m /\ Len(x.got) = a
      /\ x.pc = "value" => Response(x.got) = m
  <2>1. got = x.got \o SubSeq(k.in, 1, n)
    OBVIOUS
  <2> HIDE DEF x, k, got
  <2> QED
    <3>1. Received(x, k, m, a, b, n, got)
      BY Zenon, <1>5, <2>1, CallReads
    <3> QED
      BY Zenon, <3>1 DEF Received
<1>7. /\ DOMAIN l = DOMAIN k /\ l.alive = k.alive /\ l.out = k.out /\ l.handler = k.handler
      /\ l.in = SubSeq(k.in, n + 1, Len(k.in))
      /\ DOMAIN conn' = DOMAIN conn /\ \A g \in DOMAIN conn \ {f} : conn'[g] = conn[g]
  <2>1. ASSUME NEW t, conn' = [conn EXCEPT ![f].in = t]
        PROVE  /\ DOMAIN l = DOMAIN k /\ l.alive = k.alive /\ l.out = k.out
               /\ l.handler = k.handler /\ l.in = t
               /\ DOMAIN conn' = DOMAIN conn /\ \A g \in DOMAIN conn \ {f} : conn'[g] = conn[g]
    BY <1>2, <2>1 DEF IsConn
  <2> QED
    BY Zenon, <1>3, <2>1
<1>8. Wanted(c) = (IF x.pc = "header" THEN HeaderLen ELSE AnswerLen(m)) - a
  BY <1>1, <1>6, Zenon DEF Wanted, AnswerLen
<1>9. /\ HeaderLen \in Nat /\ HeaderLen > 0 /\ m.value \in Nat /\ m.call = c
      /\ AnswerLen(m) = HeaderLen + m.value
      /\ ResponseUnits(m) = Seg(m, 0, AnswerLen(m))
  BY Zenon, Lengths DEF AnswerLen
<1>10. n <= Wanted(c)
  BY Zenon, <1>3
<1>11. \/ n < Wanted(c) /\ call' = [call EXCEPT ![c].got = got]
       \/ ~(n < Wanted(c)) /\ x.pc = "header" /\ m.value > 0 /\ ReadValue(c, got)
       \/ ~(n < Wanted(c)) /\ ~(x.pc = "header" /\ m.value > 0) /\ Finish(c, got)
  BY Zenon, <1>3, <1>6
<1> HIDE DEF got, l
<1>12. IsConn(l)
  BY <1>2, <1>7 DEF IsConn, Waits
<1>13. x.served = 1
  BY Zenon, <1>5 DEF Answering
<1>14. ASSUME y.served = 1, y.got = got, y.pc \in {"header", "value"},
              y.pc = "header" => a + n < HeaderLen,
              y.pc = "value" => HeaderLen <= a + n /\ a + n < AnswerLen(m)
       PROVE  Phase(c, y, l)
  <2> HIDE DEF y
  <2>1. Answering(y, l, m, a + n, b)
    BY Zenon, <1>5, <1>6, <1>7, <1>14 DEF Answering
  <2> QED
    BY Zenon, <1>5, <1>6, <1>14, <2>1 DEF Phase
<1>15. CASE n < Wanted(c) /\ call' = [call EXCEPT ![c].got = got]
  <2>1. /\ DOMAIN y = DOMAIN x /\ y.pc = x.pc /\ y.fd = f /\ y.got = got
        /\ y.served = x.served
        /\ \A d \in Call \ {c} : call'[d] = call[d]
    BY <1>2, <1>15 DEF TypeInv, IsCall
  <2> HIDE DEF y
  <2>2. /\ y.pc = "header" => a + n < HeaderLen
        /\ y.pc = "value" => HeaderLen <= a + n /\ a + n < AnswerLen(m)
    <3>1. x.pc = "value" => HeaderLen <= a
      BY Zenon, <1>5 DEF Answering
    <3> QED
      BY <1>6, <1>8, <1>9, <1>15, <2>1, <3>1
  <2>3. IsCall(y)
    BY <1>2, <2>1 DEF IsCall
  <2>4. Phase(c, y, l)
    BY <1>1, <1>13, <1>14, <2>1, <2>2
  <2>5. Touches(c, f)
    BY <1>1, <1>7, <2>1 DEF Touches, y
  <2>6. Leaves(c, f)
    BY <1>1, <1>12, <2>1, <2>3, <2>4 DEF Leaves, y, l
  <2>7. Answered(c)
    BY <1>1, <2>1 DEF Answered, y
  <2> QED
    BY Zenon, <2>5, <2>6, <2>7
<1>16. CASE ~(n < Wanted(c)) /\ x.pc = "header" /\ m.value > 0 /\ ReadValue(c, got)
  <2>1. /\ DOMAIN y = DOMAIN x /\ y.pc = "value" /\ y.fd = f /\ y.got = got
        /\ y.served = x.served
        /\ \A d \in Call \ {c} : call'[d] = call[d]
    <3>1. ASSUME NEW t,
                 call' = [call EXCEPT ![c].pc = "value", ![c].got = got, ![c].buffer = t]
          PROVE  /\ DOMAIN y = DOMAIN x /\ y.pc = "value" /\ y.fd = f /\ y.got = got
                 /\ y.served = x.served
                 /\ \A d \in Call \ {c} : call'[d] = call[d]
      BY <1>2, <3>1 DEF TypeInv, IsCall
    <3> QED
      BY Zenon, <1>16, <3>1 DEF ReadValue
  <2> HIDE DEF y
  <2>2. HeaderLen <= a + n /\ a + n < AnswerLen(m)
    BY <1>6, <1>8, <1>9, <1>10, <1>16
  <2>3. IsCall(y)
    BY <1>2, <2>1 DEF IsCall
  <2>4. Phase(c, y, l)
    BY <1>13, <1>14, <2>1, <2>2
  <2>5. Touches(c, f)
    BY <1>1, <1>7, <2>1 DEF Touches, y
  <2>6. Leaves(c, f)
    BY <1>1, <1>12, <2>1, <2>3, <2>4 DEF Leaves, y, l
  <2>7. Answered(c)
    BY <1>1, <2>1 DEF Answered, y
  <2> QED
    BY Zenon, <2>5, <2>6, <2>7
<1>17. CASE ~(n < Wanted(c)) /\ ~(x.pc = "header" /\ m.value > 0) /\ Finish(c, got)
  <2>1. a + n = AnswerLen(m) /\ b = AnswerLen(m) /\ a + n = b
    <3>1. Wanted(c) = AnswerLen(m) - a
      <4>1. CASE x.pc = "header"
        <5>1. ~(m.value > 0)
          BY Zenon, <1>17, <4>1
        <5> QED
          BY <1>8, <1>9, <4>1, <5>1
      <4>2. CASE x.pc # "header"
        BY Zenon, <1>8, <4>2
      <4> QED
        BY Zenon, <4>1, <4>2
    <3>2. ~(n < Wanted(c))
      BY Zenon, <1>17
    <3>3. /\ a + n <= b /\ b <= AnswerLen(m) /\ a \in Nat /\ n \in Nat /\ b \in Nat
          /\ AnswerLen(m) \in Nat
      BY <1>6, <1>9
    <3> QED
      BY <1>10, <3>1, <3>2, <3>3
  <2>2. l.in = << >>
    <3>1. Part(l.in, m, a + n, b)
      BY Zenon, <1>6, <1>7
    <3> QED
      BY Zenon, <2>1, <3>1, NoneLeft
  <2>3. Quiet(l)
    BY Zenon, <1>5, <1>7, <2>1, <2>2 DEF Quiet, Waits, Answering
  <2>4. CASE m.status = "Error"
    <3>1. /\ DOMAIN y = DOMAIN x /\ y.pc = "close" /\ y.fd = f /\ y.served = x.served
          /\ \A d \in Call \ {c} : call'[d] = call[d]
      <4>1. call' = [call EXCEPT ![c].pc = "close", ![c].buffer = NoBuffer,
                                 ![c].got = << >>]
        BY Zenon, <1>6, <1>17, <2>4 DEF Finish
      <4> QED
        BY <1>2, <4>1 DEF TypeInv, IsCall
    <3> HIDE DEF y
    <3>2. IsCall(y)
      BY <1>2, <3>1 DEF IsCall
    <3>3. Phase(c, y, l)
      BY Zenon, <1>13, <2>3, <3>1 DEF Phase
    <3>4. Touches(c, f)
      BY <1>1, <1>7, <3>1 DEF Touches, y
    <3>5. Leaves(c, f)
      BY <1>12, <3>1, <3>2, <3>3 DEF Leaves, y, l
    <3>6. Answered(c)
      BY <3>1 DEF Answered, y
    <3> QED
      BY Zenon, <3>4, <3>5, <3>6
  <2>5. CASE m.status # "Error"
    <3>1. y = Idle /\ \A d \in Call \ {c} : call'[d] = call[d]
      BY Zenon, <1>6, <1>17, <2>5 DEF Finish, TypeInv
    <3> HIDE DEF y
    <3>2. IsCall(y) /\ y.pc = "idle"
      BY <3>1 DEF IsCall, Idle
    <3>3. Touches(c, f)
      BY <1>1, <1>7, <3>1, <3>2 DEF Touches, y
    <3>4. Leaves(c, f)
      BY <1>12, <2>3, <3>2 DEF Leaves, y, l
    <3>5. HasRead(c) = got
      <4>1. Len(k.in) = b - a
        <5>1. Part(k.in, m, a, b)
          BY Zenon, <1>5 DEF Answering
        <5> QED
          BY Zenon, <5>1, Split
      <4>2. Len(k.in) - Len(l.in) = n
        BY <1>6, <2>1, <2>2, <4>1
      <4> QED
        BY Zenon, <4>2 DEF HasRead, got, l
    <3>6. got = ResponseUnits(m)
      BY Zenon, <1>6, <1>9, <2>1 DEF Part
    <3>7. Answered(c)
      BY Zenon, <1>6, <1>9, <1>13, <3>5, <3>6 DEF Answered
    <3> QED
      BY Zenon, <3>3, <3>4, <3>7
  <2> QED
    BY Zenon, <2>4, <2>5
<1> QED
  BY Zenon, <1>11, <1>15, <1>16, <1>17

(* Where the peer has something to do there is a call that waits for it. *)
LEMMA HandlerOf ==
    ASSUME TypeInv, ConnectionsOwned, StreamInv, NEW f \in DOMAIN conn, ~Quiet(conn[f])
    PROVE  \E c \in Call : /\ call[c].fd = f /\ call[c].pc # "idle"
                           /\ IsCall(call[c]) /\ Phase(c, call[c], conn[f])
<1>1. f \notin Range(pool[conn[f].peer])
  BY Zenon DEF TypeInv, StreamInv
<1>2. PICK c \in Call : call[c].fd = f
  BY Zenon, <1>1 DEF ConnectionsOwned
<1>3. f # NoFd
  BY Zenon, Absence DEF TypeInv
<1>4. call[c].pc # "idle"
  BY Zenon, <1>2, <1>3 DEF ConnectionsOwned, Held
<1> QED
  BY Zenon, <1>2, <1>4, OfUnderWay

(* The peer reads a piece of a request, the last one included. *)
LEMMA HandlerReadTouches ==
    ASSUME TypeInv, ConnectionsOwned, StreamInv, NEW f \in DOMAIN conn, HandlerRead(f)
    PROVE  \E c \in Call : Touches(c, f) /\ Leaves(c, f) /\ call'[c].pc = call[c].pc
<1> DEFINE k == conn[f]
           l == conn'[f]
<1>1. k.alive /\ k.handler.pc = "read"
  BY Zenon DEF HandlerRead
<1>2. PICK n \in 1 .. Len(k.out) :
        LET got == k.handler.got \o SubSeq(k.out, 1, n)
            rest == SubSeq(k.out, n + 1, Len(k.out))
        IN  IF RequestWanted(got) > 0
            THEN /\ conn' = [conn EXCEPT ![f].out = rest, ![f].handler.got = got]
                 /\ UNCHANGED call
            ELSE Serve(f, got[1].msg, rest)
  BY Zenon DEF HandlerRead
<1>3. k.out # << >>
  BY <1>2
<1>4. PICK c \in Call : /\ call[c].fd = f /\ call[c].pc # "idle"
                        /\ IsCall(call[c]) /\ Phase(c, call[c], k)
  BY Zenon, <1>1, <1>3, HandlerOf DEF Quiet
<1> DEFINE x == call[c]
           y == call'[c]
<1>5. PICK m \in Asked(c) : \E a, b \in 0 .. AskLen(m) : Asking(x, k, m, a, b)
  BY <1>1, <1>3, <1>4 DEF Phase, Answering, Quiet
<1>6. PICK a \in 0 .. AskLen(m), b \in 0 .. AskLen(m) : Asking(x, k, m, a, b)
  BY Zenon, <1>5
<1> DEFINE got == k.handler.got \o SubSeq(k.out, 1, n)
           rest == SubSeq(k.out, n + 1, Len(k.out))
<1>7. PeerHasRead(k, m, a, b, n, got)
  <2>1. got = k.handler.got \o SubSeq(k.out, 1, n)
    OBVIOUS
  <2> HIDE DEF x, k, got
  <2> QED
    BY Zenon, <1>1, <1>6, <2>1, PeerReads
<1>8. /\ a + n \in 0 .. AskLen(m) /\ b <= AskLen(m) /\ Part(got, m, 0, a + n)
      /\ Part(rest, m, a + n, b) /\ got[1].msg = m
      /\ RequestWanted(got) > 0 <=> a + n < AskLen(m)
  BY Zenon, <1>7 DEF PeerHasRead
<1>9. \/ /\ a + n < AskLen(m) /\ UNCHANGED call
         /\ conn' = [conn EXCEPT ![f].out = rest, ![f].handler.got = got]
      \/ ~(a + n < AskLen(m)) /\ Serve(f, m, rest)
  <2>1. IF RequestWanted(got) > 0
        THEN /\ conn' = [conn EXCEPT ![f].out = rest, ![f].handler.got = got]
             /\ UNCHANGED call
        ELSE Serve(f, got[1].msg, rest)
    BY Zenon, <1>2
  <2> HIDE DEF got, rest
  <2> QED
    BY Zenon, <1>8, <2>1
<1>10. IsConn(k)
  BY Zenon DEF StreamInv
<1> HIDE DEF got, rest
<1>11. CASE /\ a + n < AskLen(m) /\ UNCHANGED call
            /\ conn' = [conn EXCEPT ![f].out = rest, ![f].handler.got = got]
  <2>1. /\ DOMAIN l = DOMAIN k /\ l.alive = k.alive /\ l.in = k.in /\ l.out = rest
        /\ DOMAIN l.handler = DOMAIN k.handler
        /\ l.handler.pc = k.handler.pc /\ l.handler.got = got
        /\ DOMAIN conn' = DOMAIN conn /\ \A g \in DOMAIN conn \ {f} : conn'[g] = conn[g]
    BY Zenon, <1>10, <1>11 DEF IsConn
  <2> HIDE DEF l
  <2>2. IsConn(l)
    BY <1>1, <1>10, <2>1 DEF IsConn
  <2>3. Asking(x, l, m, a + n, b)
    BY <1>1, <1>6, <1>8, <1>11, <2>1 DEF Asking
  <2>4. x.pc \in {"connect", "write", "header"} /\ Phase(c, x, l)
    <3>1. x.pc \in {"connect", "write", "header"}
      BY <1>1, <1>3, <1>4 DEF Phase, Answering, Quiet
    <3> QED
      BY Zenon, <1>6, <1>8, <2>3, <3>1 DEF Phase
  <2>5. Touches(c, f)
    BY Zenon, <1>4, <1>11, <2>1 DEF Touches
  <2>6. Leaves(c, f)
    BY Zenon, <1>4, <1>11, <2>2, <2>4 DEF Leaves, l
  <2> QED
    BY Zenon, <1>11, <2>5, <2>6
<1>12. CASE ~(a + n < AskLen(m)) /\ Serve(f, m, rest)
  <2>1. PICK status \in {"Ok", "Error"}, len \in ValueLen :
          conn' = [conn EXCEPT ![f].out = rest, ![f].handler =
              [pc |-> "write", got |-> << >>,
               todo |-> ResponseUnits([call |-> m.call, status |-> status, value |-> len])]]
    BY Zenon, <1>12 DEF Serve
  <2> DEFINE r == [call |-> c, status |-> status, value |-> len]
  <2>2. m.call = c /\ call' = [call EXCEPT ![c].served = @ + 1]
    <3>1. m.call = c
      BY Zenon, Lengths
    <3> QED
      BY Zenon, <1>12, <3>1 DEF Serve
  <2>3. r \in Answers(c)
    BY DEF Answers
  <2>4. conn' = [conn EXCEPT ![f].out = rest, ![f].handler =
                   [pc |-> "write", got |-> << >>, todo |-> ResponseUnits(r)]]
    BY Zenon, <2>1, <2>2
  <2> HIDE DEF r
  <2>5. /\ DOMAIN l = DOMAIN k /\ l.alive = k.alive /\ l.in = k.in /\ l.out = rest
        /\ l.handler = [pc |-> "write", got |-> << >>, todo |-> ResponseUnits(r)]
        /\ DOMAIN conn' = DOMAIN conn /\ \A g \in DOMAIN conn \ {f} : conn'[g] = conn[g]
    BY Zenon, <1>10, <2>4 DEF IsConn
  <2>6. /\ DOMAIN y = DOMAIN x /\ y.pc = x.pc /\ y.fd = f /\ y.got = x.got
        /\ y.served = x.served + 1
        /\ \A d \in Call \ {c} : call'[d] = call[d]
    BY <1>4, <2>2 DEF TypeInv, IsCall
  <2> HIDE DEF l, y
  <2>7. /\ DOMAIN l.handler = {"pc", "got", "todo"} /\ l.handler.pc = "write"
        /\ l.handler.got = << >> /\ l.handler.todo = ResponseUnits(r)
    BY <2>5
  <2>8. IsCall(y) /\ IsConn(l)
    BY <1>1, <1>4, <1>10, <2>5, <2>6, <2>7 DEF IsCall, IsConn
  <2>9. a + n = AskLen(m) /\ b = AskLen(m) /\ a + n = b
    <3>1. a + n <= b
      BY Zenon, <1>8 DEF Part
    <3>2. AskLen(m) \in Nat
      BY Zenon, Lengths
    <3> QED
      BY <1>8, <1>12, <3>1, <3>2
  <2>10. x.pc = "header" /\ x.served = 0 /\ x.got = << >> /\ k.in = << >>
    <3>1. x.pc \in {"connect", "write", "header"}
      BY <1>1, <1>3, <1>4 DEF Phase, Answering, Quiet
    <3> QED
      BY <1>1, <1>6, <2>9, <3>1 DEF Asking
  <2>11. rest = << >>
    <3>1. Part(rest, m, a + n, b)
      BY Zenon, <1>8
    <3>2. a + n = b
      BY Zenon, <2>9
    <3> QED
      BY Zenon, <3>1, <3>2, NoneLeft
  <2>12. /\ 0 < HeaderLen /\ 0 # AnswerLen(r) /\ 0 \in 0 .. AnswerLen(r)
         /\ Part(l.handler.todo, r, 0, AnswerLen(r))
    BY <2>3, <2>7, Lengths DEF Part
  <2>13. Part(<< >>, r, 0, 0)
    BY EmptyPart
  <2>14. Answering(y, l, r, 0, 0)
    BY <2>5, <2>6, <2>7, <2>10, <2>11, <2>12, <2>13 DEF Answering
  <2>15. Phase(c, y, l)
    BY Zenon, <2>3, <2>6, <2>10, <2>12, <2>14 DEF Phase
  <2>16. Touches(c, f)
    BY Zenon, <1>4, <2>5, <2>6 DEF Touches, y
  <2>17. Leaves(c, f)
    BY Zenon, <1>4, <2>6, <2>8, <2>15 DEF Leaves, l, y
  <2> QED
    BY Zenon, <2>6, <2>16, <2>17 DEF y
<1> QED
  BY Zenon, <1>9, <1>11, <1>12

(* The peer writes a piece of a response. *)
LEMMA HandlerWriteTouches ==
    ASSUME TypeInv, ConnectionsOwned, StreamInv, NEW f \in DOMAIN conn, HandlerWrite(f)
    PROVE  \E c \in Call : Touches(c, f) /\ Leaves(c, f) /\ call'[c].pc = call[c].pc
<1> DEFINE k == conn[f]
           l == conn'[f]
<1>1. k.alive /\ k.handler.pc = "write" /\ UNCHANGED call
  BY Zenon DEF HandlerWrite
<1>2. PICK n \in 1 .. Len(k.handler.todo) :
        conn' = [conn EXCEPT
          ![f].in = k.in \o SubSeq(k.handler.todo, 1, n),
          ![f].handler = IF n = Len(k.handler.todo) THEN Reading
                         ELSE [k.handler EXCEPT !.todo = SubSeq(@, n + 1, Len(@))]]
  BY Zenon DEF HandlerWrite
<1>3. PICK c \in Call : /\ call[c].fd = f /\ call[c].pc # "idle"
                        /\ IsCall(call[c]) /\ Phase(c, call[c], k)
  <2>1. ~Quiet(k)
    BY <1>1 DEF Quiet, Waits
  <2> QED
    BY Zenon, <2>1, HandlerOf
<1> DEFINE x == call[c]
<1>4. x.pc \in {"header", "value"}
  BY <1>1, <1>3 DEF Phase, Asking, Quiet, Waits
<1>5. PICK m \in Answers(c) : \E a, b \in 0 .. AnswerLen(m) : Answering(x, k, m, a, b)
  BY <1>1, <1>3, <1>4 DEF Phase, Asking
<1>6. PICK a \in 0 .. AnswerLen(m), b \in 0 .. AnswerLen(m) : Answering(x, k, m, a, b)
  BY Zenon, <1>5
<1>7. IsConn(k)
  BY Zenon DEF StreamInv
<1>8. /\ DOMAIN l = DOMAIN k /\ l.alive = k.alive /\ l.out = k.out
      /\ l.in = k.in \o SubSeq(k.handler.todo, 1, n)
      /\ l.handler = IF n = Len(k.handler.todo) THEN Reading
                     ELSE [k.handler EXCEPT !.todo = SubSeq(@, n + 1, Len(@))]
      /\ DOMAIN conn' = DOMAIN conn /\ \A g \in DOMAIN conn \ {f} : conn'[g] = conn[g]
  <2>1. ASSUME NEW s, NEW h, conn' = [conn EXCEPT ![f].in = s, ![f].handler = h]
        PROVE  /\ DOMAIN l = DOMAIN k /\ l.alive = k.alive /\ l.out = k.out
               /\ l.in = s /\ l.handler = h
               /\ DOMAIN conn' = DOMAIN conn /\ \A g \in DOMAIN conn \ {f} : conn'[g] = conn[g]
    BY Zenon, <1>7, <2>1 DEF IsConn
  <2> QED
    BY Zenon, <1>2, <2>1
<1> HIDE DEF l
<1>9. Replies(k, n, l) /\ DOMAIN l.handler = {"pc", "got", "todo"}
  <2>1. CASE n = Len(k.handler.todo)
    BY <1>8, <2>1 DEF Replies, Reading
  <2>2. CASE n # Len(k.handler.todo)
    BY Zenon, <1>1, <1>7, <1>8, <2>2 DEF Replies, IsConn
  <2> QED
    BY Zenon, <2>1, <2>2
<1>10. IsConn(l)
  BY <1>1, <1>7, <1>8, <1>9 DEF IsConn
<1>11. Answering(x, l, m, a, b + n) /\ b + n \in 0 .. AnswerLen(m)
  <2> HIDE DEF x, k
  <2> QED
    BY Zenon, <1>1, <1>6, <1>9, PeerWrites
<1>12. Phase(c, x, l)
  BY Zenon, <1>4, <1>6, <1>11 DEF Phase
<1>13. Touches(c, f)
  BY Zenon, <1>1, <1>3, <1>8 DEF Touches
<1>14. Leaves(c, f)
  BY Zenon, <1>1, <1>3, <1>10, <1>12 DEF Leaves, l
<1> QED
  BY Zenon, <1>1, <1>13, <1>14

(* A peer stops. *)
LEMMA StopKeeps ==
    ASSUME TypeInv, ConnectionsOwned, StreamInv, NEW p \in Peer, Stop(p)
    PROVE  StreamInv'
<1>1. UNCHANGED <<pool, call>>
  BY Zenon DEF Stop
<1>2. DOMAIN conn' = DOMAIN conn
  BY Zenon DEF Stop
<1>3. ASSUME NEW f \in DOMAIN conn
      PROVE  /\ IsConn(conn'[f])
             /\ Quiet(conn[f]) => Quiet(conn'[f])
             /\ \A c, x : Phase(c, x, conn[f]) => Phase(c, x, conn'[f])
  <2> DEFINE k == conn[f]
             l == conn'[f]
  <2>1. IsConn(k)
    BY Zenon DEF StreamInv
  <2>2. l = k \/ l = [k EXCEPT !.alive = FALSE, !.out = << >>, !.handler = Reading]
    BY Zenon DEF Stop
  <2>3. CASE l = k
    BY Zenon, <2>1, <2>3
  <2>4. CASE l = [k EXCEPT !.alive = FALSE, !.out = << >>, !.handler = Reading]
    <3>1. /\ DOMAIN l = DOMAIN k /\ l.alive = FALSE /\ l.out = << >> /\ l.handler = Reading
          /\ l.in = k.in
      BY <2>1, <2>4 DEF IsConn
    <3> HIDE DEF l
    <3>2. IsConn(l)
      <4>1. DOMAIN Reading = {"pc", "got", "todo"} /\ Reading.pc = "read" /\ Reading.got = << >>
        BY DEF Reading
      <4> QED
        BY Zenon, <2>1, <3>1, <4>1 DEF IsConn, Waits
    <3>3. Quiet(k) => Quiet(l)
      BY Zenon, <3>1 DEF Quiet
    <3>4. ASSUME NEW c, NEW x, Phase(c, x, k) PROVE Phase(c, x, l)
      <4>1. \A m, a, b : Asking(x, k, m, a, b) => Asking(x, l, m, a, b)
        BY Zenon, <3>1 DEF Asking
      <4>2. \A m, a, b : Answering(x, k, m, a, b) => Answering(x, l, m, a, b)
        BY Zenon, <3>1 DEF Answering
      <4>3. CASE /\ x.pc \in {"connect", "write", "header"}
                 /\ \E m \in Asked(c) : \E a, b \in 0 .. AskLen(m) : Asking(x, k, m, a, b)
        BY Zenon, <4>1, <4>3 DEF Phase
      <4>4. CASE /\ x.pc \in {"header", "value"}
                 /\ \E m \in Answers(c) : \E a, b \in 0 .. AnswerLen(m) :
                      Answering(x, k, m, a, b)
        BY Zenon, <4>2, <4>4 DEF Phase
      <4>5. CASE x.pc = "close" /\ x.served = 1 /\ Quiet(k)
        BY Zenon, <3>3, <4>5 DEF Phase
      <4>6. CASE x.pc = "broken" /\ x.served \in 0 .. 1
        BY Zenon, <3>1, <4>6 DEF Phase
      <4> QED
        BY Zenon, <3>4, <4>3, <4>4, <4>5, <4>6 DEF Phase
    <3> QED
      BY Zenon, <3>2, <3>3, <3>4 DEF l
  <2> QED
    BY Zenon, <2>2, <2>3, <2>4
<1>4. ASSUME NEW c \in Call, call[c].pc # "idle" PROVE call[c].fd \in DOMAIN conn
  BY Zenon, <1>4, HeldFd
<1>5. ASSUME NEW q \in Peer, NEW f \in Range(pool[q]) PROVE f \in DOMAIN conn
  BY Zenon, <1>5 DEF ConnectionsOwned
<1>6. ASSUME NEW c \in Call, call[c].pc # "idle"
      PROVE  Phase(c, call[c], conn'[call[c].fd])
  BY Zenon, <1>3, <1>4, <1>6 DEF StreamInv
<1>7. ASSUME NEW q \in Peer, NEW f \in Range(pool[q]) PROVE Quiet(conn'[f])
  BY Zenon, <1>3, <1>5, <1>7 DEF StreamInv
<1> QED
  BY Zenon, <1>1, <1>2, <1>3, <1>6, <1>7 DEF StreamInv

-----------------------------------------------------------------------------
(* The theorems *)

(* At the start nothing is under way. *)
LEMMA InitStream == Init => StreamInv
<1> SUFFICES ASSUME Init PROVE StreamInv
  OBVIOUS
<1>1. \A c \in Call : call[c] = Idle
  BY Zenon DEF Init
<1>2. IsCall(Idle) /\ Idle.pc = "idle"
  BY DEF Idle, IsCall
<1>3. DOMAIN conn = {}
  BY DEF Init
<1>4. \A p \in Peer : Range(pool[p]) = {}
  BY DEF Init, Range
<1> QED
  BY Zenon, <1>1, <1>2, <1>3, <1>4 DEF StreamInv

(* A step on one connection keeps the invariant, and only that call ends. *)
LEMMA OneStream ==
    ASSUME Inv, Inv', StreamInv, NEW c \in Call, NEW f,
           Touches(c, f), Leaves(c, f), Answered(c)
    PROVE  StreamInv' /\ \A d \in Call : Answered(d)
<1>1. StreamInv'
  BY Zenon, TouchesOne DEF Inv
<1>2. ASSUME NEW d \in Call, d # c PROVE Answered(d)
  <2>1. call'[d] = call[d]
    BY Zenon, <1>2 DEF Touches
  <2> QED
    BY <2>1 DEF Answered
<1> QED
  BY Zenon, <1>1, <1>2

(* A call that does not end has not been answered. *)
LEMMA NotYet ==
    ASSUME NEW c, call[c].pc \notin {"header", "value"} \/ call'[c].pc # "idle"
    PROVE  Answered(c)
BY Zenon DEF Answered

(* Every step keeps the invariant, and a call that ends has its answer. *)
LEMMA StepStream ==
    ASSUME Inv, Inv', StreamInv, [Next]_vars
    PROVE  StreamInv' /\ \A c \in Call : Answered(c)
<1>0. TypeInv /\ ConnectionsOwned
  BY Zenon DEF Inv
<1> DEFINE Goal == StreamInv' /\ \A c \in Call : Answered(c)
<1>1. ASSUME NEW c \in Call, NEW p \in Peer, NEW r \in Request,
             AcquirePooled(c, p, r) \/ OpenConnection(c, p, r)
      PROVE  Goal
  <2>1. call[c].pc = "idle" /\ \E f : Touches(c, f) /\ Leaves(c, f)
    BY Zenon, <1>0, <1>1, AcquireTouches
  <2>2. Answered(c)
    BY Zenon, <2>1, NotYet
  <2> QED
    BY Zenon, <2>1, <2>2, OneStream
<1>2. ASSUME NEW c \in Call, Connected(c) \/ ConnectRefused(c) \/ Close(c) PROVE Goal
  <2>1. Touches(c, call[c].fd) /\ Leaves(c, call[c].fd)
    BY Zenon, <1>0, <1>2, ConnectedTouches, ClosedTouches
  <2>2. call[c].pc \notin {"header", "value"}
    BY <1>2 DEF Connected, ConnectRefused, Close
  <2>3. Answered(c)
    BY Zenon, <2>2, NotYet
  <2> QED
    BY Zenon, <2>1, <2>3, OneStream
<1>3. ASSUME NEW c \in Call, Write(c) PROVE Goal
  <2>1. Touches(c, call[c].fd) /\ Leaves(c, call[c].fd)
    BY Zenon, <1>0, <1>3, WriteTouches
  <2>2. call[c].pc \notin {"header", "value"}
    BY <1>3 DEF Write
  <2>3. Answered(c)
    BY Zenon, <2>2, NotYet
  <2> QED
    BY Zenon, <2>1, <2>3, OneStream
<1>4. ASSUME NEW c \in Call, Read(c) PROVE Goal
  BY Zenon, <1>0, <1>4, ReadTouches, OneStream
<1>5. ASSUME NEW c \in Call, Break(c) PROVE Goal
  <2>1. call'[c].pc = "broken" /\ Touches(c, call[c].fd) /\ Leaves(c, call[c].fd)
    BY Zenon, <1>0, <1>5, BreakTouches
  <2>2. Answered(c)
    BY <2>1, NotYet
  <2> QED
    BY Zenon, <2>1, <2>2, OneStream
<1>6. ASSUME NEW f \in DOMAIN conn, Handler(f) PROVE Goal
  <2>1. PICK c \in Call : Touches(c, f) /\ Leaves(c, f) /\ call'[c].pc = call[c].pc
    BY Zenon, <1>0, <1>6, HandlerReadTouches, HandlerWriteTouches DEF Handler
  <2>2. Answered(c)
    BY <2>1 DEF Answered
  <2> QED
    BY Zenon, <2>1, <2>2, OneStream
<1>7. ASSUME UNCHANGED call PROVE \A c \in Call : Answered(c)
  BY <1>7 DEF Answered
<1>8. ASSUME NEW p \in Peer, Stop(p) PROVE Goal
  BY Zenon, <1>0, <1>7, <1>8, StopKeeps DEF Stop
<1>9. ASSUME NEW p \in Peer, Start(p) PROVE Goal
  BY Zenon, <1>7, <1>9 DEF Start, StreamInv
<1>10. ASSUME UNCHANGED vars PROVE Goal
  BY Zenon, <1>7, <1>10 DEF vars, StreamInv
<1> HIDE DEF Goal
<1>11. Goal
  BY Zenon, <1>1, <1>2, <1>3, <1>4, <1>5, <1>6, <1>8, <1>9, <1>10 DEF Next, CallStep
<1> QED
  BY Zenon, <1>11 DEF Goal

(* What a handler has read is the beginning of one request. *)
LEMMA StreamsIntact == Inv /\ StreamInv => RequestsIntact
<1> SUFFICES ASSUME Inv, StreamInv PROVE RequestsIntact
  OBVIOUS
<1>0. TypeInv /\ ConnectionsOwned
  BY Zenon DEF Inv
<1>1. ASSUME NEW c \in Call PROVE call[c].served <= 1
  <2>1. CASE call[c].pc = "idle"
    BY <2>1 DEF StreamInv, IsCall
  <2>2. CASE call[c].pc # "idle"
    <3>1. Phase(c, call[c], conn[call[c].fd])
      BY Zenon, <2>2 DEF StreamInv
    <3>2. call[c].served = 0 \/ call[c].served = 1 \/ call[c].served \in 0 .. 1
      BY Zenon, <3>1 DEF Phase, Asking, Answering
    <3> QED
      BY <3>2
  <2> QED
    BY Zenon, <2>1, <2>2
<1>2. ASSUME NEW f \in DOMAIN conn, conn[f].alive, conn[f].handler.got # << >>
      PROVE  LET got == conn[f].handler.got
                 asked == RequestUnits(got[1].msg)
             IN  Len(got) <= Len(asked) /\ got = SubSeq(asked, 1, Len(got))
  <2> DEFINE k == conn[f]
             got == k.handler.got
  <2>1. ~Quiet(k)
    BY Zenon, <1>2 DEF Quiet, Waits
  <2>2. PICK c \in Call : Phase(c, call[c], k)
    BY Zenon, <1>0, <2>1, HandlerOf
  <2>3. PICK m \in Asked(c) : \E a, b \in 0 .. AskLen(m) : Asking(call[c], k, m, a, b)
    BY <1>2, <2>1, <2>2 DEF Phase, Answering
  <2>4. PICK a \in 0 .. AskLen(m) : Part(got, m, 0, a)
    BY Zenon, <1>2, <2>3 DEF Asking
  <2>5. got # << >>
    BY Zenon, <1>2
  <2> HIDE DEF got
  <2>6. AskLen(m) \in Nat /\ Part(RequestUnits(m), m, 0, AskLen(m))
    BY Lengths DEF Part
  <2>7. Len(got) = a /\ Len(RequestUnits(m)) = AskLen(m)
    BY Zenon, <2>4, <2>6, BeginningLen
  <2>8. a \in 1 .. Len(got) /\ a \in 1 .. Len(RequestUnits(m)) /\ 0 < a
    <3>1. a # 0
      BY Zenon, <2>4, <2>5, NoneLeft
    <3> QED
      BY <2>6, <2>7, <3>1
  <2>9. got[1].msg = m
    BY Zenon, <2>4, <2>8, First
  <2>10. got = SubSeq(RequestUnits(m), 1, a)
    <3>1. Part(SubSeq(RequestUnits(m), 1, a), m, 0, 0 + a)
      BY Zenon, <2>6, <2>8, Split
    <3>2. 0 + a = a
      OBVIOUS
    <3> QED
      BY Zenon, <2>4, <3>1, <3>2 DEF Part
  <2> QED
    BY <2>6, <2>7, <2>9, <2>10 DEF got
<1> QED
  BY Zenon, <1>1, <1>2 DEF RequestsIntact
=============================================================================
