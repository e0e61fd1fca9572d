-------------------------- MODULE LocalStoreProofs --------------------------
(***************************************************************************)
(* Proofs about LocalStore, for any number of threads, shards, keys and    *)
(* values, any arena, page and slot sizes and any sizes of entries.        *)
(***************************************************************************)
EXTENDS LocalStoreInv, FiniteSetTheorems, TLAPS

(* A nonempty set of natural numbers has a least element, and Min is it. *)
LEMMA MinProperty ==
    ASSUME NEW S \in SUBSET Nat, S # {}
    PROVE  Min(S) \in S /\ \A y \in S : Min(S) <= y
<1>1. PICK x \in S : \A y \in S : ~ (<<y, x>> \in OpToRel(<, Nat))
  BY ZenonT(60), NatLessThanWellFounded, WFMin
<1>2. ASSUME NEW a \in Nat, NEW b \in Nat, a < b
      PROVE  <<a, b>> \in OpToRel(<, Nat)
  <2>1. OpToRel(<, Nat) = {ss \in Nat \X Nat : ss[1] < ss[2]}
    BY DEF OpToRel
  <2>2. QED BY ZenonT(60), <2>1, <1>2
<1>3. \A y \in S : ~ (y < x)
  BY ZenonT(60), <1>1, <1>2
<1>4. \A y \in S : x <= y
  BY <1>3
<1>5. QED
  BY ZenonT(60), <1>4 DEF Min

(* Induction, with a set of numbers in place of a predicate. *)
LEMMA Induction ==
    ASSUME NEW S, 0 \in S, \A n \in Nat : n \in S => n + 1 \in S
    PROVE  \A n \in Nat : n \in S
<1> DEFINE Bad == {n \in Nat : n \notin S}
<1> SUFFICES ASSUME Bad # {} PROVE FALSE
  OBVIOUS
<1>1. Bad \in SUBSET Nat
  OBVIOUS
<1>2. Min(Bad) \in Bad /\ \A y \in Bad : Min(Bad) <= y
  BY ZenonT(60), <1>1, MinProperty
<1>3. PICK m \in Bad : \A y \in Bad : m <= y
  BY ZenonT(60), <1>2
<1>4. m \in Nat /\ m # 0 /\ m - 1 \in Nat /\ m - 1 \notin Bad
  BY <1>3
<1>5. m - 1 \in S /\ (m - 1) + 1 = m
  BY <1>4
<1>6. QED
  BY <1>3, <1>4, <1>5

-----------------------------------------------------------------------------
(* Powers of two and sizes of slots *)

(* There are twice as many subsets of 1 .. n + 1 as of 1 .. n. *)
LEMMA Doubling ==
    ASSUME NEW n \in Nat
    PROVE  2^n \in Nat \ {0} /\ 2^(n + 1) = 2^n + 2^n
<1>. DEFINE A == SUBSET (1 .. n)
            B == {x \cup {n + 1} : x \in A}
            f == [x \in A |-> x \cup {n + 1}]
<1>1. IsFiniteSet(1 .. n) /\ Cardinality(1 .. n) = n
  BY FS_Interval
<1>2. IsFiniteSet(A) /\ Cardinality(A) = 2^n
  BY Zenon, <1>1, FS_SUBSET
<1>3. IsFiniteSet(1 .. n + 1) /\ Cardinality(1 .. n + 1) = n + 1
  BY FS_Interval
<1>4. Cardinality(SUBSET (1 .. n + 1)) = 2^(n + 1)
  BY Zenon, <1>3, FS_SUBSET
<1>5. SUBSET (1 .. n + 1) = A \cup B
  <2>1. ASSUME NEW x \in SUBSET (1 .. n + 1)
        PROVE  x \in A \cup B
    <3>1. CASE n + 1 \in x
      <4>1. x \ {n + 1} \in A /\ x = (x \ {n + 1}) \cup {n + 1}
        BY <3>1
      <4>. QED
        BY Zenon, <4>1
    <3>2. CASE n + 1 \notin x
      BY <3>2
    <3>. QED
      BY <3>1, <3>2
  <2>2. ASSUME NEW x \in A \cup B
        PROVE  x \in SUBSET (1 .. n + 1)
    OBVIOUS
  <2>. QED
    BY Zenon, <2>1, <2>2
<1>6. \A x \in A : n + 1 \notin x
  OBVIOUS
<1>7. A \cap B = {}
  BY <1>6
<1>8. f \in Bijection(A, B)
  <2>1. f \in Surjection(A, B)
    BY Zenon DEF Surjection
  <2>2. ASSUME NEW x \in A, NEW y \in A, f[x] = f[y]
        PROVE  x = y
    <3>1. x = f[x] \ {n + 1} /\ y = f[y] \ {n + 1}
      BY <1>6
    <3>. QED
      BY <2>2, <3>1
  <2>. QED
    BY Zenon, <2>1, <2>2 DEF Bijection, Injection, Surjection, IsInjective
<1>9. {} \in A
  OBVIOUS
<1>. HIDE DEF A, B, f
<1>10. IsFiniteSet(B) /\ Cardinality(B) = Cardinality(A)
  BY <1>2, <1>8, FS_Bijection DEF ExistsBijection
<1>11. Cardinality(A \cap B) = 0
  BY <1>7, FS_EmptySet
<1>12. Cardinality(A) \in Nat /\ Cardinality(A) # 0
  BY <1>2, <1>9, FS_CardinalityType, FS_EmptySet
<1>13. Cardinality(A \cup B) = Cardinality(A) + Cardinality(B) - Cardinality(A \cap B)
  BY <1>2, <1>10, FS_Union
<1>14. Cardinality(A \cup B) = Cardinality(A) + Cardinality(A)
  BY <1>10, <1>11, <1>12, <1>13
<1>. QED
  BY Zenon, <1>2, <1>4, <1>5, <1>12, <1>14

(* Powers of two multiply by adding exponents. *)
LEMMA PowersMultiply ==
    ASSUME NEW c \in Nat, NEW k \in Nat
    PROVE  2^(c + k) = 2^c * 2^k
<1>. DEFINE Good == {j \in Nat : 2^(c + j) = 2^c * 2^j}
<1>1. 2^c \in Nat
  BY Doubling
<1>2. 0 \in Good
  <2>1. 2^0 = 1 /\ c + 0 = c
    OBVIOUS
  <2>. QED
    BY <1>1, <2>1
<1>3. ASSUME NEW j \in Nat, j \in Good
      PROVE  j + 1 \in Good
  <2>. DEFINE a == 2^c
              b == 2^j
  <2>1. 2^((c + j) + 1) = 2^(c + j) + 2^(c + j) /\ 2^(j + 1) = b + b /\ b \in Nat
    BY Doubling
  <2>2. 2^(c + j) = a * b /\ c + (j + 1) = (c + j) + 1 /\ a \in Nat
    BY <1>1, <1>3
  <2>3. a * b + a * b = a * (b + b)
    <3>. HIDE DEF a, b
    <3>. QED
      BY <2>1, <2>2
  <2>4. 2^(c + (j + 1)) = 2^c * 2^(j + 1)
    BY <2>1, <2>2, <2>3
  <2>. QED
    BY <2>4
<1>. HIDE DEF Good
<1>4. k \in Good
  BY <1>2, <1>3, Induction
<1>. QED
  BY <1>4 DEF Good

(* What \div and % say of each other. *)
LEMMA Quotient ==
    ASSUME NEW a \in Nat, NEW b \in Nat, b > 0
    PROVE  /\ a \div b \in Nat
           /\ a % b = 0 => a = b * (a \div b)
           /\ \A c \in Nat : a = b * c => a \div b = c
           /\ \A c \in Nat : c < a \div b => (c + 1) * b <= a
OBVIOUS

(* A page is cut into slots of any class without a rest. *)
LEMMA SlotSizes ==
    ASSUME NEW c \in Class
    PROVE  /\ SlotSize(c) \in Nat \ {0}
           /\ PageSize \div SlotSize(c) \in Nat \ {0}
           /\ (PageSize \div SlotSize(c)) * SlotSize(c) = PageSize
<1>. DEFINE k == NumClasses - 1 - c
            a == 2^c
            b == 2^k
            s == SlotSize(c)
<1>1. c \in Nat /\ k \in Nat /\ NumClasses - 1 = c + k
  BY StoreAssumption DEF Class
<1>2. 2^(c + k) = a * b
  BY Zenon, <1>1, PowersMultiply
<1>3. a \in Nat \ {0} /\ b \in Nat \ {0}
  BY <1>1, Doubling
<1>4. MinSlotSize \in Nat \ {0} /\ PageSize \in Nat \ {0} /\ PageSize % MaxSlotSize = 0
  BY StoreAssumption
<1>5. s = MinSlotSize * a /\ MaxSlotSize = MinSlotSize * (a * b)
  BY <1>1, <1>2 DEF SlotSize, MaxSlotSize
<1>. HIDE DEF a, b, s
<1>6. s \in Nat \ {0} /\ MaxSlotSize = s * b
  BY <1>3, <1>4, <1>5
<1>7. MaxSlotSize \in Nat /\ MaxSlotSize > 0
  BY <1>3, <1>6
<1>. DEFINE q == PageSize \div MaxSlotSize
<1>8. q \in Nat /\ PageSize = MaxSlotSize * q
  BY <1>4, <1>7, Quotient
<1>. HIDE DEF q
<1>9. b * q \in Nat /\ PageSize = s * (b * q)
  BY <1>3, <1>6, <1>8
<1>10. PageSize \div s = b * q
  BY <1>4, <1>6, <1>9, Quotient
<1>11. (b * q) * s = PageSize /\ b * q # 0
  BY <1>4, <1>6, <1>9
<1>. QED
  BY <1>6, <1>9, <1>10, <1>11 DEF s

(* class_for_size finds a class whose slots are large enough, if any. *)
LEMMA ClassFits ==
    ASSUME NEW size \in Nat
    PROVE  /\ ClassForSize(size) \in Class \cup {NumClasses}
           /\ ClassForSize(size) < NumClasses =>
                ClassForSize(size) \in Class /\ size <= SlotSize(ClassForSize(size))
<1>. DEFINE S == {c \in Class : SlotSize(c) >= size}
<1>1. NumClasses \in Nat \ {0} /\ MinSlotSize \in Nat \ {0} /\ Class \in SUBSET Nat
  BY StoreAssumption DEF Class
<1>2. 0 \in Class /\ SlotSize(0) = MinSlotSize
  <2>1. 2^0 = 1
    OBVIOUS
  <2>. QED
    BY <1>1, <2>1 DEF SlotSize, Class
<1>3. NumClasses - 1 \in Class /\ SlotSize(NumClasses - 1) = MaxSlotSize
  BY <1>1 DEF Class, SlotSize, MaxSlotSize
<1>4. MaxSlotSize \in Nat
  BY <1>3, SlotSizes
<1>5. CASE size <= MinSlotSize
  <2>. DEFINE a == 2^(NumClasses - 1)
  <2>1. MaxSlotSize = MinSlotSize * a /\ a \in Nat \ {0}
    BY <1>1, Doubling DEF MaxSlotSize
  <2>. HIDE DEF a
  <2>2. MinSlotSize <= MaxSlotSize
    BY <1>1, <2>1
  <2>3. ~(size > MaxSlotSize)
    BY <1>1, <1>4, <1>5, <2>2
  <2>4. ClassForSize(size) = 0
    BY <1>5, <2>3 DEF ClassForSize
  <2>. QED
    BY <1>1, <1>2, <1>5, <2>4
<1>6. CASE ~(size <= MinSlotSize) /\ size > MaxSlotSize
  <2>1. ClassForSize(size) = NumClasses
    BY <1>6 DEF ClassForSize
  <2>. QED
    BY <1>1, <2>1
<1>7. CASE ~(size <= MinSlotSize) /\ ~(size > MaxSlotSize)
  <2>1. ClassForSize(size) = Min(S)
    BY <1>7 DEF ClassForSize
  <2>2. NumClasses - 1 \in S
    BY <1>3, <1>4, <1>7
  <2>3. S \in SUBSET Nat /\ S \in SUBSET Class /\ \A c \in S : SlotSize(c) >= size
    BY Zenon, <1>1
  <2>. HIDE DEF S
  <2>4. Min(S) \in S
    BY <2>2, <2>3, MinProperty
  <2>5. Min(S) \in Class /\ SlotSize(Min(S)) \in Nat /\ SlotSize(Min(S)) >= size
    BY Zenon, <2>3, <2>4, SlotSizes
  <2>. QED
    BY <2>1, <2>5
<1>. QED
  BY <1>5, <1>6, <1>7

-----------------------------------------------------------------------------
(* Slots *)

(* Membership in SlotsOf, one slot at a time. *)
LEMMA SlotMembers ==
    ASSUME NEW lists, NEW live, SlotTypes(lists, live)
    PROVE  /\ SlotsOf(lists, live) \subseteq Class \X Nat \X Nat
           /\ \A c \in Class, i \in Nat, p \in Nat :
                <<c, i, p>> \in SlotsOf(lists, live) <=> IsSlot(lists, live, c, i, p)
<1>. DEFINE L == {<<live[p], 0, p>> : p \in DOMAIN live}
            F(c) == {<<c, i, lists[c][i]>> : i \in DOMAIN lists[c]}
<1>1. \A c \in Class : lists[c] \in Seq(Nat) /\ DOMAIN lists[c] = 1 .. Len(lists[c])
  BY DEF SlotTypes
<1>2. \A c \in Class : \A i \in DOMAIN lists[c] : i \in Nat /\ lists[c][i] \in Nat
  BY <1>1
<1>3. L \subseteq Class \X Nat \X Nat
  BY DEF SlotTypes
<1>4. \A c \in Class : F(c) \subseteq Class \X Nat \X Nat
  BY <1>2
<1>5. ASSUME NEW c \in Class, NEW i \in Nat, NEW p \in Nat
      PROVE  <<c, i, p>> \in SlotsOf(lists, live) <=> IsSlot(lists, live, c, i, p)
  <2>1. <<c, i, p>> \in L <=> i = 0 /\ p \in DOMAIN live /\ c = live[p]
    OBVIOUS
  <2>2. <<c, i, p>> \in UNION {F(d) : d \in Class} <=> <<c, i, p>> \in F(c)
    OBVIOUS
  <2>3. <<c, i, p>> \in F(c) <=> i \in 1 .. Len(lists[c]) /\ p = lists[c][i]
    BY <1>1
  <2>. QED
    BY <2>1, <2>2, <2>3 DEF SlotsOf, IsSlot
<1>. QED
  BY <1>3, <1>4, <1>5 DEF SlotsOf

(* Two slots with the same address are one. *)
LEMMA OneSlotEach ==
    ASSUME NEW S, NEW n, Tiles(S, n), NEW x \in S, NEW y \in S, x[3] = y[3]
    PROVE  x = y
<1>1. x[1] \in Class /\ y[1] \in Class /\ x[3] \in Nat
  BY DEF Tiles
<1>2. SlotSize(x[1]) \in Nat \ {0} /\ SlotSize(y[1]) \in Nat \ {0}
  BY <1>1, SlotSizes
<1>3. Covers(x, x[3]) /\ Covers(y, x[3])
  BY <1>1, <1>2 DEF Covers
<1>. QED
  BY <1>1, <1>3 DEF Tiles

(* A slot is freed or taken: its bytes stay the same. *)
LEMMA Retiled ==
    ASSUME NEW S, NEW n, Tiles(S, n), NEW x \in S, NEW y \in Class \X Nat \X Nat,
           x[1] = y[1], x[3] = y[3], NEW T, T = (S \ {x}) \cup {y}
    PROVE  Tiles(T, n)
<1>1. \A b : Covers(x, b) <=> Covers(y, b)
  BY DEF Covers
<1>2. T \subseteq Class \X Nat \X Nat
  BY DEF Tiles
<1>3. ASSUME NEW b \in Nat
      PROVE  b < n <=> \E z \in T : Covers(z, b)
  <2>1. b < n <=> \E z \in S : Covers(z, b)
    BY DEF Tiles
  <2>2. (\E z \in S : Covers(z, b)) <=> (\E z \in T : Covers(z, b))
    BY <1>1
  <2>. QED
    BY <2>1, <2>2
<1>4. ASSUME NEW b \in Nat, NEW u \in T, NEW v \in T, Covers(u, b), Covers(v, b)
      PROVE  u = v
  <2>1. \A z \in S, w \in S : Covers(z, b) /\ Covers(w, b) => z = w
    BY DEF Tiles
  <2>2. CASE u = y /\ v # y
    BY <1>1, <1>4, <2>1, <2>2
  <2>3. CASE u # y /\ v = y
    BY <1>1, <1>4, <2>1, <2>3
  <2>4. CASE u # y /\ v # y
    BY <1>4, <2>1, <2>4
  <2>. QED
    BY <2>2, <2>3, <2>4
<1>. QED
  BY <1>2, <1>3, <1>4 DEF Tiles

(* Multiples of s cut 0 .. m * s - 1 into pieces of length s. *)
LEMMA Pieces ==
    ASSUME NEW s \in Nat \ {0}, NEW m \in Nat
    PROVE  \A o \in Nat : o < m * s => \E i \in 1 .. m : (i - 1) * s <= o /\ o < (i - 1) * s + s
<1>. DEFINE Cut(k) == \A o \in Nat : o < k * s =>
                        \E i \in 1 .. k : (i - 1) * s <= o /\ o < (i - 1) * s + s
            Good == {k \in Nat : Cut(k)}
<1>1. 0 \in Good
  OBVIOUS
<1>2. ASSUME NEW k \in Nat, k \in Good
      PROVE  k + 1 \in Good
  <2>1. (k + 1) * s = k * s + s /\ k * s \in Nat /\ (k + 1) - 1 = k
    OBVIOUS
  <2>2. ASSUME NEW o \in Nat, o < (k + 1) * s
        PROVE  \E i \in 1 .. k + 1 : (i - 1) * s <= o /\ o < (i - 1) * s + s
    <3>1. CASE o < k * s
      <4>1. PICK i \in 1 .. k : (i - 1) * s <= o /\ o < (i - 1) * s + s
        BY Zenon, <1>2, <3>1
      <4>2. i \in 1 .. k + 1
        OBVIOUS
      <4>. QED
        BY <4>1, <4>2
    <3>2. CASE ~(o < k * s)
      <4>1. k * s <= o /\ o < k * s + s
        BY <2>1, <2>2, <3>2
      <4>2. k + 1 \in 1 .. k + 1
        OBVIOUS
      <4>. QED
        BY <2>1, <4>1, <4>2
    <3>. QED
      BY <3>1, <3>2
  <2>. QED
    BY <2>2
<1>. HIDE DEF Good
<1>3. m \in Good
  BY <1>1, <1>2, Induction
<1>. QED
  BY Zenon, <1>3 DEF Good

(* assign_page: the next page is added. *)
LEMMA PageTiles ==
    ASSUME NEW S, NEW n \in Nat, Tiles(S, n), NEW c \in Class
    PROVE  Tiles(S \cup Page(c, n), n + PageSize)
<1>. DEFINE s == SlotSize(c)
            m == PageSize \div SlotSize(c)
            at(i) == n + (i - 1) * s
            P == Page(c, n)
<1>1. s \in Nat \ {0} /\ m \in Nat \ {0} /\ m * s = PageSize
  BY SlotSizes
<1>2. P = {<<c, i, at(i)>> : i \in 1 .. m}
  BY DEF Page
<1>4. \A i \in 1 .. m, b \in Nat : Covers(<<c, i, at(i)>>, b) <=> at(i) <= b /\ b < at(i) + s
  BY DEF Covers
<1>5. PageSize \in Nat \ {0}
  BY StoreAssumption
<1>. HIDE DEF s, m, P
<1>6. \A i \in 1 .. m : at(i) \in Nat /\ n <= at(i) /\ at(i) + s <= n + PageSize
  <2>. SUFFICES ASSUME NEW i \in 1 .. m
                PROVE  at(i) \in Nat /\ n <= at(i) /\ at(i) + s <= n + PageSize
    OBVIOUS
  <2>. DEFINE j == i - 1
  <2>1. j \in Nat /\ j + 1 <= m
    BY <1>1
  <2>. HIDE DEF j
  <2>2. j * s \in Nat /\ j * s + s <= m * s
    BY <1>1, <2>1
  <2>3. at(i) = n + j * s
    BY DEF j
  <2>. QED
    BY <1>1, <1>5, <2>2, <2>3
<1>7. \A i \in 1 .. m, k \in 1 .. m : i < k => at(i) + s <= at(k)
  <2>. SUFFICES ASSUME NEW i \in 1 .. m, NEW k \in 1 .. m, i < k
                PROVE  at(i) + s <= at(k)
    OBVIOUS
  <2>. DEFINE a == i - 1
              b == k - 1
  <2>1. a \in Nat /\ b \in Nat /\ a + 1 <= b
    BY <1>1
  <2>2. at(i) = n + a * s /\ at(k) = n + b * s
    OBVIOUS
  <2>. HIDE DEF a, b
  <2>3. a * s \in Nat /\ b * s \in Nat /\ a * s + s <= b * s
    BY <1>1, <2>1
  <2>. QED
    BY <1>1, <2>2, <2>3
<1>8. \A b \in Nat : (n <= b /\ b < n + PageSize) => \E i \in 1 .. m : at(i) <= b /\ b < at(i) + s
  <2>. SUFFICES ASSUME NEW b \in Nat, n <= b, b < n + PageSize
                PROVE  \E i \in 1 .. m : at(i) <= b /\ b < at(i) + s
    OBVIOUS
  <2>. DEFINE o == b - n
  <2>1. o \in Nat /\ o < m * s /\ b = n + o
    BY <1>1, <1>5
  <2>. HIDE DEF o
  <2>2. PICK i \in 1 .. m : (i - 1) * s <= o /\ o < (i - 1) * s + s
    BY Zenon, <1>1, <2>1, Pieces
  <2>3. (i - 1) * s \in Nat
    BY <1>1
  <2>4. at(i) <= b /\ b < at(i) + s
    BY <1>1, <2>1, <2>2, <2>3
  <2>. QED
    BY <2>4
<1>. HIDE DEF at
<1>9. ASSUME NEW x \in P
      PROVE  \E i \in 1 .. m : x = <<c, i, at(i)>>
  BY <1>2
<1>10. S \cup P \subseteq Class \X Nat \X Nat
  BY <1>1, <1>2, <1>6 DEF Tiles
<1>11. ASSUME NEW b \in Nat
       PROVE  b < n + PageSize <=> \E x \in S \cup P : Covers(x, b)
  <2>1. b < n <=> \E x \in S : Covers(x, b)
    BY DEF Tiles
  <2>2. (\E x \in P : Covers(x, b)) <=> (\E i \in 1 .. m : at(i) <= b /\ b < at(i) + s)
    BY Zenon, <1>2, <1>4
  <2>3. (\E i \in 1 .. m : at(i) <= b /\ b < at(i) + s) <=> (n <= b /\ b < n + PageSize)
    BY <1>1, <1>5, <1>6, <1>8
  <2>4. b < n + PageSize <=> (b < n \/ (n <= b /\ b < n + PageSize))
    BY <1>5
  <2>. QED
    BY <2>1, <2>2, <2>3, <2>4
<1>12. ASSUME NEW b \in Nat, NEW x \in S \cup P, NEW y \in S \cup P, Covers(x, b), Covers(y, b)
       PROVE  x = y
  <2>1. \A z \in S : Covers(z, b) => b < n
    BY DEF Tiles
  <2>2. \A z \in P : Covers(z, b) => n <= b
    <3>. SUFFICES ASSUME NEW z \in P, Covers(z, b) PROVE n <= b
      OBVIOUS
    <3>1. PICK i \in 1 .. m : z = <<c, i, at(i)>>
      BY <1>9
    <3>2. at(i) <= b
      BY <1>4, <3>1
    <3>. QED
      BY <1>6, <3>2
  <2>3. CASE x \in S /\ y \in S
    BY <1>12, <2>3 DEF Tiles
  <2>4. CASE x \in P /\ y \in P
    <3>1. PICK i \in 1 .. m : x = <<c, i, at(i)>>
      BY <1>9, <2>4
    <3>2. PICK k \in 1 .. m : y = <<c, k, at(k)>>
      BY <1>9, <2>4
    <3>3. at(i) <= b /\ b < at(i) + s /\ at(k) <= b /\ b < at(k) + s
      BY <1>4, <1>12, <3>1, <3>2
    <3>4. at(i) \in Nat /\ at(k) \in Nat /\ i \in Nat /\ k \in Nat
      BY <1>1, <1>6
    <3>5. ~(i < k) /\ ~(k < i)
      BY <1>1, <1>7, <3>3, <3>4
    <3>6. i = k
      BY <3>4, <3>5
    <3>. QED
      BY <3>1, <3>2, <3>6
  <2>5. ~(b < n /\ n <= b)
    OBVIOUS
  <2>. QED
    BY <1>12, <2>1, <2>2, <2>3, <2>4, <2>5
<1>13. Tiles(S \cup P, n + PageSize)
  BY <1>10, <1>11, <1>12 DEF Tiles
<1>. QED
  BY <1>13 DEF P

(* A function on 1 .. n is a sequence of length n. *)
LEMMA FunctionIsSeq ==
    ASSUME NEW S, NEW n \in Nat, NEW f \in [1 .. n -> S]
    PROVE  f \in Seq(S) /\ Len(f) = n
OBVIOUS

(* What vector::back and vector::pop_back do to a sequence. *)
LEMMA PopBackBack ==
    ASSUME NEW S, NEW s \in Seq(S), s # <<>>
    PROVE  /\ Len(s) \in Nat \ {0} /\ Back(s) = s[Len(s)] /\ Back(s) \in S
           /\ PopBack(s) \in Seq(S) /\ Len(PopBack(s)) = Len(s) - 1
           /\ \A i \in 1 .. Len(s) - 1 : PopBack(s)[i] = s[i]
<1>1. Len(s) \in Nat \ {0} /\ \A i \in 1 .. Len(s) : s[i] \in S
  OBVIOUS
<1>. DEFINE k == Len(s) - 1
<1>2. k \in Nat /\ \A i \in 1 .. k : s[i] \in S
  BY <1>1
<1>3. PopBack(s) = SubSeq(s, 1, k)
  BY DEF PopBack
<1>. HIDE DEF k
<1>4. /\ SubSeq(s, 1, k) \in Seq(S)
      /\ Len(SubSeq(s, 1, k)) = IF 1 <= k THEN k - 1 + 1 ELSE 0
      /\ \A i \in 1 .. k - 1 + 1 : SubSeq(s, 1, k)[i] = s[1 + i - 1]
  BY <1>2
<1>5. Len(SubSeq(s, 1, k)) = k /\ \A i \in 1 .. k : SubSeq(s, 1, k)[i] = s[i]
  BY <1>2, <1>4
<1>. QED
  BY <1>1, <1>3, <1>4, <1>5 DEF k, Back

(* Sets of slots with the same slots are equal. *)
LEMMA TripleSame ==
    ASSUME NEW A \in SUBSET (Class \X Nat \X Nat), NEW B \in SUBSET (Class \X Nat \X Nat),
           \A c \in Class, i \in Nat, p \in Nat : <<c, i, p>> \in A <=> <<c, i, p>> \in B
    PROVE  A = B
<1>1. \A x \in Class \X Nat \X Nat : x \in A <=> x \in B
  OBVIOUS
<1>. QED
  BY <1>1

(* deallocate: a live slot goes to the end of its free list. *)
LEMMA PushSlots ==
    ASSUME NEW lists, NEW live, NEW n, Laid(lists, live, n), NEW p \in DOMAIN live,
           NEW lists2, lists2 = WithList(lists, live[p], Append(lists[live[p]], p)),
           NEW live2, live2 = Restrict(live, DOMAIN live \ {p})
    PROVE  Laid(lists2, live2, n)
<1>. /\ SlotTypes(lists, live) /\ Tiles(SlotsOf(lists, live), n)
     /\ lists2 = [lists EXCEPT ![live[p]] = Append(lists[live[p]], p)]
     /\ live2 = [q \in DOMAIN live \ {p} |-> live[q]]
  BY DEF Laid, WithList, Restrict
<1>. DEFINE c == live[p]
            k == Len(lists[c])
            x == <<c, 0, p>>
            y == <<c, k + 1, p>>
            S == SlotsOf(lists, live)
            T == SlotsOf(lists2, live2)
<1>1. /\ c \in Class /\ p \in Nat /\ lists[c] \in Seq(Nat) /\ k \in Nat
      /\ lists \in [Class -> Seq(Nat)] /\ DOMAIN live \subseteq Nat
  BY DEF SlotTypes
<1>2. lists2[c] = Append(lists[c], p) /\ \A d \in Class \ {c} : lists2[d] = lists[d]
  BY <1>1
<1>3. /\ Len(lists2[c]) = k + 1 /\ lists2[c][k + 1] = p
      /\ \A i \in 1 .. k : lists2[c][i] = lists[c][i]
  BY <1>1, <1>2
<1>4. lists2 \in [Class -> Seq(Nat)]
  BY <1>1, <1>2
<1>5. SlotTypes(lists2, live2)
  BY Zenon, <1>4 DEF SlotTypes
<1>6. DOMAIN live2 = DOMAIN live \ {p} /\ \A q \in DOMAIN live2 : live2[q] = live[q]
  BY Zenon
<1>7. /\ S \subseteq Class \X Nat \X Nat
      /\ \A d \in Class, i \in Nat, q \in Nat : <<d, i, q>> \in S <=> IsSlot(lists, live, d, i, q)
  BY SlotMembers
<1>8. /\ T \subseteq Class \X Nat \X Nat
      /\ \A d \in Class, i \in Nat, q \in Nat : <<d, i, q>> \in T <=> IsSlot(lists2, live2, d, i, q)
  BY Zenon, <1>5, SlotMembers
<1>9. x \in S /\ y \in Class \X Nat \X Nat /\ x[1] = y[1] /\ x[3] = y[3]
  BY <1>1, <1>7 DEF IsSlot
<1>10. ASSUME NEW d \in Class, NEW i \in Nat, NEW q \in Nat
       PROVE  IsSlot(lists2, live2, d, i, q) <=>
                \/ IsSlot(lists, live, d, i, q) /\ <<d, i, q>> # x
                \/ <<d, i, q>> = y
  <2>1. <<d, i, q>> = x <=> d = c /\ i = 0 /\ q = p
    OBVIOUS
  <2>2. <<d, i, q>> = y <=> d = c /\ i = k + 1 /\ q = p
    OBVIOUS
  <2>. HIDE DEF x, y
  <2>3. CASE i = 0
    <3>1. i \notin 1 .. Len(lists2[d]) /\ i \notin 1 .. Len(lists[d]) /\ i # k + 1
      BY <1>1, <2>3
    <3>2. q \in DOMAIN live2 <=> q \in DOMAIN live /\ q # p
      BY <1>6
    <3>. QED
      BY Zenon, <1>6, <2>1, <2>2, <2>3, <3>1, <3>2 DEF IsSlot
  <2>4. CASE i # 0 /\ d = c
    <3>1. i \in 1 .. k + 1 <=> (i \in 1 .. k \/ i = k + 1)
      BY <1>1, <2>4
    <3>2. i = k + 1 => i \notin 1 .. k
      BY <1>1
    <3>. QED
      BY <1>3, <2>1, <2>2, <2>4, <3>1, <3>2 DEF IsSlot
  <2>5. CASE i # 0 /\ d # c
    BY <1>2, <2>1, <2>2, <2>5 DEF IsSlot
  <2>. QED
    BY <2>3, <2>4, <2>5
<1>. HIDE DEF S, T, x, y
<1>11. T = (S \ {x}) \cup {y}
  <2>. DEFINE U == (S \ {x}) \cup {y}
  <2>1. U \subseteq Class \X Nat \X Nat
    BY <1>7, <1>9
  <2>2. \A d \in Class, i \in Nat, q \in Nat : <<d, i, q>> \in T <=> <<d, i, q>> \in U
    BY <1>7, <1>8, <1>10
  <2>. HIDE DEF U
  <2>3. T = U
    BY Zenon, <1>8, <2>1, <2>2, TripleSame
  <2>. QED
    BY <2>3 DEF U
<1>12. Tiles(S, n)
  BY DEF S
<1>13. Tiles(T, n)
  BY <1>9, <1>11, <1>12, Retiled
<1>. QED
  BY <1>5, <1>13 DEF T, Laid

(* allocate: the last slot of a free list becomes live. *)
LEMMA PopSlots ==
    ASSUME NEW lists, NEW live, NEW n, Laid(lists, live, n),
           NEW c \in Class, lists[c] # <<>>, NEW p, p = Back(lists[c]),
           NEW lists2, lists2 = WithList(lists, c, PopBack(lists[c])),
           NEW live2, live2 = WithEntry(live, p, c)
    PROVE  p \in Nat /\ p \notin DOMAIN live /\ Laid(lists2, live2, n)
<1>. /\ SlotTypes(lists, live) /\ Tiles(SlotsOf(lists, live), n)
     /\ lists2 = [lists EXCEPT ![c] = PopBack(lists[c])]
     /\ live2 = [q \in DOMAIN live \cup {p} |-> IF q = p THEN c ELSE live[q]]
  BY DEF Laid, WithList, WithEntry
<1>. DEFINE k == Len(lists[c])
            x == <<c, k, p>>
            y == <<c, 0, p>>
            S == SlotsOf(lists, live)
            T == SlotsOf(lists2, live2)
<1>1. /\ lists[c] \in Seq(Nat)
      /\ lists \in [Class -> Seq(Nat)] /\ DOMAIN live \subseteq Nat
  BY DEF SlotTypes
<1>2. k \in Nat \ {0} /\ p = lists[c][k] /\ p \in Nat
  BY Zenon, <1>1, PopBackBack
<1>3. lists2[c] = PopBack(lists[c]) /\ \A d \in Class \ {c} : lists2[d] = lists[d]
  BY <1>1
<1>4. /\ lists2[c] \in Seq(Nat) /\ Len(lists2[c]) = k - 1
      /\ \A i \in 1 .. k - 1 : lists2[c][i] = lists[c][i]
  <2>. DEFINE f == PopBack(lists[c])
  <2>1. /\ f \in Seq(Nat) /\ Len(f) = k - 1
        /\ \A i \in 1 .. k - 1 : f[i] = lists[c][i]
    BY Zenon, <1>1, PopBackBack
  <2>2. lists2[c] = f
    BY <1>3
  <2>. HIDE DEF f
  <2>. QED
    BY <2>1, <2>2
<1>5. lists2 \in [Class -> Seq(Nat)]
  BY <1>1, <1>4
<1>6. SlotTypes(lists2, live2)
  BY <1>2, <1>5 DEF SlotTypes
<1>7. /\ S \subseteq Class \X Nat \X Nat
      /\ \A d \in Class, i \in Nat, q \in Nat : <<d, i, q>> \in S <=> IsSlot(lists, live, d, i, q)
  BY SlotMembers
<1>8. /\ T \subseteq Class \X Nat \X Nat
      /\ \A d \in Class, i \in Nat, q \in Nat : <<d, i, q>> \in T <=> IsSlot(lists2, live2, d, i, q)
  BY Zenon, <1>6, SlotMembers
<1>9. x \in S /\ y \in Class \X Nat \X Nat /\ x[1] = y[1] /\ x[3] = y[3] /\ x[2] # 0
  BY <1>1, <1>2, <1>7 DEF IsSlot
<1>10. p \notin DOMAIN live
  <2>. SUFFICES ASSUME p \in DOMAIN live PROVE FALSE
    OBVIOUS
  <2>. DEFINE z == <<live[p], 0, p>>
  <2>1. live[p] \in Class
    BY DEF SlotTypes
  <2>2. z \in S
    BY <1>2, <1>7, <2>1 DEF IsSlot
  <2>3. z[3] = x[3] /\ z[2] = 0
    OBVIOUS
  <2>. HIDE DEF z, x
  <2>4. z = x
    BY <1>9, <2>2, <2>3, OneSlotEach
  <2>. QED
    BY <1>9, <2>3, <2>4
<1>11. /\ DOMAIN live2 = DOMAIN live \cup {p} /\ live2[p] = c
       /\ \A q \in DOMAIN live : live2[q] = live[q]
  BY <1>10
<1>12. ASSUME NEW d \in Class, NEW i \in Nat, NEW q \in Nat
       PROVE  IsSlot(lists2, live2, d, i, q) <=>
                \/ IsSlot(lists, live, d, i, q) /\ <<d, i, q>> # x
                \/ <<d, i, q>> = y
  <2>1. <<d, i, q>> = x <=> d = c /\ i = k /\ q = p
    OBVIOUS
  <2>2. <<d, i, q>> = y <=> d = c /\ i = 0 /\ q = p
    OBVIOUS
  <2>. HIDE DEF x, y
  <2>3. CASE i = 0
    BY <1>2, <1>10, <1>11, <2>1, <2>2, <2>3 DEF IsSlot
  <2>4. CASE i # 0 /\ d = c
    <3>1. i \in 1 .. k <=> (i \in 1 .. k - 1 \/ i = k)
      BY <1>2, <2>4
    <3>2. i = k => i \notin 1 .. k - 1
      BY <1>2
    <3>. QED
      BY <1>2, <1>4, <2>1, <2>2, <2>4, <3>1, <3>2 DEF IsSlot
  <2>5. CASE i # 0 /\ d # c
    BY <1>3, <2>1, <2>2, <2>5 DEF IsSlot
  <2>. QED
    BY <2>3, <2>4, <2>5
<1>. HIDE DEF S, T, x, y
<1>13. T = (S \ {x}) \cup {y}
  <2>. DEFINE U == (S \ {x}) \cup {y}
  <2>1. U \subseteq Class \X Nat \X Nat
    BY <1>7, <1>9
  <2>2. \A d \in Class, i \in Nat, q \in Nat : <<d, i, q>> \in T <=> <<d, i, q>> \in U
    BY <1>7, <1>8, <1>12
  <2>. HIDE DEF U
  <2>3. T = U
    BY Zenon, <1>8, <2>1, <2>2, TripleSame
  <2>. QED
    BY <2>3 DEF U
<1>14. Tiles(S, n)
  BY DEF S
<1>15. Tiles(T, n)
  BY <1>9, <1>13, <1>14, Retiled
<1>. QED
  BY <1>2, <1>6, <1>10, <1>15 DEF T, Laid

(* assign_page: the slots of the next page are put on an empty free list. *)
LEMMA PageSlots ==
    ASSUME NEW lists, NEW live, NEW n \in Nat, Laid(lists, live, n * PageSize),
           NEW c \in Class, lists[c] = <<>>, NEW page, page = CutPage(c, n),
           NEW lists2, lists2 = WithList(lists, c, page)
    PROVE  page # <<>> /\ page \in Seq(Nat) /\ Laid(lists2, live, (n + 1) * PageSize)
<1>. /\ SlotTypes(lists, live) /\ Tiles(SlotsOf(lists, live), n * PageSize)
     /\ page = [i \in 1 .. PageSize \div SlotSize(c) |-> n * PageSize + (i - 1) * SlotSize(c)]
     /\ lists2 = [lists EXCEPT ![c] = page]
  BY DEF Laid, WithList, CutPage
<1>. DEFINE s == SlotSize(c)
            m == PageSize \div SlotSize(c)
            base == n * PageSize
            S == SlotsOf(lists, live)
            T == SlotsOf(lists2, live)
            P == Page(c, base)
<1>1. s \in Nat \ {0} /\ m \in Nat \ {0}
  BY SlotSizes
<1>2. PageSize \in Nat \ {0}
  BY StoreAssumption
<1>3. base \in Nat /\ (n + 1) * PageSize = base + PageSize
  BY <1>2
<1>4. lists \in [Class -> Seq(Nat)]
  BY DEF SlotTypes
<1>5. page = [i \in 1 .. m |-> base + (i - 1) * s]
  OBVIOUS
<1>6. P = {<<c, i, base + (i - 1) * s>> : i \in 1 .. m}
  BY DEF Page
<1>. HIDE DEF s, m, base, P
<1>7. \A i \in 1 .. m : base + (i - 1) * s \in Nat
  <2>. SUFFICES ASSUME NEW i \in 1 .. m PROVE base + (i - 1) * s \in Nat
    OBVIOUS
  <2>. DEFINE j == i - 1
  <2>1. j \in Nat
    BY <1>1
  <2>. HIDE DEF j
  <2>2. j * s \in Nat
    BY <1>1, <2>1
  <2>. QED
    BY <1>3, <2>2 DEF j
<1>8. page \in Seq(Nat) /\ Len(page) = m /\ \A i \in 1 .. m : page[i] = base + (i - 1) * s
  <2>1. page \in [1 .. m -> Nat] /\ \A i \in 1 .. m : page[i] = base + (i - 1) * s
    BY Zenon, <1>5, <1>7
  <2>. QED
    BY Zenon, <1>1, <2>1, FunctionIsSeq
<1>9. page # <<>>
  BY Zenon, <1>1, <1>8
<1>10. lists2[c] = page /\ \A d \in Class \ {c} : lists2[d] = lists[d]
  BY Zenon, <1>4
<1>11. SlotTypes(lists2, live)
  BY Zenon, <1>4, <1>8 DEF SlotTypes
<1>12. /\ S \subseteq Class \X Nat \X Nat
       /\ \A d \in Class, i \in Nat, q \in Nat : <<d, i, q>> \in S <=> IsSlot(lists, live, d, i, q)
  BY SlotMembers
<1>13. /\ T \subseteq Class \X Nat \X Nat
       /\ \A d \in Class, i \in Nat, q \in Nat : <<d, i, q>> \in T <=> IsSlot(lists2, live, d, i, q)
  BY Zenon, <1>11, SlotMembers
<1>14. P \subseteq Class \X Nat \X Nat
  BY <1>1, <1>6, <1>7
<1>15. ASSUME NEW d \in Class, NEW i \in Nat, NEW q \in Nat
       PROVE  IsSlot(lists2, live, d, i, q) <=> IsSlot(lists, live, d, i, q) \/ <<d, i, q>> \in P
  <2>1. <<d, i, q>> \in P <=> d = c /\ i \in 1 .. m /\ q = base + (i - 1) * s
    BY <1>6
  <2>2. CASE d = c
    <3>1. IsSlot(lists2, live, d, i, q) <=>
            (i = 0 /\ q \in DOMAIN live /\ d = live[q]) \/ (i \in 1 .. m /\ q = base + (i - 1) * s)
      BY Zenon, <1>8, <1>10, <2>2 DEF IsSlot
    <3>2. 1 .. Len(lists[c]) = {}
      OBVIOUS
    <3>3. IsSlot(lists, live, d, i, q) <=> (i = 0 /\ q \in DOMAIN live /\ d = live[q])
      BY <2>2, <3>2 DEF IsSlot
    <3>. QED
      BY <2>1, <2>2, <3>1, <3>3
  <2>3. CASE d # c
    BY <1>10, <2>1, <2>3 DEF IsSlot
  <2>. QED
    BY <2>2, <2>3
<1>. HIDE DEF S, T
<1>16. T = S \cup P
  <2>. DEFINE U == S \cup P
  <2>1. U \subseteq Class \X Nat \X Nat
    BY <1>12, <1>14
  <2>2. \A d \in Class, i \in Nat, q \in Nat : <<d, i, q>> \in T <=> <<d, i, q>> \in U
    BY <1>12, <1>13, <1>15
  <2>. HIDE DEF U
  <2>3. T = U
    BY Zenon, <1>13, <2>1, <2>2, TripleSame
  <2>. QED
    BY <2>3 DEF U
<1>17. Tiles(S, base)
  BY DEF S, base
<1>18. Tiles(S \cup P, base + PageSize)
  BY <1>3, <1>17, PageTiles DEF P
<1>. QED
  BY Zenon, <1>3, <1>8, <1>9, <1>11, <1>16, <1>18 DEF T, Laid

-----------------------------------------------------------------------------
(* The clock evictor *)

(* A ring that is indexed has no entry twice. *)
LEMMA RingRange ==
    ASSUME NEW c, NEW S, Indexed(c, S)
    PROVE  /\ Range(c.ring) = S /\ DOMAIN c.index = S
           /\ IsFiniteSet(S) /\ Len(c.ring) = Cardinality(S) /\ Len(c.ring) \in Nat
           /\ \A i \in 1 .. Len(c.ring), j \in 1 .. Len(c.ring) : c.ring[i] = c.ring[j] => i = j
<1>. DEFINE r == c.ring
            n == Len(r)
<1>1. r \in Seq(S) /\ n \in Nat /\ DOMAIN r = 1 .. n /\ \A i \in 1 .. n : r[i] \in S
  BY DEF Indexed
<1>2. \A p \in S : c.index[p] \in Nat /\ c.index[p] < n /\ r[c.index[p] + 1] = p
  BY DEF Indexed
<1>3. \A p \in S : \E i \in 1 .. n : r[i] = p
  <2>. SUFFICES ASSUME NEW p \in S PROVE \E i \in 1 .. n : r[i] = p
    OBVIOUS
  <2>1. c.index[p] + 1 \in 1 .. n
    BY <1>1, <1>2
  <2>. QED
    BY <1>2, <2>1
<1>4. \A i \in 1 .. n, j \in 1 .. n : r[i] = r[j] => i = j
  <2>. SUFFICES ASSUME NEW i \in 1 .. n, NEW j \in 1 .. n, r[i] = r[j] PROVE i = j
    OBVIOUS
  <2>1. i - 1 = j - 1
    BY Zenon DEF Indexed
  <2>. QED
    BY <1>1, <2>1
<1>5. DOMAIN c.index = S
  BY DEF Indexed
<1>. HIDE DEF r, n
<1>6. Range(r) = S
  BY <1>1, <1>3 DEF Range
<1>7. r \in Bijection(1 .. n, S)
  <2>1. r \in [1 .. n -> S]
    BY <1>1
  <2>. QED
    BY <1>3, <1>4, <2>1 DEF Bijection, Injection, Surjection, IsInjective
<1>8. IsFiniteSet(1 .. n) /\ Cardinality(1 .. n) = n
  BY <1>1, FS_Interval
<1>9. IsFiniteSet(S) /\ Cardinality(S) = n
  BY <1>7, <1>8, FS_Bijection DEF ExistsBijection
<1>. QED
  BY <1>1, <1>4, <1>5, <1>6, <1>9 DEF r, n

(* track *)
LEMMA TrackKeeps ==
    ASSUME NEW c, NEW S, Tracks(c, S), NEW p, p \notin S
    PROVE  Tracks(Track(c, p), S \cup {p})
<1>. DEFINE r == c.ring
            n == Len(r)
            x == [q \in S \cup {p} |-> IF q = p THEN n ELSE c.index[q]]
            a == Append(r, p)
<1>1. /\ c = [ring |-> c.ring, index |-> c.index, hand |-> c.hand]
      /\ r \in Seq(S) /\ c.index \in [S -> Nat] /\ c.hand \in Nat /\ n \in Nat
      /\ \A i \in 1 .. n : r[i] \in S /\ c.index[r[i]] = i - 1
      /\ \A q \in S : c.index[q] \in Nat /\ c.index[q] < n /\ r[c.index[q] + 1] = q
      /\ c.hand = 0 \/ c.hand < n
  BY DEF Tracks, Indexed
<1>2. DOMAIN c.index = S
  BY <1>1
<1>3. Track(c, p) = [ring |-> a, index |-> x, hand |-> c.hand]
  <2>1. Track(c, p) = [c EXCEPT !.ring = a, !.index = x]
    BY <1>1, <1>2 DEF Track
  <2>. HIDE DEF a, x
  <2>. QED
    BY Zenon, <1>1, <2>1
<1>4. r \in Seq(S \cup {p})
  BY <1>1
<1>5. /\ a \in Seq(S \cup {p}) /\ Len(a) = n + 1 /\ a[n + 1] = p
      /\ \A i \in 1 .. n : a[i] = r[i]
  BY <1>1, <1>4
<1>6. x \in [S \cup {p} -> Nat] /\ x[p] = n /\ \A q \in S : x[q] = c.index[q]
  BY <1>1
<1>. DEFINE d == Track(c, p)
<1>7. d.ring = a /\ d.index = x /\ d.hand = c.hand
      /\ d = [ring |-> d.ring, index |-> d.index, hand |-> d.hand]
  BY <1>3
<1>. HIDE DEF a, x, r, n, d
<1>8. \A i \in 1 .. n + 1 : x[a[i]] = i - 1
  <2>. SUFFICES ASSUME NEW i \in 1 .. n + 1 PROVE x[a[i]] = i - 1
    OBVIOUS
  <2>1. CASE i = n + 1
    <3>1. x[a[i]] = n
      BY <1>5, <1>6, <2>1
    <3>. QED
      BY <1>1, <2>1, <3>1
  <2>2. CASE i # n + 1
    <3>1. i \in 1 .. n
      BY <1>1, <2>2
    <3>. QED
      BY Zenon, <1>1, <1>5, <1>6, <3>1
  <2>. QED
    BY <2>1, <2>2
<1>9. \A q \in S \cup {p} : x[q] < n + 1 /\ a[x[q] + 1] = q
  <2>. SUFFICES ASSUME NEW q \in S \cup {p} PROVE x[q] < n + 1 /\ a[x[q] + 1] = q
    OBVIOUS
  <2>1. CASE q = p
    BY <1>1, <1>5, <1>6, <2>1
  <2>2. CASE q # p
    <3>1. q \in S /\ x[q] = c.index[q] /\ c.index[q] \in Nat /\ c.index[q] < n
      BY <1>1, <1>6, <2>2
    <3>2. c.index[q] + 1 \in 1 .. n
      BY <1>1, <3>1
    <3>3. a[c.index[q] + 1] = q
      BY Zenon, <1>1, <1>5, <3>1, <3>2
    <3>. QED
      BY <1>1, <3>1, <3>3
  <2>. QED
    BY <2>1, <2>2
<1>10. d.hand = 0 \/ d.hand < n + 1
  BY <1>1, <1>7
<1>. DEFINE T == S \cup {p}
<1>11. /\ d = [ring |-> d.ring, index |-> d.index, hand |-> d.hand]
       /\ d.ring \in Seq(T) /\ d.index \in [T -> Nat] /\ d.hand \in Nat
       /\ Len(d.ring) = n + 1
  BY <1>1, <1>5, <1>6, <1>7
<1>12. \A i \in 1 .. Len(d.ring) : d.index[d.ring[i]] = i - 1
  BY <1>7, <1>8, <1>11
<1>13. \A q \in T : d.index[q] < Len(d.ring) /\ d.ring[d.index[q] + 1] = q
  BY <1>7, <1>9, <1>11
<1>. HIDE DEF T
<1>14. Tracks(d, T)
  BY <1>10, <1>11, <1>12, <1>13 DEF Tracks, Indexed
<1>. QED
  BY <1>14 DEF d, T

(* swap_remove *)
LEMMA SwapRemoveKeeps ==
    ASSUME NEW c, NEW S, Indexed(c, S), NEW idx \in Nat, idx < Len(c.ring)
    PROVE  /\ Indexed(SwapRemove(c, idx), S \ {c.ring[idx + 1]})
           /\ Len(SwapRemove(c, idx).ring) = Len(c.ring) - 1
           /\ SwapRemove(c, idx).hand = c.hand
<1>. DEFINE r == c.ring
            n == Len(r)
            p == r[idx + 1]
            back == r[n]
            mid == [r EXCEPT ![idx + 1] = back]
            f == PopBack(mid)
            R == S \ {p}
            x == [q \in R |-> IF q = back THEN idx ELSE c.index[q]]
            d == SwapRemove(c, idx)
<1>1. /\ c = [ring |-> c.ring, index |-> c.index, hand |-> c.hand]
      /\ r \in Seq(S) /\ c.index \in [S -> Nat] /\ c.hand \in Nat
      /\ n \in Nat \ {0} /\ n = Len(r) /\ idx < n /\ DOMAIN r = 1 .. n
      /\ \A i \in 1 .. n : r[i] \in S /\ c.index[r[i]] = i - 1
      /\ \A q \in S : c.index[q] \in Nat /\ c.index[q] < n /\ r[c.index[q] + 1] = q
  BY DEF Indexed
<1>. HIDE DEF r, n
<1>2. idx + 1 \in 1 .. n /\ n \in 1 .. n /\ Back(r) = back
  BY <1>1 DEF Back
<1>3. p \in S /\ back \in S /\ c.index[p] = idx /\ c.index[back] = n - 1
  BY <1>1, <1>2
<1>4. mid \in Seq(S) /\ Len(mid) = n /\ mid # <<>>
  BY <1>1, <1>2, <1>3
<1>5. mid[idx + 1] = back /\ \A i \in 1 .. n : i # idx + 1 => mid[i] = r[i]
  BY <1>1, <1>2
<1>6. /\ f \in Seq(S) /\ Len(f) = n - 1
      /\ \A i \in 1 .. n - 1 : f[i] = mid[i]
  <2>. HIDE DEF mid
  <2>. QED
    BY <1>4, PopBackBack
<1>7. DOMAIN c.index = S
  BY <1>1
<1>8. d = [ring |-> f, index |-> x, hand |-> c.hand]
  <2>. DEFINE moved == IF idx # n - 1 THEN [c.index EXCEPT ![back] = idx] ELSE c.index
  <2>1. DOMAIN moved = S
    BY <1>7
  <2>2. d = [c EXCEPT !.ring = f, !.index = Restrict(moved, DOMAIN moved \ {p})]
    BY <1>1, <1>2 DEF SwapRemove, r
  <2>3. ASSUME NEW q \in R
        PROVE  moved[q] = x[q]
    <3>1. idx = n - 1 => p = back
      BY <1>1
    <3>2. CASE q = back
      BY <1>1, <1>3, <3>1, <3>2
    <3>3. CASE q # back
      BY <1>1, <3>3
    <3>. QED
      BY <3>2, <3>3
  <2>. HIDE DEF moved
  <2>4. Restrict(moved, DOMAIN moved \ {p}) = [q \in R |-> moved[q]]
    BY <2>1 DEF Restrict
  <2>5. [q \in R |-> moved[q]] = x
    BY Zenon, <2>3
  <2>6. d = [c EXCEPT !.ring = f, !.index = x]
    BY Zenon, <2>2, <2>4, <2>5
  <2>. HIDE DEF f, x, d
  <2>. QED
    BY Zenon, <1>1, <2>6
<1>9. /\ d.ring = f /\ d.index = x /\ d.hand = c.hand
      /\ d = [ring |-> d.ring, index |-> d.index, hand |-> d.hand]
  <2>. HIDE DEF f, x, d
  <2>. QED
    BY <1>8
<1>10. ASSUME NEW i \in 1 .. n - 1
       PROVE  f[i] = IF i = idx + 1 THEN back ELSE r[i]
  <2>. HIDE DEF mid, f, back
  <2>1. i \in 1 .. n
    BY <1>1
  <2>2. f[i] = mid[i]
    BY <1>6
  <2>. QED
    BY <1>5, <2>1, <2>2
<1>11. x \in [R -> Nat] /\ \A q \in R : x[q] = IF q = back THEN idx ELSE c.index[q]
  BY <1>1
<1>. HIDE DEF mid, f, x, d
<1>12. \A i \in 1 .. n, j \in 1 .. n : r[i] = r[j] => i = j
  <2>. SUFFICES ASSUME NEW i \in 1 .. n, NEW j \in 1 .. n, r[i] = r[j] PROVE i = j
    OBVIOUS
  <2>1. i - 1 = j - 1
    BY <1>1
  <2>. QED
    BY <1>1, <2>1
<1>13. ASSUME NEW i \in 1 .. n - 1
       PROVE  f[i] \in R /\ x[f[i]] = i - 1
  <2>1. i \in 1 .. n /\ i # n
    BY <1>1
  <2>2. CASE i = idx + 1
    <3>1. f[i] = back
      BY <1>10, <2>2
    <3>2. back # p
      BY <1>2, <1>12, <2>1, <2>2
    <3>3. back \in R /\ x[back] = idx
      BY <1>3, <1>11, <3>2
    <3>. QED
      BY <2>2, <3>1, <3>3
  <2>3. CASE i # idx + 1
    <3>1. f[i] = r[i]
      BY <1>10, <2>3
    <3>2. r[i] # p /\ r[i] # back
      BY <1>2, <1>12, <2>1, <2>3
    <3>3. r[i] \in R /\ x[r[i]] = c.index[r[i]] /\ c.index[r[i]] = i - 1
      BY <1>1, <1>11, <2>1, <3>2
    <3>. QED
      BY <3>1, <3>3
  <2>. QED
    BY <2>2, <2>3
<1>14. ASSUME NEW q \in R
       PROVE  x[q] < n - 1 /\ f[x[q] + 1] = q
  <2>1. q \in S /\ q # p /\ c.index[q] \in Nat /\ c.index[q] < n /\ r[c.index[q] + 1] = q
    BY <1>1
  <2>2. CASE q = back
    <3>1. idx # n - 1
      BY <1>1, <2>1, <2>2
    <3>2. idx + 1 \in 1 .. n - 1 /\ idx < n - 1
      BY <1>1, <3>1
    <3>3. x[q] = idx /\ f[idx + 1] = back
      BY <1>10, <1>11, <2>2, <3>2
    <3>. QED
      BY <2>2, <3>2, <3>3
  <2>3. CASE q # back
    <3>1. c.index[q] + 1 # n /\ c.index[q] + 1 # idx + 1
      BY <2>1, <2>3
    <3>2. c.index[q] + 1 \in 1 .. n - 1 /\ c.index[q] < n - 1
      <4>. DEFINE h == c.index[q]
      <4>1. h \in Nat /\ h < n /\ h + 1 # n /\ n \in Nat
        BY <1>1, <2>1, <3>1
      <4>. HIDE DEF h
      <4>2. h + 1 \in 1 .. n - 1 /\ h < n - 1
        BY <4>1
      <4>. QED
        BY <4>2 DEF h
    <3>3. x[q] = c.index[q] /\ f[c.index[q] + 1] = r[c.index[q] + 1]
      BY <1>10, <1>11, <2>3, <3>1, <3>2
    <3>. QED
      BY <2>1, <3>2, <3>3
  <2>. QED
    BY <2>2, <2>3
<1>15. f \in Seq(R)
  <2>1. f \in [1 .. n - 1 -> R]
    BY <1>6, <1>13
  <2>2. n - 1 \in Nat
    BY <1>1
  <2>. HIDE DEF R
  <2>. QED
    BY <2>1, <2>2, FunctionIsSeq
<1>16. Indexed(d, R)
  BY Zenon, <1>1, <1>6, <1>9, <1>11, <1>13, <1>14, <1>15 DEF Indexed
<1>. QED
  BY <1>6, <1>9, <1>16 DEF d, r, n

(* After HandInRange the hand is on the ring. *)
LEMMA HandKept ==
    ASSUME NEW c, NEW S, Indexed(c, S)
    PROVE  Tracks(HandInRange(c), S)
<1>1. Len(c.ring) \in Nat /\ c.hand \in Nat
  BY DEF Indexed
<1>2. CASE c.hand >= Len(c.ring)
  <2>. DEFINE d == HandInRange(c)
  <2>1. d = [c EXCEPT !.hand = 0]
    BY <1>2 DEF HandInRange
  <2>2. /\ d.ring = c.ring /\ d.index = c.index /\ d.hand = 0
        /\ d = [ring |-> d.ring, index |-> d.index, hand |-> d.hand]
    <3>. HIDE DEF d
    <3>. QED
      BY <2>1 DEF Indexed
  <2>. HIDE DEF d
  <2>3. Tracks(d, S)
    BY <2>2 DEF Tracks, Indexed
  <2>. QED
    BY <2>3 DEF d
<1>3. CASE ~(c.hand >= Len(c.ring))
  BY <1>1, <1>3 DEF HandInRange, Tracks
<1>. QED
  BY <1>2, <1>3

(* ClockEvictor::untrack, which moves the last entry into the gap, leaves  *)
(* a ring of the other addresses.                                          *)
LEMMA UntrackKeeps ==
    ASSUME NEW c, NEW S, Tracks(c, S), NEW p \in S
    PROVE  Tracks(Untrack(c, p), S \ {p})
<1>1. Indexed(c, S) /\ p \in DOMAIN c.index
  BY DEF Tracks, Indexed
<1>. DEFINE i == c.index[p]
<1>2. i \in Nat /\ i < Len(c.ring) /\ c.ring[i + 1] = p
  BY <1>1 DEF Indexed
<1>3. Untrack(c, p) = HandInRange(SwapRemove(c, i))
  BY <1>1 DEF Untrack
<1>. HIDE DEF i
<1>4. Indexed(SwapRemove(c, i), S \ {p})
  BY <1>1, <1>2, SwapRemoveKeeps
<1>. QED
  BY <1>3, <1>4, HandKept

-----------------------------------------------------------------------------
(* The sweep of the hand *)

(* A recursion whose step is given by a function has a solution. *)
LEMMA Recursion ==
    ASSUME NEW S, NEW a \in S, NEW G \in [S -> S], NEW n \in Nat
    PROVE  \E f : IsRecursion(f, S, a, G, n)
<1>. DEFINE Sol(f, k) == f[0] = a /\ \A i \in 1 .. k : f[i] = G[f[i - 1]]
            Good == {k \in Nat : \E f \in [0 .. k -> S] : Sol(f, k)}
<1>1. 0 \in Good
  <2>1. [i \in 0 .. 0 |-> a] \in [0 .. 0 -> S] /\ Sol([i \in 0 .. 0 |-> a], 0)
    OBVIOUS
  <2>. QED
    BY Zenon, <2>1
<1>2. ASSUME NEW k \in Nat, k \in Good
      PROVE  k + 1 \in Good
  <2>1. PICK f \in [0 .. k -> S] : Sol(f, k)
    BY <1>2
  <2>. DEFINE g == [i \in 0 .. k + 1 |-> IF i = k + 1 THEN G[f[k]] ELSE f[i]]
  <2>2. g \in [0 .. k + 1 -> S] /\ g[0] = a
    BY <2>1
  <2>3. ASSUME NEW i \in 1 .. k + 1
        PROVE  g[i] = G[g[i - 1]]
    <3>1. CASE i = k + 1
      <4>1. g[i] = G[f[k]] /\ g[i - 1] = f[k]
        BY <3>1
      <4>. QED
        BY <4>1
    <3>2. CASE i # k + 1
      <4>1. i \in 1 .. k /\ i - 1 \in 0 .. k
        BY <3>2
      <4>2. g[i] = f[i] /\ g[i - 1] = f[i - 1]
        BY <4>1
      <4>. QED
        BY <2>1, <4>1, <4>2
    <3>. QED
      BY <3>1, <3>2
  <2>. HIDE DEF g
  <2>4. Sol(g, k + 1)
    BY <2>2, <2>3
  <2>. HIDE DEF Sol
  <2>. QED
    BY <2>2, <2>4
<1>. HIDE DEF Good
<1>3. \A k \in Nat : k \in Good
  BY <1>1, <1>2, Induction
<1>. QED
  BY <1>3 DEF Good, IsRecursion

(* The hand, turning modulo the length of the ring, passes each place once *)
(* in a round.                                                             *)
LEMMA RingPassed ==
    ASSUME NEW n \in Nat \ {0}, NEW h \in Nat, h < n
    PROVE  HandPasses(h, n)
<1>1. ASSUME NEW m \in 0 .. n - 1
      PROVE  \E i \in 0 .. n - 1 : At(h, n, i) = m
  <2>1. CASE m >= h
    <3>1. m - h \in 0 .. n - 1 /\ At(h, n, m - h) = m
      BY <2>1 DEF At
    <3>. QED
      BY <3>1
  <2>2. CASE m < h
    <3>1. m - h + n \in 0 .. n - 1 /\ At(h, n, m - h + n) = m
      BY <2>2 DEF At
    <3>. QED
      BY <3>1
  <2>. QED
    BY <2>1, <2>2
<1>2. ASSUME NEW i \in 0 .. n - 1
      PROVE  (At(h, n, i) + 1) % n = At(h, n, i + 1)
  <2>1. \A k \in Nat : k < n => k % n = k
    OBVIOUS
  <2>2. n % n = 0
    OBVIOUS
  <2>3. CASE At(h, n, i) + 1 = n
    BY <2>2, <2>3 DEF At
  <2>4. CASE At(h, n, i) + 1 # n
    BY <2>1, <2>4 DEF At
  <2>. QED
    BY <2>3, <2>4
<1>. QED
  BY <1>1, <1>2 DEF At, HandPasses

(* One turn of the loop of evict_one. *)
LEMMA TurnKeeps ==
    ASSUME NEW c, NEW S, Tracks(c, S), S # {}, NoPtr \notin S, NEW D, S \subseteq D,
           NEW bit \in [D -> {0, 1}], NEW i \in Nat, NEW a, Sweeping(c, D, S, bit, i, a)
    PROVE  Sweeping(c, D, S, bit, i + 1, Turn(c, a))
<1>. DEFINE r == c.ring
            n == Len(r)
            h == a.hand
            p == r[h + 1]
            b == [a.bit EXCEPT ![p] = 0]
            o(j) == At(c.hand, n, j)
<1>1. /\ n \in Nat /\ \A m \in 1 .. n : r[m] \in S
      /\ \A m \in 1 .. n, l \in 1 .. n : r[m] = r[l] => m = l
      /\ \A q \in S : \E m \in 1 .. n : r[m] = q
  <2>1. /\ r \in Seq(S)
        /\ \A q \in S : c.index[q] \in Nat /\ c.index[q] < n /\ r[c.index[q] + 1] = q
    BY DEF Tracks, Indexed
  <2>2. /\ n \in Nat /\ \A m \in 1 .. n, l \in 1 .. n : r[m] = r[l] => m = l
    BY RingRange DEF Tracks
  <2>3. ASSUME NEW q \in S
        PROVE  \E m \in 1 .. n : r[m] = q
    <3>. DEFINE m == c.index[q] + 1
    <3>1. m \in 1 .. n /\ r[m] = q
      BY <2>1, <2>2
    <3>. QED
      BY <3>1
  <2>4. \A m \in 1 .. n : r[m] \in S
    BY <2>1
  <2>. QED
    BY <2>2, <2>3, <2>4, Zenon
<1>2. /\ a \in [hand : Nat, bit : [D -> {0, 1}], victim : S \cup {NoPtr}] /\ h \in Nat /\ h < n
      /\ a.bit \in [D -> {0, 1}]
  BY DEF Sweeping, SweepStates
<1>3. n \in Nat \ {0} /\ c.hand \in Nat /\ c.hand < n
  BY <1>1, <1>2 DEF Tracks, Indexed
<1>4. p \in S /\ p \in D /\ p # NoPtr /\ a.bit[p] \in {0, 1} /\ h + 1 \in 1 .. n
  BY <1>1, <1>2
<1>. HIDE DEF r, n, h, p, b
<1>5. CASE a.victim # NoPtr
  <2>1. Turn(c, a) = a
    BY <1>5 DEF Turn
  <2>. QED
    BY <1>5, <2>1 DEF Sweeping
<1>6. CASE a.victim = NoPtr
  <2>1. /\ i <= n /\ h = o(i)
        /\ \A j \in 0 .. n - 1 :
              IF j < i THEN a.bit[r[o(j) + 1]] = 0 /\ bit[r[o(j) + 1]] = 1
                       ELSE a.bit[r[o(j) + 1]] = bit[r[o(j) + 1]]
    BY <1>6 DEF Sweeping, r, n, h
  <2>2. /\ o(0) = c.hand /\ o(n) = c.hand
        /\ \A j \in 0 .. n : o(j) \in Nat /\ o(j) < n
        /\ \A j \in 0 .. n - 1, k \in 0 .. n - 1 : o(j) = o(k) => j = k
        /\ \A j \in 0 .. n - 1 : (o(j) + 1) % n = o(j + 1)
        /\ \A m \in 0 .. n - 1 : \E j \in 0 .. n - 1 : o(j) = m
    <3>1. HandPasses(c.hand, n)
      BY <1>3, RingPassed
    <3>. QED
      BY <3>1, Zenon DEF HandPasses
  <2>. HIDE DEF o
  <2>3. ASSUME i = n
        PROVE  a.bit[p] = 0 /\ \A q \in S : bit[q] = 1
    <3>1. ASSUME NEW q \in S
          PROVE  a.bit[q] = 0 /\ bit[q] = 1
      <4>1. PICK m \in 1 .. n : r[m] = q
        BY <1>1
      <4>2. m - 1 \in 0 .. n - 1 /\ (m - 1) + 1 = m
        BY <1>3
      <4>3. PICK j \in 0 .. n - 1 : o(j) = m - 1
        BY <2>2, <4>2
      <4>4. j < i /\ r[o(j) + 1] = q
        BY <1>3, <2>3, <4>1, <4>2, <4>3
      <4>. QED
        BY <2>1, <4>4
    <3>. QED
      BY <1>4, <3>1
  <2>4. ASSUME i # n
        PROVE  i \in 0 .. n - 1 /\ a.bit[p] = bit[p]
    <3>1. i \in 0 .. n - 1
      BY <1>3, <2>1, <2>4
    <3>2. p = r[o(i) + 1]
      BY <2>1 DEF p
    <3>. QED
      BY <2>1, <3>1, <3>2
  <2>5. Turn(c, a) = IF a.bit[p] = 0 THEN [a EXCEPT !.hand = h, !.victim = p]
                     ELSE [a EXCEPT !.hand = (h + 1) % n, !.bit[p] = 0]
    <3>1. ~(a.hand >= Len(c.ring))
      BY <1>2, <1>3 DEF r, n, h
    <3>. QED
      BY <1>6, <3>1 DEF Turn, r, n, h, p
  <2>6. CASE a.bit[p] = 0
    <3>. DEFINE z == [a EXCEPT !.hand = h, !.victim = p]
    <3>1. Turn(c, a) = z
      BY <2>5, <2>6
    <3>2. /\ z \in [hand : Nat, bit : [D -> {0, 1}], victim : S \cup {NoPtr}]
          /\ z.hand = h /\ z.victim = p
      BY Zenon, <1>2, <1>4
    <3>3. bit[p] = 1 => \A q \in S : bit[q] = 1
      BY <2>3, <2>4, <2>6
    <3>. HIDE DEF z
    <3>4. z.victim = c.ring[z.hand + 1] /\ z.hand < Len(c.ring) /\ z.victim # NoPtr
      BY <1>2, <1>4, <3>2 DEF p, r, n
    <3>5. z \in SweepStates(D, S)
      BY <3>2 DEF SweepStates
    <3>6. bit[z.victim] = 1 => \A q \in S : bit[q] = 1
      BY <3>2, <3>3
    <3>7. Sweeping(c, D, S, bit, i + 1, z)
      BY <3>4, <3>5, <3>6 DEF Sweeping
    <3>. QED
      BY <3>1, <3>7
  <2>7. CASE a.bit[p] = 1
    <3>. DEFINE g == o(i + 1)
                z == [a EXCEPT !.hand = g, !.bit = b]
    <3>1. i \in 0 .. n - 1 /\ bit[p] = 1 /\ (h + 1) % n = g /\ p = r[o(i) + 1]
      BY <2>1, <2>2, <2>3, <2>4, <2>7 DEF p
    <3>2. i + 1 \in 0 .. n /\ g \in Nat /\ g < n
      BY <1>3, <2>2, <3>1
    <3>3. b \in [D -> {0, 1}] /\ b[p] = 0 /\ \A q \in D \ {p} : b[q] = a.bit[q]
      BY <1>2, <1>4 DEF b
    <3>4. Turn(c, a) = z
      <4>. HIDE DEF g
      <4>3. a.bit[p] # 0 /\ (h + 1) % n = g
        BY <2>7, <3>1
      <4>1. Turn(c, a) = [a EXCEPT !.hand = g, !.bit[p] = 0]
        BY <2>5, <4>3, Zenon
      <4>2. [a EXCEPT !.hand = g, !.bit[p] = 0] = [a EXCEPT !.hand = g, !.bit = b]
        BY <1>2 DEF b
      <4>. QED
        BY <4>1, <4>2
    <3>. HIDE DEF g
    <3>5. /\ z \in [hand : Nat, bit : [D -> {0, 1}], victim : S \cup {NoPtr}]
          /\ z.hand = g /\ z.bit = b /\ z.victim = NoPtr
      BY Zenon, <1>2, <1>6, <3>2, <3>3
    <3>. HIDE DEF z
    <3>6. ASSUME NEW j \in 0 .. n - 1
          PROVE  IF j < i + 1 THEN z.bit[r[o(j) + 1]] = 0 /\ bit[r[o(j) + 1]] = 1
                              ELSE z.bit[r[o(j) + 1]] = bit[r[o(j) + 1]]
      <4>1. o(j) + 1 \in 1 .. n /\ o(i) + 1 \in 1 .. n /\ r[o(j) + 1] \in D
        BY <1>1, <1>3, <2>2, <3>1
      <4>2. CASE j = i
        BY <3>1, <3>3, <3>5, <4>2
      <4>3. CASE j # i
        <5>1. o(j) + 1 # o(i) + 1
          <6>1. o(j) # o(i) /\ o(j) \in Nat /\ o(i) \in Nat
            BY <1>3, <2>2, <3>1, <4>3
          <6>. QED
            BY <6>1
        <5>2. r[o(j) + 1] # p
          BY <1>1, <3>1, <4>1, <5>1
        <5>3. z.bit[r[o(j) + 1]] = a.bit[r[o(j) + 1]]
          BY <3>3, <3>5, <4>1, <5>2
        <5>4. (j < i + 1) = (j < i)
          BY <1>3, <3>1, <4>3
        <5>. QED
          BY <2>1, <5>3, <5>4
      <4>. QED
        BY <4>2, <4>3
    <3>7. z \in SweepStates(D, S) /\ z.hand < Len(c.ring) /\ z.victim = NoPtr
      BY <3>2, <3>5 DEF SweepStates, n, r
    <3>8. i + 1 <= Len(c.ring) /\ z.hand = At(c.hand, Len(c.ring), i + 1)
      BY <3>2, <3>5 DEF n, r, g, o
    <3>9. Sweeping(c, D, S, bit, i + 1, z)
      BY Zenon, <3>6, <3>7, <3>8 DEF Sweeping, n, r, o
    <3>. QED
      BY <3>4, <3>9
  <2>. QED
    BY <1>4, <2>6, <2>7
<1>. QED
  BY <1>5, <1>6

(* The turns of evict_one: the loop that Sweep describes. *)
LEMMA SweepRuns ==
    ASSUME NEW c, NEW S, Tracks(c, S), S # {}, NoPtr \notin S, NEW D, S \subseteq D,
           NEW bit \in [D -> {0, 1}], NEW limit \in Nat
    PROVE  Sweeping(c, D, S, bit, limit, Sweep(c, bit, limit))
<1>. DEFINE T == SweepStates(D, S)
            a == [hand |-> c.hand, bit |-> bit, victim |-> NoPtr]
            Ok(x) == x.hand < Len(c.ring)
            U == {x \in T : Ok(x)}
            G == [x \in U |-> Turn(c, x)]
            Loop(f) == [i \in 0 .. limit |-> IF i = 0 THEN a ELSE Turn(c, f[i - 1])]
<1>1. Len(c.ring) \in Nat \ {0} /\ c.hand \in Nat /\ c.hand < Len(c.ring)
  <2>1. Len(c.ring) \in Nat /\ Range(c.ring) = S
    BY RingRange DEF Tracks
  <2>2. Len(c.ring) # 0
    BY <2>1 DEF Tracks, Indexed
  <2>. QED
    BY <2>1, <2>2 DEF Tracks, Indexed
<1>2. a \in T /\ a.hand = c.hand /\ a.bit = bit /\ a.victim = NoPtr
  BY <1>1 DEF SweepStates
<1>3. Sweeping(c, D, S, bit, 0, a)
  <2>. HIDE DEF a
  <2>1. HandPasses(c.hand, Len(c.ring))
    BY <1>1, RingPassed
  <2>2. At(c.hand, Len(c.ring), 0) = c.hand
    BY <2>1 DEF HandPasses
  <2>. QED
    BY <1>1, <1>2, <2>2 DEF Sweeping
<1>4. ASSUME NEW x \in U
      PROVE  Turn(c, x) \in U
  <2>. DEFINE r == c.ring
              h == IF x.hand >= Len(r) THEN 0 ELSE x.hand
              p == r[h + 1]
  <2>1. x \in [hand : Nat, bit : [D -> {0, 1}], victim : S \cup {NoPtr}] /\ Ok(x)
    BY DEF SweepStates
  <2>2. h \in Nat /\ h + 1 \in 1 .. Len(r) /\ h < Len(r)
    BY <1>1, <2>1
  <2>3. p \in S /\ p \in D
    <3>1. r \in Seq(S)
      BY DEF Tracks, Indexed
    <3>. HIDE DEF h, r
    <3>. QED
      BY <2>2, <3>1
  <2>4. (h + 1) % Len(r) \in Nat /\ (h + 1) % Len(r) < Len(r)
    BY <1>1, <2>2
  <2>5. Turn(c, x) = IF x.victim # NoPtr THEN x
                     ELSE IF x.bit[p] = 0 THEN [x EXCEPT !.hand = h, !.victim = p]
                          ELSE [x EXCEPT !.hand = (h + 1) % Len(r), !.bit[p] = 0]
    BY DEF Turn
  <2>. HIDE DEF r, h, p
  <2>6. /\ [x EXCEPT !.hand = h, !.victim = p] \in [hand : Nat, bit : [D -> {0, 1}], victim : S \cup {NoPtr}]
        /\ [x EXCEPT !.hand = h, !.victim = p].hand = h
    BY Zenon, <2>1, <2>2, <2>3
  <2>7. \A g \in Nat : /\ [x EXCEPT !.hand = g, !.bit[p] = 0] \in [hand : Nat, bit : [D -> {0, 1}], victim : S \cup {NoPtr}]
                       /\ [x EXCEPT !.hand = g, !.bit[p] = 0].hand = g
    BY Zenon, <2>1, <2>3
  <2>8. CASE x.victim # NoPtr
    BY <2>5, <2>8
  <2>9. CASE x.victim = NoPtr /\ x.bit[p] = 0
    <3>1. Turn(c, x) = [x EXCEPT !.hand = h, !.victim = p]
      BY <2>5, <2>9
    <3>. QED
      BY Zenon, <2>2, <2>6, <3>1 DEF SweepStates, r
  <2>10. CASE x.victim = NoPtr /\ x.bit[p] # 0
    <3>. DEFINE g == (h + 1) % Len(r)
    <3>1. Turn(c, x) = [x EXCEPT !.hand = g, !.bit[p] = 0]
      BY <2>5, <2>10
    <3>2. g \in Nat /\ g < Len(c.ring)
      BY <2>4 DEF r
    <3>. HIDE DEF g
    <3>. QED
      BY Zenon, <2>7, <3>1, <3>2 DEF SweepStates
  <2>. QED
    BY <2>8, <2>9, <2>10
<1>5. a \in U /\ G \in [U -> U]
  BY <1>1, <1>2, <1>4
<1>6. PICK f : IsRecursion(f, U, a, G, limit)
  <2>. HIDE DEF U, a, G
  <2>. QED
    BY <1>5, Recursion
<1>7. /\ f \in [0 .. limit -> U] /\ f[0] = a
      /\ \A i \in 1 .. limit : f[i] = Turn(c, f[i - 1])
  <2>1. /\ f \in [0 .. limit -> U] /\ f[0] = a
        /\ \A i \in 1 .. limit : f[i] = G[f[i - 1]]
    BY <1>6 DEF IsRecursion
  <2>. HIDE DEF U, a
  <2>2. ASSUME NEW i \in 1 .. limit
        PROVE  f[i] = Turn(c, f[i - 1])
    <3>1. i - 1 \in 0 .. limit
      OBVIOUS
    <3>. QED
      BY Zenon, <2>1, <3>1
  <2>. QED
    BY <2>1, <2>2
<1>. HIDE DEF U, a, G
<1>8. f = Loop(f)
  <2>1. ASSUME NEW i \in 0 .. limit
        PROVE  f[i] = Loop(f)[i]
    BY <1>7
  <2>. QED
    BY <1>7, <2>1
<1>. DEFINE after == CHOOSE g : g = Loop(g)
<1>9. after = Loop(after)
  <2>. HIDE DEF Loop
  <2>. QED
    BY <1>8
<1>10. Sweep(c, bit, limit) = after[limit]
  BY DEF Sweep, a
<1>11. after[0] = a /\ \A i \in 0 .. limit : i # 0 => after[i] = Turn(c, after[i - 1])
  <2>. HIDE DEF after
  <2>. QED
    BY <1>9
<1>. HIDE DEF after
<1>. DEFINE Good == {i \in Nat : i <= limit => Sweeping(c, D, S, bit, i, after[i])}
<1>12. 0 \in Good
  BY <1>3, <1>11
<1>13. ASSUME NEW i \in Nat, i \in Good
       PROVE  i + 1 \in Good
  <2>. SUFFICES ASSUME i + 1 <= limit
                PROVE  Sweeping(c, D, S, bit, i + 1, after[i + 1])
    OBVIOUS
  <2>1. i <= limit /\ i + 1 \in 0 .. limit /\ i + 1 # 0 /\ (i + 1) - 1 = i
    OBVIOUS
  <2>2. Sweeping(c, D, S, bit, i, after[i]) /\ after[i + 1] = Turn(c, after[i])
    BY <1>11, <1>13, <2>1
  <2>. QED
    BY <2>2, TurnKeeps
<1>. HIDE DEF Good
<1>14. limit \in Good
  BY <1>12, <1>13, Induction
<1>. QED
  BY <1>10, <1>14 DEF Good

(* evict_one finds a victim if the ring has any entry, and one that was    *)
(* read only if all of them were (clock_evictor.cpp 36-55).                *)
LEMMA EvictOneFinds ==
    ASSUME NEW c, NEW S, Tracks(c, S), NoPtr \notin S, NEW D, S \subseteq D,
           NEW bit \in [D -> {0, 1}], NEW a, a = EvictOne(c, bit)
    PROVE  FoundIn(S, D, bit, a) /\ Tracks(Swept(c, a), S \ {a.victim})
<1>. DEFINE n == Len(c.ring)
<1>1. /\ c = [ring |-> c.ring, index |-> c.index, hand |-> c.hand] /\ n \in Nat
      /\ c.hand \in Nat /\ Indexed(c, S)
  BY RingRange DEF Tracks, Indexed
<1>2. CASE S = {}
  <2>1. n = 0
    <3>1. Range(c.ring) = {}
      BY <1>2, RingRange DEF Tracks
    <3>. QED
      BY <1>1, <1>2, <3>1 DEF Tracks, Indexed
  <2>2. a = Sweep(c, bit, 0)
    BY <2>1 DEF EvictOne
  <2>. DEFINE z == [hand |-> c.hand, bit |-> bit, victim |-> NoPtr]
              Loop(f) == [i \in 0 .. 0 |-> IF i = 0 THEN z ELSE Turn(c, f[i - 1])]
              after == CHOOSE f : f = Loop(f)
  <2>3. Sweep(c, bit, 0) = after[0]
    BY DEF Sweep
  <2>4. [i \in 0 .. 0 |-> z] = Loop([i \in 0 .. 0 |-> z])
    OBVIOUS
  <2>5. after = Loop(after)
    <3>. HIDE DEF Loop
    <3>. QED
      BY <2>4
  <2>6. a = z
    <3>. HIDE DEF after, z
    <3>. QED
      BY <2>2, <2>3, <2>5
  <2>7. a.victim = NoPtr /\ a.bit = bit /\ a.hand = c.hand
    BY <2>6
  <2>8. Swept(c, a) = [c EXCEPT !.hand = c.hand]
    BY <2>7 DEF Swept
  <2>9. Swept(c, a) = c
    BY <1>1, <2>8
  <2>10. S \ {a.victim} = S
    BY <1>2
  <2>. QED
    BY <1>2, <2>7, <2>9, <2>10 DEF FoundIn
<1>3. CASE S # {}
  <2>1. Sweeping(c, D, S, bit, 2 * n, a)
    BY <1>1, <1>3, SweepRuns DEF EvictOne
  <2>2. n # 0
    BY <1>1, <1>3 DEF Indexed
  <2>3. a.victim # NoPtr
    BY <1>1, <2>1, <2>2 DEF Sweeping
  <2>4. /\ a.bit \in [D -> {0, 1}] /\ a.hand \in Nat /\ a.hand < n /\ a.victim \in S
        /\ a.victim = c.ring[a.hand + 1]
        /\ bit[a.victim] = 1 => \A q \in S : bit[q] = 1
    BY <2>1, <2>3 DEF Sweeping, SweepStates
  <2>. DEFINE d == [c EXCEPT !.hand = a.hand]
  <2>5. /\ d.ring = c.ring /\ d.index = c.index /\ d.hand = a.hand
        /\ d = [ring |-> d.ring, index |-> d.index, hand |-> d.hand]
    <3>. DEFINE h == a.hand
    <3>. HIDE DEF h
    <3>1. /\ [c EXCEPT !.hand = h] = [ring |-> c.ring, index |-> c.index, hand |-> h]
      BY <1>1
    <3>2. d = [ring |-> c.ring, index |-> c.index, hand |-> h]
      BY <3>1 DEF h
    <3>. HIDE DEF d
    <3>. QED
      BY <3>2 DEF h
  <2>6. Swept(c, a) = HandInRange(SwapRemove(d, a.hand))
    BY <2>3 DEF Swept
  <2>. HIDE DEF d
  <2>7. Indexed(d, S)
    BY <1>1, <2>4, <2>5 DEF Indexed
  <2>8. Indexed(SwapRemove(d, a.hand), S \ {d.ring[a.hand + 1]})
    BY <2>4, <2>5, <2>7, SwapRemoveKeeps
  <2>9. Indexed(SwapRemove(d, a.hand), S \ {a.victim})
    BY <2>4, <2>5, <2>8
  <2>10. Tracks(Swept(c, a), S \ {a.victim})
    BY <2>6, <2>9, HandKept
  <2>. QED
    BY <1>3, <2>4, <2>10 DEF FoundIn
<1>. QED
  BY <1>2, <1>3

-----------------------------------------------------------------------------
(* The heap: entries, free lists, maps and evictors *)

(* What HeapInv says of addresses, entries and the map, in one place. *)
LEMMA HeapFacts ==
    ASSUME HeapInv
    PROVE  /\ DOMAIN entry \subseteq Nat /\ NoPtr \notin DOMAIN entry
           /\ DOMAIN ClassesAt = DOMAIN entry
           /\ \A p \in DOMAIN entry :
                /\ entry[p] \in Entries /\ ClassesAt[p] = ClassAt(p) /\ ClassAt(p) \in Class
                /\ map[entry[p].key] = p
           /\ \A s : Mapped(s) \subseteq DOMAIN entry
           /\ \A k \in Key : map[k] # NoPtr => /\ map[k] \in DOMAIN entry
                                               /\ map[k] \in Mapped(ShardFor[k])
                                               /\ entry[map[k]].key = k
<1>1. DOMAIN ClassesAt = DOMAIN entry /\ \A p \in DOMAIN entry : ClassesAt[p] = ClassAt(p)
  BY DEF ClassesAt
<1>2. DOMAIN entry \subseteq Nat /\ \A p \in DOMAIN entry : ClassAt(p) \in Class
  BY <1>1 DEF HeapInv, Laid, SlotTypes
<1>3. NoPtr \notin DOMAIN entry
  BY <1>2, StoreAssumption
<1>4. \A k \in Key : map[k] \in DOMAIN entry \cup {NoPtr}
  BY DEF HeapInv
<1>5. \A s : Mapped(s) \subseteq DOMAIN entry
  BY <1>4 DEF Mapped, KeysOf
<1>6. \A k \in Key : map[k] # NoPtr => map[k] \in Mapped(ShardFor[k])
  BY DEF Mapped, KeysOf
<1>7. /\ \A p \in DOMAIN entry : entry[p] \in Entries /\ map[entry[p].key] = p
      /\ \A k \in Key : map[k] # NoPtr => entry[map[k]].key = k
  BY DEF HeapInv
<1>. QED
  BY <1>1, <1>2, <1>3, <1>4, <1>5, <1>6, <1>7

(* The class of an entry depends on its key and value alone. *)
LEMMA SameClass ==
    ASSUME NEW q, entry'[q].key = entry[q].key, entry'[q].value = entry[q].value
    PROVE  ClassAt(q)' = ClassAt(q)
BY DEF ClassAt, SizeAt

(* A key has a value or none. *)
LEMMA HeldType ==
    ASSUME HeapInv
    PROVE  Held \in [Key -> Value \cup {Absent}]
<1>1. \A k \in Key : map[k] # NoPtr => entry[map[k]].value \in Value
  BY HeapFacts DEF Entries
<1>. QED
  BY <1>1 DEF Held

(* Only access bits change, and the hands of the evictors. *)
LEMMA BitsChange ==
    ASSUME HeapInv, DOMAIN entry' = DOMAIN entry, entry' \in [DOMAIN entry -> Entries],
           \A q \in DOMAIN entry : entry'[q].key = entry[q].key /\ entry'[q].value = entry[q].value,
           map' = map, free' = free, nextPage' = nextPage,
           clock' = [s \in Shard |-> clock'[s]], \A s \in Shard : Tracks(clock'[s], Mapped(s))
    PROVE  HeapInv' /\ Held' = Held
<1>1. ClassesAt' = ClassesAt
  BY SameClass DEF ClassesAt
<1>2. \A s : Mapped(s)' = Mapped(s)
  BY DEF Mapped
<1>3. \A k \in Key : map[k] # NoPtr => map[k] \in DOMAIN entry
  BY HeapFacts
<1>4. Held' = Held
  BY <1>3 DEF Held
<1>5. /\ map' \in [Key -> DOMAIN entry' \cup {NoPtr}]
      /\ \A k \in Key : map'[k] # NoPtr => entry'[map'[k]].key = k
      /\ \A p \in DOMAIN entry' : map'[entry'[p].key] = p
  BY <1>3 DEF HeapInv
<1>6. /\ nextPage' \in Nat /\ nextPage' <= Capacity \div PageSize
      /\ Laid(free', ClassesAt', nextPage' * PageSize)
  BY <1>1 DEF HeapInv
<1>7. entry' \in [DOMAIN entry' -> Entries]
  OBVIOUS
<1>8. \A s \in Shard : Tracks(clock'[s], Mapped(s)')
  BY <1>2
<1>. QED
  BY <1>4, <1>5, <1>6, <1>7, <1>8 DEF HeapInv

(* The entry of k goes: its slot to the free list of its class, its        *)
(* address from the map and from the evictor.                              *)
LEMMA EntryGoes ==
    ASSUME HeapInv, NEW k \in Key, NEW p, p = map[k], p # NoPtr,
           entry' \in [DOMAIN entry \ {p} -> Entries],
           \A q \in DOMAIN entry \ {p} : /\ entry'[q].key = entry[q].key
                                         /\ entry'[q].value = entry[q].value,
           map' = [map EXCEPT ![k] = NoPtr], free' = Deallocate(free, p, SizeAt(p)),
           nextPage' = nextPage, NEW d, clock' = [clock EXCEPT ![ShardFor[k]] = d],
           Tracks(d, Mapped(ShardFor[k]) \ {p})
    PROVE  HeapInv' /\ Held' = [Held EXCEPT ![k] = Absent]
<1>1. p \in DOMAIN entry /\ entry[p].key = k /\ ClassAt(p) \in Class /\ DOMAIN entry' = DOMAIN entry \ {p}
  BY HeapFacts
<1>2. ClassesAt' = Restrict(ClassesAt, DOMAIN ClassesAt \ {p})
  BY Zenon, <1>1, SameClass DEF ClassesAt, Restrict
<1>3. free' = WithList(free, ClassesAt[p], Append(free[ClassesAt[p]], p))
  <2>1. ClassForSize(SizeAt(p)) = ClassesAt[p] /\ ~(ClassForSize(SizeAt(p)) >= NumClasses)
    BY <1>1, StoreAssumption DEF ClassAt, ClassesAt, Class
  <2>. QED
    BY Zenon, <2>1 DEF Deallocate, WithList
<1>4. Laid(free', ClassesAt', nextPage' * PageSize)
  <2>1. p \in DOMAIN ClassesAt /\ Laid(free, ClassesAt, nextPage * PageSize)
    BY <1>1, HeapFacts DEF HeapInv
  <2>. QED
    BY <1>2, <1>3, <2>1, PushSlots
<1>5. map \in [Key -> DOMAIN entry \cup {NoPtr}]
  BY DEF HeapInv
<1>6. map'[k] = NoPtr /\ \A j \in Key \ {k} : map'[j] = map[j] /\ map[j] # p
  BY <1>1, <1>5 DEF HeapInv
<1>7. /\ map' \in [Key -> DOMAIN entry' \cup {NoPtr}]
      /\ \A j \in Key : map'[j] # NoPtr => j # k /\ map'[j] \in DOMAIN entry'
  BY Zenon, <1>1, <1>5, <1>6
<1>8. \A j \in Key : map'[j] # NoPtr => entry'[map'[j]].key = j
  BY <1>1, <1>6, <1>7 DEF HeapInv
<1>9. ASSUME NEW q \in DOMAIN entry'
      PROVE  map'[entry'[q].key] = q
  <2>1. q \in DOMAIN entry /\ q # p /\ entry'[q].key = entry[q].key
    BY Zenon, <1>1
  <2>2. entry[q].key \in Key /\ map[entry[q].key] = q
    BY Zenon, <2>1, HeapFacts DEF Entries
  <2>. QED
    BY Zenon, <1>6, <2>1, <2>2
<1>10. /\ Mapped(ShardFor[k])' = Mapped(ShardFor[k]) \ {p}
       /\ \A s \in Shard \ {ShardFor[k]} : Mapped(s)' = Mapped(s)
  <2>1. ASSUME NEW q
        PROVE  q \in Mapped(ShardFor[k])' <=> q \in Mapped(ShardFor[k]) \ {p}
    BY <1>6 DEF Mapped, KeysOf
  <2>2. ASSUME NEW s \in Shard, s # ShardFor[k], NEW q
        PROVE  q \in Mapped(s)' <=> q \in Mapped(s)
    BY <1>6, <2>2 DEF Mapped, KeysOf
  <2>. QED
    BY Zenon, <2>1, <2>2
<1>11. /\ clock' = [s \in Shard |-> clock'[s]]
       /\ \A s \in Shard : Tracks(clock'[s], Mapped(s)')
  <2>1. clock = [s \in Shard |-> clock[s]] /\ \A s \in Shard : Tracks(clock[s], Mapped(s))
    BY DEF HeapInv
  <2>2. ShardFor[k] \in Shard
    BY StoreAssumption
  <2>3. clock'[ShardFor[k]] = d /\ \A s \in Shard \ {ShardFor[k]} : clock'[s] = clock[s]
    BY <2>1, <2>2
  <2>4. clock' = [s \in Shard |-> clock'[s]]
    BY <2>1
  <2>5. Tracks(clock'[ShardFor[k]], Mapped(ShardFor[k])')
    BY <1>10, <2>3
  <2>6. \A s \in Shard \ {ShardFor[k]} : Tracks(clock'[s], Mapped(s)')
    BY <1>10, <2>1, <2>3
  <2>. QED
    BY <2>4, <2>5, <2>6
<1>12. Held' = [Held EXCEPT ![k] = Absent]
  <2>1. ASSUME NEW j \in Key \ {k}
        PROVE  Held'[j] = Held[j]
    BY <1>1, <1>6, HeapFacts DEF Held
  <2>2. Held'[k] = Absent
    BY Zenon, <1>6 DEF Held
  <2>3. Held' = [j \in Key |-> Held'[j]] /\ Held = [j \in Key |-> Held[j]]
    BY DEF Held
  <2>. QED
    BY <2>1, <2>2, <2>3
<1>13. nextPage' \in Nat /\ nextPage' <= Capacity \div PageSize /\ entry' \in [DOMAIN entry' -> Entries]
  BY <1>1 DEF HeapInv
<1>. QED
  BY <1>4, <1>7, <1>8, <1>9, <1>11, <1>12, <1>13 DEF HeapInv

(* allocate takes the last slot of the free list of class c, which is the  *)
(* list of a new page if there was none.                                   *)
LEMMA SlotTaken ==
    ASSUME HeapInv, NEW c \in Class, Refill(c) # <<>>, NEW p, p = Back(Refill(c)),
           NEW lists2, lists2 = WithList(free, c, PopBack(Refill(c))),
           NEW pages, pages = (IF free[c] = <<>> THEN nextPage + 1 ELSE nextPage)
    PROVE  /\ p \in Nat /\ p \notin DOMAIN entry
           /\ pages \in Nat /\ pages <= Capacity \div PageSize
           /\ Laid(lists2, WithEntry(ClassesAt, p, c), pages * PageSize)
<1>1. /\ Laid(free, ClassesAt, nextPage * PageSize)
      /\ nextPage \in Nat /\ nextPage <= Capacity \div PageSize
      /\ DOMAIN ClassesAt = DOMAIN entry /\ free \in [Class -> Seq(Nat)]
  BY HeapFacts DEF HeapInv, Laid, SlotTypes
<1>2. CASE free[c] # <<>>
  <2>1. Refill(c) = free[c] /\ pages = nextPage
    BY <1>2 DEF Refill
  <2>2. p \in Nat /\ p \notin DOMAIN ClassesAt /\ Laid(lists2, WithEntry(ClassesAt, p, c), nextPage * PageSize)
    BY <1>1, <1>2, <2>1, PopSlots
  <2>. QED
    BY <1>1, <2>1, <2>2
<1>3. CASE free[c] = <<>>
  <2>. DEFINE lists == WithList(free, c, CutPage(c, nextPage))
  <2>1. Refill(c) = CutPage(c, nextPage) /\ pages = nextPage + 1 /\ ~(nextPage >= Capacity \div PageSize)
    BY <1>3 DEF Refill, AssignPage, CutPage
  <2>2. Capacity \div PageSize \in Int
    BY StoreAssumption
  <2>3. pages \in Nat /\ pages <= Capacity \div PageSize
    BY <1>1, <2>1, <2>2
  <2>4. lists[c] = CutPage(c, nextPage) /\ lists2 = WithList(lists, c, PopBack(lists[c]))
    BY Zenon, <1>1, <2>1 DEF WithList
  <2>5. lists = WithList(free, c, CutPage(c, nextPage))
    OBVIOUS
  <2>. HIDE DEF lists
  <2>6. Laid(lists, ClassesAt, pages * PageSize) /\ lists[c] # <<>>
    BY <1>1, <1>3, <2>1, <2>4, <2>5, PageSlots
  <2>7. p = Back(lists[c])
    BY <2>1, <2>4
  <2>8. p \in Nat /\ p \notin DOMAIN ClassesAt /\ Laid(lists2, WithEntry(ClassesAt, p, c), pages * PageSize)
    BY <2>4, <2>6, <2>7, PopSlots
  <2>. QED
    BY <1>1, <2>3, <2>8
<1>. QED
  BY <1>2, <1>3

(* The entry of k comes: in a slot of its class, mapped and tracked. *)
LEMMA EntryComes ==
    ASSUME HeapInv, NEW k \in Key, NEW v \in Value, map[k] = NoPtr,
           NEW c, c = ClassForSize(RequiredSize[k][v]), c < NumClasses,
           Refill(c) # <<>>, NEW p, p = Back(Refill(c)),
           entry' = [q \in DOMAIN entry \cup {p} |->
                        IF q = p THEN [key |-> k, value |-> v, bit |-> 0] ELSE entry[q]],
           map' = [map EXCEPT ![k] = p],
           clock' = [clock EXCEPT ![ShardFor[k]] = Track(@, p)],
           free' = [free EXCEPT ![c] = PopBack(Refill(c))],
           nextPage' = (IF free[c] = <<>> THEN nextPage + 1 ELSE nextPage)
    PROVE  HeapInv' /\ Held' = [Held EXCEPT ![k] = v]
<1>1. RequiredSize[k][v] \in Nat /\ ShardFor[k] \in Shard
  BY StoreAssumption
<1>2. c \in Class
  BY <1>1, ClassFits
<1>3. /\ p \in Nat /\ p \notin DOMAIN entry
      /\ nextPage' \in Nat /\ nextPage' <= Capacity \div PageSize
      /\ Laid(free', WithEntry(ClassesAt, p, c), nextPage' * PageSize)
  <2>1. free' = WithList(free, c, PopBack(Refill(c)))
    BY DEF WithList
  <2>. QED
    BY Zenon, <1>2, <2>1, SlotTaken
<1>4. p # NoPtr
  BY <1>3, StoreAssumption
<1>5. /\ DOMAIN entry' = DOMAIN entry \cup {p} /\ entry'[p] = [key |-> k, value |-> v, bit |-> 0]
      /\ \A q \in DOMAIN entry : entry'[q] = entry[q]
  BY <1>3
<1>6. ClassesAt' = WithEntry(ClassesAt, p, c)
  <2>1. ClassAt(p)' = c
    BY Zenon, <1>5 DEF ClassAt, SizeAt
  <2>2. \A q \in DOMAIN entry : ClassAt(q)' = ClassesAt[q]
    <3>1. ASSUME NEW q \in DOMAIN entry
          PROVE  ClassAt(q)' = ClassesAt[q]
      <4>1. ClassAt(q)' = ClassAt(q)
        BY Zenon, <1>5, SameClass
      <4>. QED
        BY Zenon, <4>1, HeapFacts
    <3>. QED
      BY <3>1
  <2>3. DOMAIN ClassesAt = DOMAIN entry
    BY Zenon, HeapFacts
  <2>. QED
    BY Zenon, <1>3, <1>5, <2>1, <2>2, <2>3 DEF ClassesAt, WithEntry
<1>7. map \in [Key -> DOMAIN entry \cup {NoPtr}] /\ entry \in [DOMAIN entry -> Entries]
  BY DEF HeapInv
<1>8. map'[k] = p /\ \A j \in Key \ {k} : map'[j] = map[j] /\ map[j] # p
  BY <1>3, <1>4, <1>7
<1>9. map' \in [Key -> DOMAIN entry' \cup {NoPtr}]
  BY <1>5, <1>7
<1>10. entry' \in [DOMAIN entry' -> Entries]
  <2>1. [key |-> k, value |-> v, bit |-> 0] \in Entries
    BY DEF Entries
  <2>. QED
    BY <1>5, <1>7, <2>1
<1>11. \A j \in Key : map'[j] # NoPtr => entry'[map'[j]].key = j
  BY <1>5, <1>7, <1>8 DEF HeapInv
<1>12. ASSUME NEW q \in DOMAIN entry'
       PROVE  map'[entry'[q].key] = q
  <2>1. CASE q = p
    BY Zenon, <1>5, <1>8, <2>1
  <2>2. CASE q # p
    <3>1. q \in DOMAIN entry /\ entry[q].key \in Key /\ map[entry[q].key] = q
      BY Zenon, <1>5, <2>2, HeapFacts DEF Entries
    <3>2. q # NoPtr
      BY Zenon, <3>1, HeapFacts
    <3>. QED
      BY Zenon, <1>5, <1>8, <3>1, <3>2
  <2>. QED
    BY Zenon, <2>1, <2>2
<1>13. /\ Mapped(ShardFor[k])' = Mapped(ShardFor[k]) \cup {p}
       /\ \A s \in Shard \ {ShardFor[k]} : Mapped(s)' = Mapped(s)
  BY Zenon, <1>4, <1>8 DEF Mapped, KeysOf
<1>14. /\ clock' = [s \in Shard |-> clock'[s]]
       /\ \A s \in Shard : Tracks(clock'[s], Mapped(s)')
  <2>1. clock = [s \in Shard |-> clock[s]] /\ \A s \in Shard : Tracks(clock[s], Mapped(s))
    BY DEF HeapInv
  <2>2. /\ clock'[ShardFor[k]] = Track(clock[ShardFor[k]], p)
        /\ \A s \in Shard \ {ShardFor[k]} : clock'[s] = clock[s]
        /\ clock' = [s \in Shard |-> clock'[s]]
    BY <1>1, <2>1
  <2>3. p \notin Mapped(ShardFor[k])
    BY Zenon, <1>3, HeapFacts
  <2>4. Tracks(clock'[ShardFor[k]], Mapped(ShardFor[k])')
    BY <1>1, <1>13, <2>1, <2>2, <2>3, TrackKeeps
  <2>5. \A s \in Shard \ {ShardFor[k]} : Tracks(clock'[s], Mapped(s)')
    BY <1>13, <2>1, <2>2
  <2>. QED
    BY <2>2, <2>4, <2>5
<1>15. Held' = [Held EXCEPT ![k] = v]
  <2>1. ASSUME NEW j \in Key \ {k}
        PROVE  Held'[j] = Held[j]
    BY <1>5, <1>7, <1>8 DEF Held
  <2>2. Held'[k] = v
    BY <1>4, <1>5, <1>8 DEF Held
  <2>3. Held' = [j \in Key |-> Held'[j]] /\ Held = [j \in Key |-> Held[j]]
    BY DEF Held
  <2>. QED
    BY <2>1, <2>2, <2>3
<1>16. Laid(free', ClassesAt', nextPage' * PageSize)
  BY <1>3, <1>6
<1>. QED
  BY Zenon, <1>3, <1>9, <1>10, <1>11, <1>12, <1>14, <1>15, <1>16 DEF HeapInv

-----------------------------------------------------------------------------
(* What each step does to the heap and to the values held *)

(* A get sets an access bit and nothing else. *)
LEMMA GetStep ==
    ASSUME HeapInv, NEW t \in Thread, NEW k \in Key, Get(t, k)
    PROVE  HeapInv' /\ Held' = Held /\ map' = map /\ call' = call
<1>1. entry \in [DOMAIN entry -> Entries] /\ clock = [s \in Shard |-> clock[s]]
      /\ \A s \in Shard : Tracks(clock[s], Mapped(s))
  BY DEF HeapInv
<1>2. /\ entry' \in [DOMAIN entry -> Entries]
      /\ \A q \in DOMAIN entry : entry'[q].key = entry[q].key /\ entry'[q].value = entry[q].value
  <2>1. CASE map[k] = NoPtr
    BY <1>1, <2>1 DEF Get
  <2>2. CASE map[k] # NoPtr
    <3>1. entry' = [entry EXCEPT ![map[k]].bit = 1] /\ map[k] \in DOMAIN entry
      BY <2>2, HeapFacts DEF Get
    <3>2. entry[map[k]] \in Entries
      BY <1>1, <3>1
    <3>3. [entry[map[k]] EXCEPT !.bit = 1] \in Entries
      BY <3>2 DEF Entries
    <3>4. entry'[map[k]] = [entry[map[k]] EXCEPT !.bit = 1]
      BY <1>1, <3>1
    <3>5. /\ \A q \in DOMAIN entry \ {map[k]} : entry'[q] = entry[q]
          /\ entry' = [q \in DOMAIN entry |-> entry'[q]]
      BY Zenon, <1>1, <3>1
    <3>6. \A q \in DOMAIN entry : entry'[q] \in Entries
      BY <1>1, <3>3, <3>4, <3>5
    <3>7. \A q \in DOMAIN entry : entry'[q].key = entry[q].key /\ entry'[q].value = entry[q].value
      BY <3>2, <3>4, <3>5 DEF Entries
    <3>. QED
      BY <3>5, <3>6, <3>7
  <2>. QED
    BY <2>1, <2>2
<1>3. map' = map /\ free' = free /\ nextPage' = nextPage /\ clock' = clock /\ call' = call
  BY DEF Get
<1>4. DOMAIN entry' = DOMAIN entry
  BY <1>2
<1>. QED
  BY <1>1, <1>2, <1>3, <1>4, BitsChange

(* Dropping the entry of a key, if there is one, keeps the heap in order   *)
(* and only that key loses its value.                                      *)
LEMMA DropStep ==
    ASSUME HeapInv, NEW k \in Key,
           IF map[k] # NoPtr THEN Drop(k) ELSE UNCHANGED <<nextPage, free, entry, map, clock>>
    PROVE  /\ HeapInv' /\ Held' = [Held EXCEPT ![k] = Absent] /\ map'[k] = NoPtr
           /\ \A j \in Key \ {k} : map'[j] = map[j]
<1>1. CASE map[k] = NoPtr
  <2>1. UNCHANGED <<nextPage, free, entry, map, clock>>
    BY <1>1
  <2>2. HeapInv' /\ Held' = Held
    BY <2>1 DEF HeapInv, Held, ClassesAt, ClassAt, SizeAt, Mapped
  <2>3. Held[k] = Absent /\ Held = [j \in Key |-> Held[j]]
    BY <1>1 DEF Held
  <2>. QED
    BY <1>1, <2>1, <2>2, <2>3
<1>2. CASE map[k] # NoPtr
  <2>. DEFINE p == map[k]
              s == ShardFor[k]
              d == Untrack(clock[s], p)
  <2>1. Drop(k) /\ p # NoPtr /\ s \in Shard
    BY <1>2, StoreAssumption
  <2>2. /\ clock' = [clock EXCEPT ![s] = d] /\ free' = Deallocate(free, p, SizeAt(p))
        /\ entry' = [q \in DOMAIN entry \ {p} |-> entry[q]] /\ map' = [map EXCEPT ![k] = NoPtr]
        /\ nextPage' = nextPage
    BY <2>1 DEF Drop, Restrict
  <2>3. Tracks(clock[s], Mapped(s)) /\ p \in Mapped(s)
    BY <1>2, <2>1, HeapFacts DEF HeapInv
  <2>4. Tracks(d, Mapped(s) \ {p})
    BY Zenon, <2>3, UntrackKeeps
  <2>5. entry' \in [DOMAIN entry \ {p} -> Entries] /\ \A q \in DOMAIN entry \ {p} : entry'[q] = entry[q]
    BY <2>2 DEF HeapInv
  <2>6. map \in [Key -> DOMAIN entry \cup {NoPtr}]
    BY DEF HeapInv
  <2>7. map'[k] = NoPtr /\ \A j \in Key \ {k} : map'[j] = map[j]
    BY <2>2, <2>6
  <2>. HIDE DEF d
  <2>8. HeapInv' /\ Held' = [Held EXCEPT ![k] = Absent]
    BY Zenon, <2>1, <2>2, <2>4, <2>5, EntryGoes
  <2>. QED
    BY <2>7, <2>8
<1>. QED
  BY <1>1, <1>2

(* A put that gets a slot stores its value there and ends. *)
LEMMA StoreStep ==
    ASSUME StoreInv, NEW t \in Thread, PutStore(t)
    PROVE  /\ HeapInv' /\ call[t].key \in Key /\ call[t].value \in Value
           /\ Held' = [Held EXCEPT ![call[t].key] = call[t].value]
           /\ \A j \in Key \ {call[t].key} : map'[j] = map[j]
           /\ call[t] # Idle /\ call' = [call EXCEPT ![t] = Idle] /\ answer' = TRUE
<1>. DEFINE k == call[t].key
            v == call[t].value
            c == ClassForSize(RequiredSize[k][v])
            p == Back(Refill(c))
<1>1. HeapInv /\ call[t] # Idle /\ InPut(call[t], map, Held)
  BY Zenon DEF StoreInv, CallInv, PutStore
<1>2. k \in Key /\ v \in Value /\ map[k] = NoPtr
  BY Zenon, <1>1 DEF InPut
<1>3. /\ c < NumClasses /\ Refill(c) # <<>>
      /\ entry' = [q \in DOMAIN entry \cup {p} |->
                      IF q = p THEN [key |-> k, value |-> v, bit |-> 0] ELSE entry[q]]
      /\ map' = [map EXCEPT ![k] = p]
      /\ clock' = [clock EXCEPT ![ShardFor[k]] = Track(@, p)]
      /\ free' = [free EXCEPT ![c] = PopBack(Refill(c))]
      /\ nextPage' = (IF free[c] = <<>> THEN nextPage + 1 ELSE nextPage)
  BY Zenon DEF PutStore
<1>4. call' = [call EXCEPT ![t] = Idle] /\ answer' = TRUE
  BY Zenon DEF PutStore, PutEnd
<1>5. \A j \in Key \ {k} : map'[j] = map[j]
  BY Zenon, <1>1, <1>3 DEF HeapInv
<1>6. c = ClassForSize(RequiredSize[k][v]) /\ p = Back(Refill(c))
  OBVIOUS
<1>. HIDE DEF k, v, c, p
<1>7. HeapInv' /\ Held' = [Held EXCEPT ![k] = v]
  BY Zenon, <1>1, <1>2, <1>3, <1>6, EntryComes
<1>. QED
  BY Zenon, <1>1, <1>2, <1>4, <1>5, <1>7 DEF k, v

(* evict_one: if the shard tracks an entry, one of them goes, and one that *)
(* was read only if all of them were.                                      *)
LEMMA EvictStep ==
    ASSUME StoreInv, NEW t \in Thread, PutEvict(t), NEW s, s = ShardFor[call[t].key]
    PROVE  /\ HeapInv' /\ Loses(s) /\ call[t] # Idle
           /\ Mapped(s) = {} => DOMAIN entry' = DOMAIN entry
           /\ Mapped(s) # {} =>
                \E p \in Mapped(s) : /\ DOMAIN entry' = DOMAIN entry \ {p}
                                     /\ entry[p].bit = 1 => \A q \in Mapped(s) : entry[q].bit = 1
<1>. DEFINE D == DOMAIN entry
            S == Mapped(s)
            bit == [p \in D |-> entry[p].bit]
            a == EvictOne(clock[s], bit)
            d == Swept(clock[s], a)
            seen == [q \in D |-> [entry[q] EXCEPT !.bit = a.bit[q]]]
<1>1. HeapInv /\ call[t] # Idle /\ call[t].key \in Key /\ s \in Shard
  BY Zenon, StoreAssumption DEF StoreInv, CallInv, InPut, PutEvict
<1>2. /\ entry \in [D -> Entries] /\ Tracks(clock[s], S) /\ NoPtr \notin S /\ S \subseteq D
      /\ clock = [r \in Shard |-> clock[r]] /\ \A r \in Shard : Tracks(clock[r], Mapped(r))
      /\ map \in [Key -> D \cup {NoPtr}]
  BY <1>1, HeapFacts DEF HeapInv
<1>3. bit \in [D -> {0, 1}] /\ \A q \in D : bit[q] = entry[q].bit
  BY <1>2 DEF Entries
<1>4. /\ clock' = [clock EXCEPT ![s] = d] /\ nextPage' = nextPage
      /\ a.victim = NoPtr => entry' = seen /\ map' = map /\ free' = free
      /\ a.victim # NoPtr => /\ entry' = Restrict(seen, D \ {a.victim})
                             /\ map' = [map EXCEPT ![entry[a.victim].key] = NoPtr]
                             /\ free' = Deallocate(free, a.victim, SizeAt(a.victim))
  BY Zenon DEF PutEvict
<1>5. a = EvictOne(clock[s], bit)
  BY Zenon
<1>. HIDE DEF D, S, bit, a, d
<1>6. /\ a.bit \in [D -> {0, 1}]
      /\ S = {} => a.victim = NoPtr
      /\ S # {} => a.victim \in S /\ (bit[a.victim] = 1 => \A q \in S : bit[q] = 1)
      /\ Tracks(Swept(clock[s], a), S \ {a.victim})
  <2>1. FoundIn(S, D, bit, a) /\ Tracks(Swept(clock[s], a), S \ {a.victim})
    BY Zenon, <1>2, <1>3, <1>5, EvictOneFinds
  <2>. QED
    BY <2>1 DEF FoundIn
<1>7. ASSUME NEW q \in D
      PROVE  /\ seen[q] \in Entries /\ seen[q].key = entry[q].key
             /\ seen[q].value = entry[q].value
  <2>1. entry[q] \in Entries /\ a.bit[q] \in {0, 1} /\ seen[q] = [entry[q] EXCEPT !.bit = a.bit[q]]
    BY <1>2, <1>6
  <2>. QED
    BY <2>1 DEF Entries
<1>8. seen = [q \in D |-> seen[q]]
  OBVIOUS
<1>. HIDE DEF seen
<1>9. CASE S = {}
  <2>1. a.victim = NoPtr /\ entry' = seen /\ map' = map /\ free' = free
    BY Zenon, <1>4, <1>6, <1>9
  <2>2. Tracks(clock'[s], S) /\ clock' = [r \in Shard |-> clock'[r]]
        /\ \A r \in Shard \ {s} : clock'[r] = clock[r]
    <3>1. S \ {a.victim} = S
      BY <1>9
    <3>. QED
      BY Zenon, <1>1, <1>2, <1>4, <1>6, <3>1 DEF d
  <2>3. \A r \in Shard : Tracks(clock'[r], Mapped(r))
    BY <1>2, <2>2 DEF S
  <2>4. /\ DOMAIN entry' = DOMAIN entry /\ entry' \in [DOMAIN entry -> Entries]
        /\ \A q \in DOMAIN entry : entry'[q].key = entry[q].key /\ entry'[q].value = entry[q].value
    BY <1>7, <1>8, <2>1 DEF D
  <2>5. HeapInv' /\ Held' = Held
    BY <1>1, <1>4, <2>1, <2>2, <2>3, <2>4, BitsChange
  <2>6. Loses(s)
    BY <2>1, <2>5 DEF Loses
  <2>. QED
    BY <1>1, <1>9, <2>4, <2>5, <2>6 DEF S
<1>10. CASE S # {}
  <2>. DEFINE p == a.victim
              k == entry[p].key
  <2>1. p \in S /\ p # NoPtr /\ p \in D
    BY <1>2, <1>6, <1>10
  <2>2. k \in Key /\ map[k] = p /\ ShardFor[k] = s
    <3>1. PICK j \in KeysOf(s) : map[j] = p
      BY <2>1 DEF S, Mapped
    <3>2. j \in Key /\ ShardFor[j] = s /\ entry[p].key = j
      BY <1>1, <2>1, <3>1, HeapFacts DEF KeysOf
    <3>. QED
      BY Zenon, <3>1, <3>2
  <2>3. /\ entry' = [q \in D \ {p} |-> seen[q]] /\ map' = [map EXCEPT ![k] = NoPtr]
        /\ free' = Deallocate(free, p, SizeAt(p))
    BY <1>4, <2>1 DEF Restrict
  <2>4. /\ entry' \in [D \ {p} -> Entries] /\ DOMAIN entry' = D \ {p}
        /\ \A q \in D \ {p} : entry'[q].key = entry[q].key /\ entry'[q].value = entry[q].value
    BY <1>7, <2>3
  <2>5. clock' = [clock EXCEPT ![ShardFor[k]] = d] /\ Tracks(d, Mapped(ShardFor[k]) \ {p})
    BY Zenon, <1>4, <1>6, <2>2 DEF d, S
  <2>6. map'[k] = NoPtr /\ \A j \in Key \ {k} : map'[j] = map[j]
    BY <1>2, <2>2, <2>3
  <2>. HIDE DEF p, k
  <2>7. HeapInv' /\ Held' = [Held EXCEPT ![k] = Absent]
    BY Zenon, <1>1, <1>4, <2>1, <2>2, <2>3, <2>4, <2>5, EntryGoes DEF D
  <2>8. Held'[k] = Absent /\ \A j \in Key \ {k} : Held'[j] = Held[j]
    BY <1>1, <2>2, <2>7, HeldType
  <2>9. Loses(s)
    BY <2>2, <2>6, <2>8 DEF Loses
  <2>10. entry[p].bit = 1 => \A q \in S : entry[q].bit = 1
    BY <1>2, <1>3, <1>6, <1>10, <2>1 DEF p
  <2>. QED
    BY Zenon, <1>1, <1>10, <2>1, <2>4, <2>7, <2>9, <2>10 DEF S, D
<1>. QED
  BY Zenon, <1>9, <1>10

(* A call on another shard than s does not notice a step on s. *)
LEMMA OtherCall ==
    ASSUME NEW x, InPut(x, map, Held), NEW s, ShardFor[x.key] # s,
           \A j \in Key : ShardFor[j] # s => map'[j] = map[j] /\ Held'[j] = Held[j]
    PROVE  InPut(x, map', Held')
<1>1. /\ x = [pc |-> x.pc, key |-> x.key, value |-> x.value, attempt |-> x.attempt,
              before |-> x.before]
      /\ x.pc \in {"allocate", "evict"} /\ x.key \in Key /\ x.value \in Value
      /\ x.before \in [KeysOf(ShardFor[x.key]) -> Value \cup {Absent}]
      /\ map[x.key] = NoPtr
      /\ \A j \in KeysOf(ShardFor[x.key]) : Held[j] \in {x.before[j], Absent}
  BY DEF InPut
<1>2. \A j \in KeysOf(ShardFor[x.key]) : Held'[j] = Held[j]
  BY DEF KeysOf
<1>. QED
  BY <1>1, <1>2 DEF InPut

(* A call on the shard s notices only that keys of it lost their entries. *)
LEMMA SameCall ==
    ASSUME NEW x, InPut(x, map, Held), NEW s, Loses(s)
    PROVE  InPut(x, map', Held')
<1>1. /\ x = [pc |-> x.pc, key |-> x.key, value |-> x.value, attempt |-> x.attempt,
              before |-> x.before]
      /\ x.pc \in {"allocate", "evict"} /\ x.key \in Key /\ x.value \in Value
      /\ x.before \in [KeysOf(ShardFor[x.key]) -> Value \cup {Absent}]
      /\ map[x.key] = NoPtr
      /\ \A j \in KeysOf(ShardFor[x.key]) : Held[j] \in {x.before[j], Absent}
  BY DEF InPut
<1>2. \A j \in KeysOf(ShardFor[x.key]) : Held'[j] \in {Held[j], Absent}
  BY DEF KeysOf, Loses
<1>3. map'[x.key] = NoPtr
  BY <1>1 DEF Loses
<1>. QED
  BY <1>1, <1>2, <1>3 DEF InPut

(* StoreInv holds of the empty store. *)
LEMMA StoreInit == Init => StoreInv
<1>. SUFFICES ASSUME Init  PROVE StoreInv
  OBVIOUS
<1>1. /\ nextPage = 0 /\ free = [c \in Class |-> <<>>] /\ entry = <<>> /\ map = [k \in Key |-> NoPtr]
      /\ clock = [s \in Shard |-> [ring |-> <<>>, index |-> <<>>, hand |-> 0]]
      /\ call = [t \in Thread |-> Idle]
  BY DEF Init
<1>2. DOMAIN entry = {} /\ Capacity \div PageSize \in Nat
  <2>1. Capacity \in Nat /\ PageSize \in Nat \ {0}
    BY StoreAssumption
  <2>2. Capacity \div PageSize \in Nat
    BY <2>1, Quotient
  <2>. QED
    BY <1>1, <2>2
<1>3. \A s \in Shard : Mapped(s) = {}
  BY <1>1 DEF Mapped, KeysOf
<1>4. \A s \in Shard : Tracks(clock[s], {})
  <2>. DEFINE e == <<>>
              c == [ring |-> e, index |-> e, hand |-> 0]
  <2>1. e \in Seq({}) /\ Len(e) = 0 /\ e \in [{} -> Nat]
    OBVIOUS
  <2>. HIDE DEF e
  <2>2. c.ring = e /\ c.index = e /\ c.hand = 0 /\ c = [ring |-> c.ring, index |-> c.index, hand |-> c.hand]
    OBVIOUS
  <2>. HIDE DEF c
  <2>3. Tracks(c, {})
    BY <2>1, <2>2 DEF Tracks, Indexed
  <2>. QED
    BY <1>1, <2>3 DEF c, e
<1>5. Laid(free, ClassesAt, nextPage * PageSize)
  <2>1. nextPage * PageSize = 0
    BY <1>1, StoreAssumption
  <2>2. DOMAIN ClassesAt = {}
    BY <1>2 DEF ClassesAt
  <2>3. SlotTypes(free, ClassesAt)
    BY <1>1, <2>2 DEF SlotTypes
  <2>4. SlotsOf(free, ClassesAt) = {}
    <3>1. \A c \in Class : free[c] = <<>>
      BY <1>1
    <3>2. \A c \in Class : {<<c, i, free[c][i]>> : i \in DOMAIN free[c]} = {}
      BY <3>1
    <3>. QED
      BY <2>2, <3>2 DEF SlotsOf
  <2>5. Tiles({}, 0)
    BY DEF Tiles
  <2>. QED
    BY <2>1, <2>3, <2>4, <2>5 DEF Laid
<1>6. HeapInv
  <2>1. entry \in [DOMAIN entry -> Entries] /\ map \in [Key -> DOMAIN entry \cup {NoPtr}]
    BY <1>1, <1>2
  <2>2. /\ \A k \in Key : map[k] # NoPtr => entry[map[k]].key = k
        /\ \A p \in DOMAIN entry : map[entry[p].key] = p
    BY <1>1, <1>2
  <2>3. clock = [s \in Shard |-> clock[s]] /\ \A s \in Shard : Tracks(clock[s], Mapped(s))
    BY Zenon, <1>1, <1>3, <1>4
  <2>4. nextPage \in Nat /\ nextPage <= Capacity \div PageSize
    BY <1>1, <1>2
  <2>. QED
    BY <1>5, <2>1, <2>2, <2>3, <2>4 DEF HeapInv
<1>7. CallInv
  BY <1>1 DEF CallInv, Exclusive
<1>. QED
  BY <1>6, <1>7 DEF StoreInv

(* A call on a shard keeps other threads' calls off it. *)
LEMMA OffShard ==
    ASSUME NEW s, ~Locked(s)
    PROVE  \A t \in Thread : call[t] # Idle => ShardFor[call[t].key] # s
BY DEF Locked

(* LocalStore::get keeps the invariant. *)
LEMMA GetInv ==
    ASSUME StoreInv, NEW t \in Thread, NEW k \in Key, Get(t, k)
    PROVE  StoreInv'
<1>1. HeapInv' /\ Held' = Held /\ map' = map /\ call' = call
  BY GetStep DEF StoreInv
<1>2. CallInv'
  BY <1>1 DEF StoreInv, CallInv
<1>. QED
  BY <1>1, <1>2 DEF StoreInv

(* LocalStore::del keeps the invariant. *)
LEMMA DelInv ==
    ASSUME StoreInv, NEW t \in Thread, NEW k \in Key, Del(t, k)
    PROVE  StoreInv'
<1>1. /\ HeapInv' /\ Held' = [Held EXCEPT ![k] = Absent] /\ call' = call
      /\ \A j \in Key \ {k} : map'[j] = map[j]
  BY DropStep DEF StoreInv, Del
<1>2. Held \in [Key -> Value \cup {Absent}]
  BY HeldType DEF StoreInv
<1>3. \A j \in Key : ShardFor[j] # ShardFor[k] => map'[j] = map[j] /\ Held'[j] = Held[j]
  BY <1>1, <1>2
<1>4. \A u \in Thread : call[u] # Idle => InPut(call[u], map, Held) /\ ShardFor[call[u].key] # ShardFor[k]
  BY OffShard DEF StoreInv, CallInv, Del
<1>5. \A u \in Thread : call'[u] # Idle => InPut(call'[u], map', Held')
  <2>1. ASSUME NEW u \in Thread, call[u] # Idle
        PROVE  InPut(call[u], map', Held')
    BY Zenon, <1>3, <1>4, <2>1, OtherCall
  <2>. QED
    BY Zenon, <1>1, <2>1
<1>6. CallInv'
  BY Zenon, <1>1, <1>5 DEF StoreInv, CallInv
<1>. QED
  BY <1>1, <1>6 DEF StoreInv

(* The start of LocalStore::put, which removes the old entry, keeps the    *)
(* invariant.                                                              *)
LEMMA BeginInv ==
    ASSUME StoreInv, NEW t \in Thread, NEW k \in Key, NEW v \in Value, PutBegin(t, k, v)
    PROVE  StoreInv'
<1>. DEFINE s == ShardFor[k]
            x == [pc |-> "allocate", key |-> k, value |-> v, attempt |-> 0,
                  before |-> Restrict(Held, KeysOf(s))]
<1>1. /\ HeapInv' /\ Held' = [Held EXCEPT ![k] = Absent] /\ map'[k] = NoPtr
      /\ \A j \in Key \ {k} : map'[j] = map[j]
  BY Zenon, DropStep DEF StoreInv, PutBegin
<1>2. Held \in [Key -> Value \cup {Absent}]
  BY HeldType DEF StoreInv
<1>3. \A j \in Key : ShardFor[j] # s => map'[j] = map[j] /\ Held'[j] = Held[j]
  BY Zenon, <1>1, <1>2
<1>4. \A u \in Thread : call[u] # Idle => InPut(call[u], map, Held) /\ ShardFor[call[u].key] # s
  BY OffShard DEF StoreInv, CallInv, PutBegin
<1>5. call = [u \in Thread |-> call[u]] /\ call' = [call EXCEPT ![t] = x]
  BY DEF StoreInv, CallInv, PutBegin
<1>6. call'[t] = x /\ \A u \in Thread \ {t} : call'[u] = call[u]
  BY <1>5
<1>7. InPut(x, map', Held')
  <2>1. x.before \in [KeysOf(s) -> Value \cup {Absent}]
        /\ \A j \in KeysOf(s) : x.before[j] = Held[j] /\ Held'[j] \in {Held[j], Absent}
    BY Zenon, <1>1, <1>2 DEF Restrict, KeysOf
  <2>2. /\ x.pc = "allocate" /\ x.key = k /\ x.value = v
        /\ x = [pc |-> x.pc, key |-> x.key, value |-> x.value, attempt |-> x.attempt, before |-> x.before]
    OBVIOUS
  <2>. HIDE DEF x
  <2>. QED
    BY <1>1, <2>1, <2>2 DEF InPut
<1>8. x.key = k
  OBVIOUS
<1>. HIDE DEF x
<1>9. \A u \in Thread : call'[u] # Idle => InPut(call'[u], map', Held')
  <2>1. ASSUME NEW u \in Thread, call[u] # Idle
        PROVE  InPut(call[u], map', Held')
    BY Zenon, <1>3, <1>4, <2>1, OtherCall
  <2>. QED
    BY Zenon, <1>6, <1>7, <2>1
<1>10. \A u \in Thread \ {t} : call'[u] # Idle => ShardFor[call'[u].key] # ShardFor[call'[t].key]
  BY <1>4, <1>6, <1>8
<1>11. \A u \in Thread, w \in Thread :
         /\ call'[u] # Idle /\ call'[w] # Idle
         /\ ShardFor[call'[u].key] = ShardFor[call'[w].key]
         => u = w
  BY <1>6, <1>10 DEF StoreInv, CallInv, Exclusive
<1>12. call' = [u \in Thread |-> call'[u]]
  BY <1>5
<1>. QED
  BY Zenon, <1>1, <1>9, <1>11, <1>12 DEF StoreInv, CallInv, Exclusive

(* The put of t ends, having touched its own shard only. *)
LEMMA EndCalls ==
    ASSUME CallInv, NEW t \in Thread, call[t] # Idle, call' = [call EXCEPT ![t] = Idle],
           \A j \in Key : ShardFor[j] # ShardFor[call[t].key] => map'[j] = map[j] /\ Held'[j] = Held[j]
    PROVE  CallInv'
<1>1. call = [u \in Thread |-> call[u]]
  BY DEF CallInv
<1>2. call'[t] = Idle /\ \A u \in Thread \ {t} : call'[u] = call[u]
  BY <1>1
<1>3. ASSUME NEW u \in Thread, call'[u] # Idle
      PROVE  InPut(call'[u], map', Held')
  <2>1. u # t /\ call'[u] = call[u] /\ call[u] # Idle
    BY <1>2, <1>3
  <2>2. InPut(call[u], map, Held) /\ ShardFor[call[u].key] # ShardFor[call[t].key]
    BY <2>1 DEF CallInv, Exclusive
  <2>3. InPut(call[u], map', Held')
    BY <2>2, OtherCall
  <2>. QED
    BY <2>1, <2>3
<1>4. \A u \in Thread, w \in Thread :
        /\ call'[u] # Idle /\ call'[w] # Idle
        /\ ShardFor[call'[u].key] = ShardFor[call'[w].key]
        => u = w
  BY <1>2 DEF CallInv, Exclusive
<1>5. call' = [u \in Thread |-> call'[u]]
  BY <1>1
<1>. QED
  BY <1>3, <1>4, <1>5 DEF CallInv, Exclusive

(* The put of t goes on, its shard having lost entries at most. *)
LEMMA OnCalls ==
    ASSUME CallInv, NEW t \in Thread, call[t] # Idle, Loses(ShardFor[call[t].key]),
           NEW x, call' = [call EXCEPT ![t] = x],
           NEW pc \in {"allocate", "evict"}, NEW n,
           x = [call[t] EXCEPT !.pc = pc, !.attempt = n]
    PROVE  CallInv'
<1>. DEFINE s == ShardFor[call[t].key]
<1>1. call = [u \in Thread |-> call[u]] /\ InPut(call[t], map, Held)
  BY DEF CallInv
<1>2. call'[t] = x /\ \A u \in Thread \ {t} : call'[u] = call[u]
  BY <1>1
<1>3. InPut(call[t], map', Held')
  BY <1>1, SameCall
<1>4. /\ x.pc = pc /\ x.key = call[t].key /\ x.value = call[t].value /\ x.before = call[t].before
      /\ x = [pc |-> x.pc, key |-> x.key, value |-> x.value, attempt |-> x.attempt, before |-> x.before]
  <2>. DEFINE y == call[t]
  <2>1. y = [pc |-> y.pc, key |-> y.key, value |-> y.value, attempt |-> y.attempt, before |-> y.before]
    BY <1>1 DEF InPut
  <2>2. x = [y EXCEPT !.pc = pc, !.attempt = n]
    OBVIOUS
  <2>. HIDE DEF y
  <2>3. x = [pc |-> pc, key |-> y.key, value |-> y.value, attempt |-> n, before |-> y.before]
    BY Zenon, <2>1, <2>2
  <2>. QED
    BY Zenon, <2>3 DEF y
<1>5. InPut(x, map', Held')
  BY <1>3, <1>4 DEF InPut
<1>6. \A j \in Key : ShardFor[j] # s => map'[j] = map[j] /\ Held'[j] = Held[j]
  BY DEF Loses
<1>7. ASSUME NEW u \in Thread \ {t}, call'[u] # Idle
      PROVE  InPut(call'[u], map', Held')
  <2>1. call'[u] = call[u] /\ call[u] # Idle
    BY <1>2, <1>7
  <2>2. InPut(call[u], map, Held) /\ ShardFor[call[u].key] # s
    BY <2>1 DEF CallInv, Exclusive
  <2>3. InPut(call[u], map', Held')
    BY <1>6, <2>2, OtherCall
  <2>. QED
    BY <2>1, <2>3
<1>8. ASSUME NEW u \in Thread, call'[u] # Idle
      PROVE  /\ InPut(call'[u], map', Held')
             /\ call[u] # Idle /\ call'[u].key = call[u].key
  <2>1. CASE u = t
    BY <1>2, <1>4, <1>5, <2>1
  <2>2. CASE u # t
    BY <1>2, <1>7, <1>8, <2>2
  <2>. QED
    BY <2>1, <2>2
<1>9. \A u \in Thread, w \in Thread :
        /\ call'[u] # Idle /\ call'[w] # Idle
        /\ ShardFor[call'[u].key] = ShardFor[call'[w].key]
        => u = w
  BY <1>8 DEF CallInv, Exclusive
<1>10. call' = [u \in Thread |-> call'[u]]
  BY <1>1
<1>. QED
  BY <1>8, <1>9, <1>10 DEF CallInv, Exclusive

(* The end of a put that got a slot keeps the invariant. *)
LEMMA StoreEndInv ==
    ASSUME StoreInv, NEW t \in Thread, PutStore(t)
    PROVE  StoreInv'
<1>. DEFINE k == call[t].key
            v == call[t].value
<1>1. /\ HeapInv' /\ k \in Key /\ Held' = [Held EXCEPT ![k] = v]
      /\ \A j \in Key \ {k} : map'[j] = map[j]
      /\ call[t] # Idle /\ call' = [call EXCEPT ![t] = Idle]
  BY Zenon, StoreStep
<1>2. Held \in [Key -> Value \cup {Absent}] /\ CallInv
  BY HeldType DEF StoreInv
<1>3. \A j \in Key : ShardFor[j] # ShardFor[k] => map'[j] = map[j] /\ Held'[j] = Held[j]
  BY Zenon, <1>1, <1>2
<1>4. CallInv'
  BY Zenon, <1>1, <1>2, <1>3, EndCalls
<1>. QED
  BY <1>1, <1>4 DEF StoreInv

(* A failed allocation keeps the invariant. *)
LEMMA NoSlotInv ==
    ASSUME StoreInv, NEW t \in Thread, PutNoSlot(t)
    PROVE  StoreInv' /\ Held' = Held
<1>1. /\ call[t] # Idle /\ call' = [call EXCEPT ![t] = [call[t] EXCEPT !.pc = "evict"]]
      /\ UNCHANGED <<nextPage, free, entry, map, clock>>
  BY DEF PutNoSlot
<1>2. HeapInv' /\ Held' = Held
  BY <1>1 DEF StoreInv, HeapInv, Held, ClassesAt, ClassAt, SizeAt, Mapped
<1>. DEFINE y == call[t]
            x == [y EXCEPT !.pc = "evict"]
<1>3. x = [y EXCEPT !.pc = "evict", !.attempt = y.attempt]
  <2>1. y = [pc |-> y.pc, key |-> y.key, value |-> y.value, attempt |-> y.attempt, before |-> y.before]
    BY <1>1 DEF StoreInv, CallInv, InPut
  <2>. HIDE DEF y
  <2>. QED
    BY Zenon, <2>1
<1>4. Loses(ShardFor[y.key])
  BY <1>1, <1>2 DEF Loses
<1>5. call[t] # Idle /\ CallInv /\ "evict" \in {"allocate", "evict"} /\ call' = [call EXCEPT ![t] = x]
  BY <1>1 DEF StoreInv
<1>. DEFINE n == y.attempt
<1>6. x = [call[t] EXCEPT !.pc = "evict", !.attempt = n] /\ Loses(ShardFor[call[t].key])
  BY <1>3, <1>4
<1>. HIDE DEF x, n
<1>7. CallInv'
  BY <1>5, <1>6, OnCalls, Zenon
<1>. QED
  BY <1>2, <1>7 DEF StoreInv

(* An eviction, or the end of a put that finds no victim, keeps the        *)
(* invariant.                                                              *)
LEMMA EvictInv ==
    ASSUME StoreInv, NEW t \in Thread, PutEvict(t)
    PROVE  StoreInv'
<1>. DEFINE s == ShardFor[call[t].key]
            y == call[t]
            x == [y EXCEPT !.pc = "allocate", !.attempt = y.attempt + 1]
<1>1. HeapInv' /\ Loses(s) /\ call[t] # Idle /\ CallInv
  BY Zenon, EvictStep DEF StoreInv
<1>2. \/ call' = [call EXCEPT ![t] = Idle]
      \/ call' = [call EXCEPT ![t] = x]
  BY Zenon DEF PutEvict, PutEnd
<1>3. CASE call' = [call EXCEPT ![t] = Idle]
  <2>1. \A j \in Key : ShardFor[j] # s => map'[j] = map[j] /\ Held'[j] = Held[j]
    BY <1>1 DEF Loses
  <2>. QED
    BY Zenon, <1>1, <1>3, <2>1, EndCalls DEF StoreInv
<1>4. CASE call' = [call EXCEPT ![t] = x]
  <2>1. "allocate" \in {"allocate", "evict"} /\ x = [y EXCEPT !.pc = "allocate", !.attempt = y.attempt + 1]
    OBVIOUS
  <2>. HIDE DEF x
  <2>2. CallInv'
    BY Zenon, <1>1, <1>4, <2>1, OnCalls
  <2>. QED
    BY <1>1, <2>2 DEF StoreInv
<1>. QED
  BY <1>2, <1>3, <1>4

(* Every step keeps the invariant. *)
LEMMA StoreNext == StoreInv /\ [Next]_vars => StoreInv'
<1>. SUFFICES ASSUME StoreInv, [Next]_vars  PROVE StoreInv'
  OBVIOUS
<1>1. CASE UNCHANGED vars
  <2>1. ClassesAt' = ClassesAt /\ Held' = Held
    BY Zenon, <1>1 DEF vars, Held, ClassesAt, ClassAt, SizeAt
  <2>2. \A s \in Shard : Mapped(s)' = Mapped(s)
    BY Zenon, <1>1 DEF vars, Mapped
  <2>3. HeapInv'
    BY Zenon, <1>1, <2>1, <2>2 DEF vars, StoreInv, HeapInv
  <2>4. CallInv'
    BY Zenon, <1>1, <2>1 DEF vars, StoreInv, CallInv
  <2>. QED
    BY <2>3, <2>4 DEF StoreInv
<1>2. ASSUME NEW t \in Thread, NEW k \in Key, Get(t, k) \/ Del(t, k)
      PROVE  StoreInv'
  BY <1>2, GetInv, DelInv
<1>3. ASSUME NEW t \in Thread, NEW k \in Key, NEW v \in Value, PutBegin(t, k, v)
      PROVE  StoreInv'
  BY <1>3, BeginInv
<1>4. ASSUME NEW t \in Thread, PutStore(t) \/ PutNoSlot(t) \/ PutEvict(t)
      PROVE  StoreInv'
  BY <1>4, StoreEndInv, NoSlotInv, EvictInv
<1>. QED
  BY <1>1, <1>2, <1>3, <1>4 DEF Next

(* The invariant holds throughout. *)
LEMMA StoreAlways == Spec => []StoreInv
BY StoreInit, StoreNext, PTL DEF Spec

-----------------------------------------------------------------------------
(* The indexes and the slots *)

(* With any number of threads, shards, keys and slot classes, the map, the *)
(* ring and the index of every shard agree (clock_evictor.cpp 5-55,        *)
(* local_store.cpp 15-79).                                                 *)
THEOREM ShardIndexesAgree == Spec => []IndexesAgree
<1>1. StoreInv => IndexesAgree
  <2>. SUFFICES ASSUME HeapInv  PROVE IndexesAgree
    BY DEF StoreInv
  <2>1. ASSUME NEW s \in Shard
        PROVE  /\ Range(clock[s].ring) = Mapped(s) /\ DOMAIN clock[s].index = Range(clock[s].ring)
               /\ \A p \in DOMAIN clock[s].index :
                    /\ clock[s].index[p] < Len(clock[s].ring)
                    /\ clock[s].ring[clock[s].index[p] + 1] = p
               /\ Len(clock[s].ring) = Cardinality(DOMAIN clock[s].index)
               /\ clock[s].hand = 0 \/ clock[s].hand < Len(clock[s].ring)
    <3>. DEFINE c == clock[s]
                S == Mapped(s)
    <3>1. Indexed(c, S) /\ (c.hand = 0 \/ c.hand < Len(c.ring))
      BY DEF HeapInv, Tracks
    <3>. HIDE DEF c, S
    <3>2. Range(c.ring) = S /\ DOMAIN c.index = S /\ Len(c.ring) = Cardinality(S)
      BY Zenon, <3>1, RingRange
    <3>3. \A p \in S : c.index[p] < Len(c.ring) /\ c.ring[c.index[p] + 1] = p
      BY <3>1 DEF Indexed
    <3>. QED
      BY <3>1, <3>2, <3>3 DEF c, S
  <2>2. /\ \A p \in DOMAIN entry : map[entry[p].key] = p
        /\ \A k \in Key : map[k] # NoPtr => entry[map[k]].key = k
    BY DEF HeapInv
  <2>. QED
    BY Zenon, <2>1, <2>2 DEF IndexesAgree, Mapped
<1>. QED
  BY <1>1, StoreAlways, PTL

(* In every arena, whatever the slot sizes and the threads, live entries   *)
(* and free slots share the pages handed out without overlap or loss       *)
(* (slab_allocator.cpp 72-115).                                            *)
THEOREM SlotsPartition == Spec => []SlotsPartitionPages
<1>1. StoreInv => SlotsPartitionPages
  <2>. SUFFICES ASSUME HeapInv  PROVE SlotsPartitionPages
    BY DEF StoreInv
  <2>. DEFINE n == nextPage * PageSize
  <2>1. Slots = SlotsOf(free, ClassesAt)
    BY DEF Slots, SlotsOf, ClassesAt
  <2>2. Tiles(Slots, n)
    BY <2>1 DEF HeapInv, Laid
  <2>3. PageSize \in Nat /\ PageSize > 0 /\ Capacity \in Nat /\ nextPage \in Nat
        /\ nextPage <= Capacity \div PageSize
    BY StoreAssumption DEF HeapInv
  <2>4. n \in Nat /\ n <= Capacity
    <3>1. CASE nextPage = 0
      BY <2>3, <3>1
    <3>2. CASE nextPage # 0
      <4>. DEFINE m == nextPage - 1
      <4>1. m \in Nat /\ m < Capacity \div PageSize /\ nextPage = m + 1
        BY <2>3, <3>2, Quotient
      <4>2. (m + 1) * PageSize <= Capacity
        <5>. HIDE DEF m
        <5>. QED
          BY <2>3, <4>1, Quotient
      <4>. QED
        BY <2>3, <4>1, <4>2
    <3>. QED
      BY <3>1, <3>2
  <2>. HIDE DEF n
  <2>5. ASSUME NEW x \in Slots
        PROVE  \A b : b \in Bytes(x) <=> b \in Nat /\ Covers(x, b)
    <3>1. x[1] \in Class /\ x[3] \in Nat
      BY <2>2 DEF Tiles
    <3>2. SlotSize(x[1]) \in Nat
      BY <3>1, SlotSizes
    <3>. QED
      BY <3>1, <3>2 DEF Bytes, Covers
  <2>6. ASSUME NEW x \in Slots, NEW y \in Slots, x # y
        PROVE  Bytes(x) \cap Bytes(y) = {}
    BY <2>2, <2>5, <2>6 DEF Tiles
  <2>7. ASSUME NEW b
        PROVE  b \in UNION {Bytes(x) : x \in Slots} <=> b \in 0 .. n - 1
    <3>1. b \in UNION {Bytes(x) : x \in Slots} <=> b \in Nat /\ \E x \in Slots : Covers(x, b)
      BY <2>5
    <3>2. b \in Nat => (b < n <=> \E x \in Slots : Covers(x, b))
      BY <2>2 DEF Tiles
    <3>3. b \in 0 .. n - 1 <=> b \in Nat /\ b < n
      BY <2>4
    <3>. QED
      BY <3>1, <3>2, <3>3
  <2>8. 0 .. n - 1 \subseteq Address
    BY <2>3, <2>4 DEF Address
  <2>9. ASSUME NEW p \in DOMAIN entry
        PROVE  SizeAt(p) <= SlotSize(ClassAt(p))
    <3>1. entry[p] \in Entries /\ ClassAt(p) \in Class
      BY HeapFacts
    <3>2. SizeAt(p) \in Nat
      BY <3>1, StoreAssumption DEF SizeAt, Entries
    <3>3. ClassForSize(SizeAt(p)) < NumClasses
      BY <3>1, StoreAssumption DEF ClassAt, Class
    <3>. QED
      BY <3>2, <3>3, ClassFits DEF ClassAt
  <2>. QED
    BY <2>6, <2>7, <2>8, <2>9 DEF SlotsPartitionPages, n
<1>. QED
  BY <1>1, StoreAlways, PTL

-----------------------------------------------------------------------------
(* The eviction *)

(* The step in which t evicts is its PutEvict, in the shard it has locked. *)
LEMMA EvictingIs ==
    ASSUME StoreInv, Next, NEW t \in Thread, Evicting(t)
    PROVE  PutEvict(t) /\ RingOf(t) = Mapped(ShardFor[call[t].key])
<1>1. call[t] # Idle /\ call[t].pc = "evict" /\ call'[t] # call[t] /\ call = [u \in Thread |-> call[u]]
  BY DEF Evicting, StoreInv, CallInv
<1>2. PutEvict(t)
  <2>1. ASSUME NEW u \in Thread, NEW k \in Key, Get(u, k) \/ Del(u, k)
        PROVE  FALSE
    BY <1>1, <2>1 DEF Get, Del
  <2>2. ASSUME NEW u \in Thread, NEW k \in Key, NEW v \in Value, PutBegin(u, k, v)
        PROVE  FALSE
    <3>1. u # t
      BY <1>1, <2>2 DEF PutBegin
    <3>. QED
      BY <1>1, <2>2, <3>1 DEF PutBegin
  <2>3. ASSUME NEW u \in Thread, PutStore(u) \/ PutNoSlot(u)
        PROVE  FALSE
    <3>1. u # t
      BY Zenon, <1>1, <2>3 DEF PutStore, PutNoSlot
    <3>2. call'[t] = call[t]
      BY Zenon, <1>1, <2>3, <3>1 DEF PutStore, PutNoSlot, PutEnd
    <3>. QED
      BY <1>1, <3>2
  <2>4. ASSUME NEW u \in Thread, PutEvict(u)
        PROVE  u = t
    BY Zenon, <1>1, <2>4 DEF PutEvict, PutEnd
  <2>. QED
    BY <2>1, <2>2, <2>3, <2>4 DEF Next
<1>3. Range(clock[ShardFor[call[t].key]].ring) = Mapped(ShardFor[call[t].key])
  <2>1. ShardFor[call[t].key] \in Shard
    BY <1>1, StoreAssumption DEF StoreInv, CallInv, InPut
  <2>2. Indexed(clock[ShardFor[call[t].key]], Mapped(ShardFor[call[t].key]))
    BY <2>1 DEF StoreInv, HeapInv, Tracks
  <2>. QED
    BY <2>2, RingRange
<1>. QED
  BY <1>2, <1>3 DEF RingOf

(* evict_one evicts one entry of its shard whenever there is one: two      *)
(* rounds of the hand are enough on every ring (clock_evictor.cpp 36-55).  *)
THEOREM SweepEndsWithVictim == Spec => SweepFindsVictim
<1>. DEFINE Finds == \A t \in Thread : Evicting(t) /\ RingOf(t) # {} =>
                       \E p \in RingOf(t) : DOMAIN entry' = DOMAIN entry \ {p}
<1>1. StoreInv /\ [Next]_vars => [Finds]_vars
  <2>. SUFFICES ASSUME StoreInv, Next, NEW t \in Thread, Evicting(t), RingOf(t) # {}
                PROVE  \E p \in RingOf(t) : DOMAIN entry' = DOMAIN entry \ {p}
    OBVIOUS
  <2>1. PutEvict(t) /\ RingOf(t) = Mapped(ShardFor[call[t].key])
    BY EvictingIs
  <2>. DEFINE s == ShardFor[call[t].key]
  <2>2. \E p \in Mapped(s) : DOMAIN entry' = DOMAIN entry \ {p}
    BY Zenon, <2>1, EvictStep
  <2>. QED
    BY <2>1, <2>2
<1>. QED
  BY <1>1, StoreAlways, PTL DEF Spec, SweepFindsVictim

(* An entry read since the hand last passed it is evicted only if all      *)
(* entries of the shard were (clock_evictor.cpp 36-55).                    *)
THEOREM ReadEntriesStay == Spec => SecondChance
<1>. DEFINE Spares == \A t \in Thread : Evicting(t) =>
                        \A p \in DOMAIN entry \ DOMAIN entry' :
                          entry[p].bit = 1 => \A q \in RingOf(t) : entry[q].bit = 1
<1>1. StoreInv /\ [Next]_vars => [Spares]_vars
  <2>. SUFFICES ASSUME StoreInv, Next, NEW t \in Thread, Evicting(t),
                       NEW p \in DOMAIN entry \ DOMAIN entry', entry[p].bit = 1,
                       NEW q \in RingOf(t)
                PROVE  entry[q].bit = 1
    OBVIOUS
  <2>1. PutEvict(t) /\ RingOf(t) = Mapped(ShardFor[call[t].key])
    BY EvictingIs
  <2>. QED
    BY Zenon, <2>1, EvictStep
<1>. QED
  BY <1>1, StoreAlways, PTL DEF Spec, SecondChance

-----------------------------------------------------------------------------
(* The refinement: Visible takes the steps of AtomicCache *)

(* A key whose shard nobody has locked is seen as it is. *)
LEMMA SeenUnlocked ==
    ASSUME NEW c, NEW h, NEW k \in Key, \A t \in Thread : ~OnShard(c, t, k)
    PROVE  Seen(c, h)[k] = h[k]
BY DEF Seen, OnShard

(* A key whose shard the put of t has locked is seen as it was before. *)
LEMMA SeenLocked ==
    ASSUME NEW c, Exclusive(c), NEW h, NEW k \in Key, NEW t \in Thread, OnShard(c, t, k)
    PROVE  Seen(c, h)[k] = c[t].before[k]
<1>. DEFINE w == CHOOSE u \in Thread : c[u] # Idle /\ ShardFor[c[u].key] = ShardFor[k]
<1>1. w \in Thread /\ c[w] # Idle /\ ShardFor[c[w].key] = ShardFor[k]
  BY Zenon DEF OnShard
<1>2. w = t
  BY <1>1 DEF Exclusive, OnShard
<1>3. Seen(c, h)[k] = IF \E u \in Thread : c[u] # Idle /\ ShardFor[c[u].key] = ShardFor[k]
                      THEN c[w].before[k] ELSE h[k]
  BY Zenon DEF Seen
<1>. HIDE DEF w
<1>. QED
  BY Zenon, <1>1, <1>2, <1>3

(* Visible in terms of the calls and the values held. *)
LEMMA VisibleIs == Visible = Seen(call, Held)
BY DEF Visible, Seen, Locked

(* What is visible after a step is a function on the keys. *)
LEMMA VisibleFunction == Visible' = [k \in Key |-> Visible'[k]]
BY DEF Visible

(* What is visible is the contents of a cache. *)
LEMMA VisibleType == StoreInv => Visible \in Contents
<1>. SUFFICES ASSUME StoreInv  PROVE Visible \in Contents
  OBVIOUS
<1>1. Held \in [Key -> Value \cup {Absent}] /\ CallInv /\ Exclusive(call)
  BY HeldType DEF StoreInv, CallInv
<1>2. ASSUME NEW k \in Key
      PROVE  Seen(call, Held)[k] \in Value \cup {Absent}
  <2>1. ASSUME NEW t \in Thread, OnShard(call, t, k)
        PROVE  Seen(call, Held)[k] \in Value \cup {Absent}
    <3>1. InPut(call[t], map, Held) /\ ShardFor[call[t].key] = ShardFor[k]
      BY Zenon, <1>1, <2>1 DEF CallInv, OnShard
    <3>2. call[t].before[k] \in Value \cup {Absent}
      BY Zenon, <3>1 DEF InPut, KeysOf
    <3>3. Seen(call, Held)[k] = call[t].before[k]
      BY Zenon, <1>1, <2>1, SeenLocked
    <3>. QED
      BY Zenon, <3>2, <3>3
  <2>2. CASE \A t \in Thread : ~OnShard(call, t, k)
    <3>1. Seen(call, Held)[k] = Held[k]
      BY Zenon, <2>2, SeenUnlocked
    <3>. QED
      BY <1>1, <3>1
  <2>. QED
    BY Zenon, <2>1, <2>2
<1>3. Visible = [k \in Key |-> Visible[k]]
  BY DEF Visible
<1>. QED
  BY <1>2, <1>3, VisibleIs DEF Contents

(* A step of t on another shard does not change what the store shows of k. *)
LEMMA VisibleElsewhere ==
    ASSUME StoreInv, StoreInv', NEW t \in Thread, NEW k \in Key, Held'[k] = Held[k],
           \A u \in Thread \ {t} : call'[u] = call[u],
           ~OnShard(call, t, k), ~OnShard(call', t, k)
    PROVE  Visible'[k] = Visible[k]
<1>1. Exclusive(call) /\ Exclusive(call')
  BY DEF StoreInv, CallInv, Exclusive
<1>2. Visible = Seen(call, Held) /\ Visible' = Seen(call', Held')
  BY Zenon, VisibleIs DEF Visible, Seen, Locked
<1>3. ASSUME NEW u \in Thread, OnShard(call, u, k)
      PROVE  Visible'[k] = Visible[k]
  <2>1. call'[u] = call[u]
    BY Zenon, <1>3
  <2>2. Seen(call, Held)[k] = call[u].before[k]
    BY Zenon, <1>1, <1>3, SeenLocked
  <2>3. OnShard(call', u, k)
    BY Zenon, <1>3, <2>1 DEF OnShard
  <2>4. Seen(call', Held')[k] = call'[u].before[k]
    BY Zenon, <1>1, <2>3, SeenLocked
  <2>. QED
    BY Zenon, <1>2, <2>1, <2>2, <2>4
<1>4. CASE \A u \in Thread : ~OnShard(call, u, k)
  <2>1. \A u \in Thread : ~OnShard(call', u, k)
    BY Zenon, <1>4 DEF OnShard
  <2>2. Seen(call, Held)[k] = Held[k]
    BY Zenon, <1>4, SeenUnlocked
  <2>3. Seen(call', Held')[k] = Held'[k]
    BY Zenon, <2>1, SeenUnlocked
  <2>. QED
    BY Zenon, <1>2, <2>2, <2>3
<1>. QED
  BY Zenon, <1>3, <1>4

(* Of an unlocked shard the store shows what it holds; an entry is absent  *)
(* when the map has none.                                                  *)
LEMMA VisibleUnlocked ==
    ASSUME StoreInv, NEW k \in Key, ~Locked(ShardFor[k])
    PROVE  /\ \A j \in Key : ShardFor[j] = ShardFor[k] => Visible[j] = Held[j]
           /\ Held[k] # Absent <=> map[k] # NoPtr
<1>1. \A t \in Thread : call[t] # Idle => ShardFor[call[t].key] # ShardFor[k]
  BY OffShard
<1>2. ASSUME NEW j \in Key, ShardFor[j] = ShardFor[k]
      PROVE  Visible[j] = Held[j]
  <2>1. \A t \in Thread : ~OnShard(call, t, j)
    BY Zenon, <1>1, <1>2 DEF OnShard
  <2>. QED
    BY Zenon, <2>1, SeenUnlocked, VisibleIs
<1>3. map[k] # NoPtr => entry[map[k]] \in Entries
  BY DEF StoreInv, HeapInv
<1>4. Held[k] # Absent <=> map[k] # NoPtr
  BY <1>3, AbsentAssumption DEF Held, Entries
<1>. QED
  BY <1>2, <1>4

(* A get is an atomic get. *)
LEMMA GetRefines ==
    ASSUME StoreInv, NEW t \in Thread, NEW k \in Key, Get(t, k)
    PROVE  Abstract!AtomicGet(k)
<1>1. Held' = Held /\ call' = call
  BY GetStep DEF StoreInv
<1>2. Visible' = Visible
  BY <1>1 DEF Visible, Locked
<1>3. answer' = Held[k] /\ ~Locked(ShardFor[k])
  BY DEF Get
<1>4. Visible[k] = Held[k]
  BY <1>3, VisibleUnlocked
<1>. QED
  BY <1>2, <1>3, <1>4 DEF Abstract!AtomicGet

(* A del is an atomic del. *)
LEMMA DelRefines ==
    ASSUME StoreInv, NEW t \in Thread, NEW k \in Key, Del(t, k)
    PROVE  Abstract!AtomicDel(k)
<1>1. /\ ~Locked(ShardFor[k]) /\ answer' = (map[k] # NoPtr) /\ call' = call /\ call[t] = Idle
      /\ IF map[k] # NoPtr THEN Drop(k) ELSE UNCHANGED <<nextPage, free, entry, map, clock>>
  BY DEF Del
<1>2. Held' = [Held EXCEPT ![k] = Absent] /\ Held \in [Key -> Value \cup {Absent}]
  BY <1>1, DropStep, HeldType DEF StoreInv
<1>3. StoreInv'
  BY DelInv
<1>4. Visible \in Contents /\ Visible' = [j \in Key |-> Visible'[j]]
  BY VisibleType, VisibleFunction
<1>5. ASSUME NEW j \in Key
      PROVE  Visible'[j] = IF j = k THEN Absent ELSE Visible[j]
  <2>1. CASE ShardFor[j] = ShardFor[k]
    <3>1. \A u \in Thread : ~OnShard(call', u, j)
      BY Zenon, <1>1, <2>1, OffShard DEF OnShard
    <3>2. Seen(call', Held')[j] = Held'[j]
      BY Zenon, <3>1, SeenUnlocked
    <3>3. Visible' = Seen(call', Held')
      BY DEF Visible, Seen, Locked
    <3>4. Visible[j] = Held[j]
      BY <1>1, <2>1, VisibleUnlocked
    <3>. QED
      BY <1>2, <3>2, <3>3, <3>4
  <2>2. CASE ShardFor[j] # ShardFor[k]
    <3>1. Held'[j] = Held[j] /\ j # k
      BY <1>2, <2>2
    <3>2. \A u \in Thread \ {t} : call'[u] = call[u]
      BY <1>1
    <3>3. ~OnShard(call, t, j) /\ ~OnShard(call', t, j)
      BY Zenon, <1>1 DEF OnShard
    <3>4. Visible'[j] = Visible[j]
      BY Zenon, <1>3, <3>1, <3>2, <3>3, VisibleElsewhere
    <3>. QED
      BY <3>1, <3>4
  <2>. QED
    BY <2>1, <2>2
<1>6. Visible' = [Visible EXCEPT ![k] = Absent]
  BY <1>4, <1>5 DEF Contents
<1>7. Visible[k] = Held[k] /\ (Held[k] # Absent <=> map[k] # NoPtr)
  BY <1>1, VisibleUnlocked
<1>8. answer' = (Visible[k] # Absent)
  BY <1>1, <1>7
<1>. QED
  BY <1>6, <1>8 DEF Abstract!AtomicDel, Abstract!Deleted

(* What the store shows of a shard when the put of t on it goes on, in     *)
(* the call x, and when it ends.                                           *)
LEMMA GoesOnUnseen ==
    ASSUME StoreInv, StoreInv', NEW t \in Thread, call[t] # Idle, call'[t] # Idle,
           \A u \in Thread \ {t} : call'[u] = call[u],
           call'[t].key = call[t].key, call'[t].before = call[t].before,
           \A j \in Key : ShardFor[j] # ShardFor[call[t].key] => Held'[j] = Held[j]
    PROVE  Visible' = Visible
<1>1. Exclusive(call) /\ Exclusive(call')
  BY DEF StoreInv, CallInv, Exclusive
<1>2. Visible = Seen(call, Held) /\ Visible' = Seen(call', Held')
  BY Zenon, VisibleIs DEF Visible, Seen, Locked
<1>3. Visible \in Contents /\ Visible' = [j \in Key |-> Visible'[j]]
  BY VisibleType, VisibleFunction
<1>4. ASSUME NEW j \in Key
      PROVE  Visible'[j] = Visible[j]
  <2>1. CASE ShardFor[j] = ShardFor[call[t].key]
    <3>1. OnShard(call, t, j) /\ OnShard(call', t, j)
      BY Zenon, <2>1 DEF OnShard
    <3>2. Seen(call, Held)[j] = call[t].before[j]
      BY Zenon, <1>1, <3>1, SeenLocked
    <3>3. Seen(call', Held')[j] = call'[t].before[j]
      BY Zenon, <1>1, <3>1, SeenLocked
    <3>. QED
      BY Zenon, <1>2, <3>2, <3>3
  <2>2. CASE ShardFor[j] # ShardFor[call[t].key]
    <3>1. ~OnShard(call, t, j) /\ ~OnShard(call', t, j)
      BY Zenon, <2>2 DEF OnShard
    <3>. QED
      BY Zenon, <2>2, <3>1, VisibleElsewhere
  <2>. QED
    BY <2>1, <2>2
<1>. QED
  BY <1>3, <1>4 DEF Contents

(* When a put ends, what it did to its shard is seen at once, and other    *)
(* shards are seen as before.                                              *)
LEMMA EndIsSeen ==
    ASSUME StoreInv, StoreInv', NEW t \in Thread, call[t] # Idle, call'[t] = Idle,
           \A j \in Key : ShardFor[j] # ShardFor[call[t].key] => Held'[j] = Held[j],
           \A u \in Thread \ {t} : call'[u] = call[u],
           NEW j \in Key
    PROVE  IF ShardFor[j] = ShardFor[call[t].key]
           THEN Visible'[j] = Held'[j] /\ Visible[j] = call[t].before[j]
           ELSE Visible'[j] = Visible[j]
<1>1. Exclusive(call)
  BY DEF StoreInv, CallInv
<1>2. Visible = Seen(call, Held) /\ Visible' = Seen(call', Held')
  BY Zenon, VisibleIs DEF Visible, Seen, Locked
<1>4. CASE ShardFor[j] = ShardFor[call[t].key]
  <2>1. OnShard(call, t, j)
    BY Zenon, <1>4 DEF OnShard
  <2>2. Seen(call, Held)[j] = call[t].before[j]
    BY Zenon, <1>1, <2>1, SeenLocked
  <2>3. \A u \in Thread : ~OnShard(call', u, j)
    BY <1>1, <1>4 DEF Exclusive, OnShard
  <2>4. Seen(call', Held')[j] = Held'[j]
    BY Zenon, <2>3, SeenUnlocked
  <2>. QED
    BY Zenon, <1>2, <1>4, <2>2, <2>4
<1>5. CASE ShardFor[j] # ShardFor[call[t].key]
  <2>1. ~OnShard(call, t, j) /\ ~OnShard(call', t, j)
    BY Zenon, <1>5 DEF OnShard
  <2>. QED
    BY Zenon, <1>5, <2>1, VisibleElsewhere
<1>. QED
  BY <1>4, <1>5

(* The start of a put is not seen. *)
LEMMA BeginRefines ==
    ASSUME StoreInv, NEW t \in Thread, NEW k \in Key, NEW v \in Value, PutBegin(t, k, v)
    PROVE  UNCHANGED <<Visible, answer>>
<1>. DEFINE s == ShardFor[k]
            x == [pc |-> "allocate", key |-> k, value |-> v, attempt |-> 0,
                  before |-> Restrict(Held, KeysOf(s))]
<1>1. /\ ~Locked(s) /\ call[t] = Idle /\ call' = [call EXCEPT ![t] = x] /\ answer' = answer
      /\ IF map[k] # NoPtr THEN Drop(k) ELSE UNCHANGED <<nextPage, free, entry, map, clock>>
  BY Zenon DEF PutBegin
<1>2. Held' = [Held EXCEPT ![k] = Absent] /\ Held \in [Key -> Value \cup {Absent}]
  BY Zenon, <1>1, DropStep, HeldType DEF StoreInv
<1>3. StoreInv' /\ call = [u \in Thread |-> call[u]]
  BY BeginInv DEF StoreInv, CallInv
<1>4. x.key = k /\ x # Idle /\ \A j \in Key : ShardFor[j] = s => x.before[j] = Held[j]
  <2>1. x.key = k /\ x.before = Restrict(Held, KeysOf(s)) /\ x.pc = "allocate" /\ Idle.pc = "idle"
    BY DEF Idle
  <2>. HIDE DEF x
  <2>. QED
    BY <2>1 DEF Restrict, KeysOf
<1>. HIDE DEF x
<1>5. call'[t] = x /\ \A u \in Thread \ {t} : call'[u] = call[u]
  BY <1>1, <1>3
<1>6. Exclusive(call')
  BY <1>3 DEF StoreInv, CallInv, Exclusive
<1>7. Visible \in Contents /\ Visible' = [j \in Key |-> Visible'[j]]
  BY VisibleType, VisibleFunction
<1>8. ASSUME NEW j \in Key
      PROVE  Visible'[j] = Visible[j]
  <2>1. CASE ShardFor[j] = s
    <3>1. Visible[j] = Held[j]
      BY Zenon, <1>1, <2>1, VisibleUnlocked
    <3>2. OnShard(call', t, j) /\ call'[t].before[j] = Held[j]
      BY Zenon, <1>4, <1>5, <2>1 DEF OnShard
    <3>3. Seen(call', Held')[j] = call'[t].before[j]
      BY Zenon, <1>6, <3>2, SeenLocked
    <3>4. Visible' = Seen(call', Held')
      BY DEF Visible, Seen, Locked
    <3>. QED
      BY Zenon, <3>1, <3>2, <3>3, <3>4
  <2>2. CASE ShardFor[j] # s
    <3>1. Held'[j] = Held[j]
      BY <1>2, <2>2
    <3>2. ~OnShard(call, t, j) /\ ~OnShard(call', t, j)
      BY Zenon, <1>1, <1>4, <1>5, <2>2 DEF OnShard
    <3>. QED
      BY Zenon, <1>3, <1>5, <3>1, <3>2, VisibleElsewhere
  <2>. QED
    BY Zenon, <2>1, <2>2
<1>. QED
  BY <1>1, <1>7, <1>8 DEF Contents

(* The end of a put that got a slot is an atomic put. *)
LEMMA StoreRefines ==
    ASSUME StoreInv, NEW t \in Thread, PutStore(t)
    PROVE  \E k \in Key, v \in Value : Abstract!AtomicPut(k, v)
<1>. DEFINE k == call[t].key
            v == call[t].value
<1>1. /\ k \in Key /\ v \in Value /\ Held' = [Held EXCEPT ![k] = v]
      /\ call[t] # Idle /\ call' = [call EXCEPT ![t] = Idle] /\ answer' = TRUE
  BY Zenon, StoreStep
<1>2. StoreInv'
  BY StoreEndInv
<1>3. /\ Held \in [Key -> Value \cup {Absent}] /\ call = [u \in Thread |-> call[u]]
      /\ InPut(call[t], map, Held)
  BY <1>1, HeldType DEF StoreInv, CallInv
<1>4. call'[t] = Idle /\ \A u \in Thread \ {t} : call'[u] = call[u]
  BY <1>1, <1>3
<1>5. Held'[k] = v /\ \A j \in Key \ {k} : Held'[j] = Held[j]
  BY <1>1, <1>3
<1>6. \A j \in Key : ShardFor[j] = ShardFor[k] => Held[j] \in {call[t].before[j], Absent}
  BY <1>3 DEF InPut, KeysOf
<1>7. Visible \in Contents /\ Visible' = [j \in Key |-> Visible'[j]]
  BY VisibleType, VisibleFunction
<1>8. ASSUME NEW j \in Key
      PROVE  IF ShardFor[j] = ShardFor[k]
             THEN Visible'[j] = Held'[j] /\ Visible[j] = call[t].before[j]
             ELSE Visible'[j] = Visible[j]
  <2>1. \A i \in Key : ShardFor[i] # ShardFor[k] => Held'[i] = Held[i]
    BY <1>5
  <2>. QED
    BY Zenon, <1>1, <1>2, <1>4, <2>1, EndIsSeen
<1>. HIDE DEF k, v
<1>9. Visible'[k] = v
  BY Zenon, <1>1, <1>5, <1>8
<1>10. \A j \in Key \ {k} : Visible'[j] \in {Visible[j], Absent}
  BY Zenon, <1>5, <1>6, <1>8
<1>11. Visible' \in Contents
  BY <1>1, <1>7, <1>9, <1>10 DEF Contents
<1>. QED
  BY <1>1, <1>9, <1>10, <1>11 DEF Abstract!AtomicPut, Abstract!PutOk, Abstract!Evicted, Abstract!Contents, Contents

(* A failed allocation is not seen. *)
LEMMA NoSlotRefines ==
    ASSUME StoreInv, NEW t \in Thread, PutNoSlot(t)
    PROVE  UNCHANGED <<Visible, answer>>
<1>1. /\ call[t] # Idle /\ call' = [call EXCEPT ![t] = [call[t] EXCEPT !.pc = "evict"]]
      /\ answer' = answer
  BY DEF PutNoSlot
<1>2. StoreInv' /\ Held' = Held
  BY NoSlotInv
<1>3. call = [u \in Thread |-> call[u]] /\ InPut(call[t], map, Held)
  BY <1>1 DEF StoreInv, CallInv
<1>4. /\ call'[t] = [call[t] EXCEPT !.pc = "evict"]
      /\ \A u \in Thread \ {t} : call'[u] = call[u]
  BY <1>1, <1>3
<1>5. call'[t].key = call[t].key /\ call'[t].before = call[t].before /\ call'[t] # Idle
  <2>. DEFINE y == call[t]
  <2>1. y = [pc |-> y.pc, key |-> y.key, value |-> y.value, attempt |-> y.attempt, before |-> y.before]
    BY <1>3 DEF InPut
  <2>2. call'[t] = [y EXCEPT !.pc = "evict"]
    BY <1>4
  <2>. HIDE DEF y
  <2>3. call'[t].key = y.key /\ call'[t].before = y.before /\ call'[t].pc = "evict"
    BY <2>1, <2>2
  <2>4. Idle.pc = "idle"
    BY DEF Idle
  <2>. QED
    BY <2>3, <2>4 DEF y
<1>6. \A j \in Key : ShardFor[j] # ShardFor[call[t].key] => Held'[j] = Held[j]
  BY <1>2
<1>7. Visible' = Visible
  BY <1>1, <1>2, <1>4, <1>5, <1>6, GoesOnUnseen
<1>. QED
  BY <1>1, <1>7

(* An eviction is not seen; the end of a put that failed is an atomic put  *)
(* that failed.                                                            *)
LEMMA EvictRefines ==
    ASSUME StoreInv, NEW t \in Thread, PutEvict(t)
    PROVE  \/ \E k \in Key, v \in Value : Abstract!AtomicPut(k, v)
           \/ UNCHANGED <<Visible, answer>>
<1>. DEFINE k == call[t].key
            y == call[t]
            x == [y EXCEPT !.pc = "allocate", !.attempt = y.attempt + 1]
<1>1. StoreInv' /\ Loses(ShardFor[k]) /\ call[t] # Idle
  BY EvictInv, EvictStep
<1>2. /\ Held \in [Key -> Value \cup {Absent}] /\ call = [u \in Thread |-> call[u]]
      /\ InPut(call[t], map, Held)
  BY <1>1, HeldType DEF StoreInv, CallInv
<1>3. /\ k \in Key /\ call[t].value \in Value /\ map[k] = NoPtr
      /\ \A j \in Key : ShardFor[j] = ShardFor[k] => Held[j] \in {call[t].before[j], Absent}
  BY <1>2 DEF InPut, KeysOf
<1>4. \A j \in Key : ShardFor[j] # ShardFor[k] => Held'[j] = Held[j]
  BY <1>1 DEF Loses
<1>5. \/ call' = [call EXCEPT ![t] = Idle] /\ answer' = FALSE
      \/ call' = [call EXCEPT ![t] = x] /\ answer' = answer
  BY Zenon DEF PutEvict, PutEnd
<1>6. CASE call' = [call EXCEPT ![t] = Idle] /\ answer' = FALSE
  <2>1. call'[t] = Idle /\ \A u \in Thread \ {t} : call'[u] = call[u]
    BY <1>2, <1>6
  <2>2. Visible \in Contents /\ Visible' = [j \in Key |-> Visible'[j]]
    BY VisibleType, VisibleFunction
  <2>3. ASSUME NEW j \in Key
        PROVE  IF ShardFor[j] = ShardFor[k]
               THEN Visible'[j] = Held'[j] /\ Visible[j] = call[t].before[j]
               ELSE Visible'[j] = Visible[j]
    BY Zenon, <1>1, <1>4, <2>1, EndIsSeen
  <2>4. Held[k] = Absent /\ Held'[k] = Absent /\ \A j \in Key : Held'[j] \in {Held[j], Absent}
    <3>1. Held[k] = Absent
      BY <1>3 DEF Held
    <3>. QED
      BY <1>1, <1>3, <3>1 DEF Loses
  <2>. HIDE DEF k
  <2>5. Visible'[k] = Absent
    BY Zenon, <1>3, <2>3, <2>4
  <2>6. \A j \in Key \ {k} : Visible'[j] \in {Visible[j], Absent}
    BY <1>3, <2>3, <2>4
  <2>7. Visible' \in Contents
    BY <1>3, <2>2, <2>5, <2>6 DEF Contents
  <2>8. Abstract!AtomicPut(k, call[t].value)
    BY Zenon, <1>6, <2>5, <2>6, <2>7
       DEF Abstract!AtomicPut, Abstract!PutFailed, Abstract!Evicted, Abstract!Contents, Contents
  <2>. QED
    BY <1>3, <2>8
<1>7. CASE call' = [call EXCEPT ![t] = x] /\ answer' = answer
  <2>1. y = [pc |-> y.pc, key |-> y.key, value |-> y.value, attempt |-> y.attempt, before |-> y.before]
    BY <1>2 DEF InPut
  <2>2. x = [y EXCEPT !.pc = "allocate", !.attempt = y.attempt + 1] /\ Idle.pc = "idle"
    BY DEF Idle
  <2>. HIDE DEF x
  <2>3. call'[t] = x /\ \A u \in Thread \ {t} : call'[u] = call[u]
    BY <1>2, <1>7
  <2>. HIDE DEF y
  <2>4. x.key = y.key /\ x.before = y.before /\ x.pc = "allocate"
    BY <2>1, <2>2
  <2>5. call'[t].key = call[t].key /\ call'[t].before = call[t].before /\ call'[t] # Idle
    BY Zenon, <2>2, <2>3, <2>4 DEF y
  <2>6. Visible' = Visible
    BY Zenon, <1>1, <1>4, <2>3, <2>5, GoesOnUnseen
  <2>. QED
    BY <1>7, <2>6
<1>. QED
  BY Zenon, <1>5, <1>6, <1>7

(* With any number of threads and shards, whatever is evicted, every get,  *)
(* put and del takes effect at one instant: the store implements           *)
(* AtomicCache (local_store.cpp 15-79).                                    *)
THEOREM StoreIsAtomic == Spec => ImplementsCache
<1>1. Init => Abstract!AtomicInit
  <2>. SUFFICES ASSUME Init  PROVE Visible = EmptyCache /\ answer = Absent
    BY DEF Abstract!AtomicInit, Abstract!EmptyCache, EmptyCache
  <2>1. Held = EmptyCache /\ answer = Absent /\ \A t \in Thread : call[t] = Idle
    BY DEF Init, Held, EmptyCache
  <2>2. \A s : ~Locked(s)
    BY <2>1 DEF Locked
  <2>. QED
    BY Zenon, <2>1, <2>2 DEF Visible, Held, EmptyCache
<1>2. StoreInv /\ [Next]_vars => [Abstract!AtomicNext]_<<Visible, answer>>
  <2>. SUFFICES ASSUME StoreInv, [Next]_vars
                PROVE  Abstract!AtomicNext \/ UNCHANGED <<Visible, answer>>
    OBVIOUS
  <2>1. CASE UNCHANGED vars
    BY <2>1 DEF vars, Visible, Locked, Held
  <2>2. ASSUME NEW t \in Thread, NEW k \in Key, Get(t, k) \/ Del(t, k)
        PROVE  Abstract!AtomicNext
    <3>1. Abstract!AtomicGet(k) \/ Abstract!AtomicDel(k)
      BY <2>2, GetRefines, DelRefines
    <3>. QED
      BY <3>1 DEF Abstract!AtomicNext
  <2>3. ASSUME NEW t \in Thread, NEW k \in Key, NEW v \in Value, PutBegin(t, k, v)
        PROVE  UNCHANGED <<Visible, answer>>
    BY <2>3, BeginRefines
  <2>4. ASSUME NEW t \in Thread, PutStore(t) \/ PutNoSlot(t) \/ PutEvict(t)
        PROVE  \/ \E k \in Key, v \in Value : Abstract!AtomicPut(k, v)
               \/ UNCHANGED <<Visible, answer>>
    BY <2>4, StoreRefines, NoSlotRefines, EvictRefines
  <2>5. (\E k \in Key, v \in Value : Abstract!AtomicPut(k, v)) => Abstract!AtomicNext
    BY DEF Abstract!AtomicNext
  <2>. QED
    BY <2>1, <2>2, <2>3, <2>4, <2>5 DEF Next
<1>. QED
  BY <1>1, <1>2, StoreAlways, PTL DEF Spec, ImplementsCache, Abstract!AtomicSpec
=============================================================================
