------------------------ MODULE BoundedDequeProofs ------------------------
(***************************************************************************)
(* Lemmas about the operators of BoundedDeque, for items of any set S and  *)
(* any capacity: the ring of slots and cursors is a sequence.  Element i   *)
(* of it is in the slot i places to the right of front_pos, and back_pos   *)
(* is one place to the right of the last one.                              *)
(***************************************************************************)
EXTENDS BoundedDeque, SequenceTheorems, TLAPS

Contained(S) == S \union {NoItem}

\* The values that the representation of an object may have.
RingsOf(S) ==
  {d \in [container : Seq(Contained(S)), front_pos : Nat, back_pos : Nat, count : Nat] :
     /\ d.front_pos < Len(d.container)
     /\ d.back_pos < Len(d.container)
     /\ d.count <= Len(d.container)}

\* The slot i places to the right of slot f in a ring of n slots.
Place(f, n, i) == (f + i) % n

\* The next slot to the right of slot p, and to the left.
RightOf(n, p) == (p + 1) % n
LeftOf(n, p)  == (p + n - 1) % n

\* And if the object has not been moved from.
Filled(S, d) ==
  /\ d.back_pos = Place(d.front_pos, CapacityOf(d), d.count + 1)
  /\ \A i \in 1..d.count : Slot(d, Place(d.front_pos, CapacityOf(d), i)) \in S

-----------------------------------------------------------------------------
(* Arithmetic of the ring.                                                 *)

LEMMA Wrap ==
  ASSUME NEW n \in Nat \ {0}, NEW x \in 0..(2 * n)
  PROVE  x % n = IF x < n THEN x ELSE IF x < 2 * n THEN x - n ELSE 0
<1>1. CASE x < n
  BY <1>1
<1>2. CASE n <= x /\ x < 2 * n
  BY <1>2
<1>3. CASE x = 2 * n
  BY <1>3
<1> QED BY <1>1, <1>2, <1>3

LEMMA PlaceIs ==
  ASSUME NEW n \in Nat \ {0}, NEW f \in 0..n-1, NEW i \in 0..n+1
  PROVE  Place(f, n, i) = IF f + i < n THEN f + i
                          ELSE IF f + i < 2 * n THEN f + i - n ELSE 0
<1> DEFINE M(x) == x % n
<1>1. \A x \in 0..(2 * n) : M(x) = IF x < n THEN x ELSE IF x < 2 * n THEN x - n ELSE 0
  BY Wrap
<1>2. f + i \in 0..(2 * n)
  OBVIOUS
<1>3. Place(f, n, i) = M(f + i)
  BY DEF Place
<1> HIDE DEF M
<1> QED BY <1>1, <1>2, <1>3

LEMMA RightIs ==
  ASSUME NEW n \in Nat \ {0}, NEW p \in 0..n-1
  PROVE  RightOf(n, p) = IF p = n - 1 THEN 0 ELSE p + 1
<1> DEFINE M(x) == x % n
<1>1. \A x \in 0..(2 * n) : M(x) = IF x < n THEN x ELSE IF x < 2 * n THEN x - n ELSE 0
  BY Wrap
<1> HIDE DEF M
<1>2. M(p + 1) = IF p = n - 1 THEN 0 ELSE p + 1
  BY <1>1
<1> QED BY <1>2 DEF M, RightOf

LEMMA LeftIs ==
  ASSUME NEW n \in Nat \ {0}, NEW p \in 0..n-1
  PROVE  LeftOf(n, p) = IF p = 0 THEN n - 1 ELSE p - 1
<1> DEFINE M(x) == x % n
<1>1. \A x \in 0..(2 * n) : M(x) = IF x < n THEN x ELSE IF x < 2 * n THEN x - n ELSE 0
  BY Wrap
<1> HIDE DEF M
<1>2. M(p + n - 1) = IF p = 0 THEN n - 1 ELSE p - 1
  BY <1>1
<1> QED BY <1>2 DEF M, LeftOf

\* One place on from place i is place i + 1, and back again; moving the
\* origin moves every place.
LEMMA PlaceSteps ==
  ASSUME NEW n \in Nat \ {0}, NEW f \in 0..n-1, NEW i \in 0..n
  PROVE  /\ Place(f, n, i) \in 0..n-1
         /\ RightOf(n, Place(f, n, i)) = Place(f, n, i + 1)
         /\ LeftOf(n, Place(f, n, i + 1)) = Place(f, n, i)
         /\ Place(RightOf(n, f), n, i) = Place(f, n, i + 1)
         /\ Place(LeftOf(n, f), n, i + 1) = Place(f, n, i)
<1>1. \A p \in 0..n-1 : RightOf(n, p) = IF p = n - 1 THEN 0 ELSE p + 1
  BY RightIs
<1>2. \A p \in 0..n-1 : LeftOf(n, p) = IF p = 0 THEN n - 1 ELSE p - 1
  BY LeftIs
<1>3. \A g \in 0..n-1, j \in 0..n+1 :
        Place(g, n, j) = IF g + j < n THEN g + j ELSE IF g + j < 2 * n THEN g + j - n ELSE 0
  BY PlaceIs
<1>4. i \in 0..n+1 /\ i + 1 \in 0..n+1
  OBVIOUS
<1>5. RightOf(n, f) \in 0..n-1 /\ LeftOf(n, f) \in 0..n-1
  BY <1>1, <1>2
<1>6. /\ Place(f, n, i) = IF f + i < n THEN f + i ELSE f + i - n
      /\ Place(f, n, i + 1) = IF f + i + 1 < n THEN f + i + 1
                              ELSE IF f + i + 1 < 2 * n THEN f + i + 1 - n ELSE 0
  BY <1>3, <1>4
<1>7. Place(f, n, i) \in 0..n-1 /\ Place(f, n, i + 1) \in 0..n-1
  BY <1>6
<1>8. /\ RightOf(n, Place(f, n, i)) = Place(f, n, i + 1)
      /\ LeftOf(n, Place(f, n, i + 1)) = Place(f, n, i)
  BY <1>1, <1>2, <1>6, <1>7
<1>9. Place(RightOf(n, f), n, i) = Place(f, n, i + 1)
  <2>1. CASE f = n - 1
    <3>1. RightOf(n, f) = 0 /\ Place(0, n, i) = IF i < n THEN i ELSE 0
      BY <2>1, <1>1, <1>3, <1>4, <1>5
    <3> QED BY <2>1, <3>1, <1>6
  <2>2. CASE f < n - 1
    <3>1. RightOf(n, f) = f + 1
      BY <2>2, <1>1
    <3>2. Place(f + 1, n, i) = IF f + 1 + i < n THEN f + 1 + i
                               ELSE IF f + 1 + i < 2 * n THEN f + 1 + i - n ELSE 0
      BY <3>1, <1>3, <1>4, <1>5
    <3> QED BY <3>1, <3>2, <1>6
  <2> QED BY <2>1, <2>2
<1>10. Place(LeftOf(n, f), n, i + 1) = Place(f, n, i)
  <2>1. CASE f = 0
    <3>1. LeftOf(n, f) = n - 1 /\ Place(n - 1, n, i + 1) = IF i < n THEN i ELSE 0
      BY <2>1, <1>2, <1>3, <1>4, <1>5
    <3> QED BY <2>1, <3>1, <1>6
  <2>2. CASE f > 0
    <3>1. LeftOf(n, f) = f - 1
      BY <2>2, <1>2
    <3>2. Place(f - 1, n, i + 1) = IF f + i < n THEN f + i ELSE f + i - n
      BY <3>1, <1>3, <1>4, <1>5
    <3> QED BY <3>1, <3>2, <1>6
  <2> QED BY <2>1, <2>2
<1> QED BY <1>7, <1>8, <1>9, <1>10

\* Different elements are in different slots.
LEMMA PlacesDiffer ==
  ASSUME NEW n \in Nat \ {0}, NEW f \in 0..n-1, NEW i \in 0..n, NEW j \in 0..n, i < j, j - i < n
  PROVE  Place(f, n, i) # Place(f, n, j)
<1>1. /\ Place(f, n, i) = IF f + i < n THEN f + i ELSE f + i - n
      /\ Place(f, n, j) = IF f + j < n THEN f + j ELSE f + j - n
  BY PlaceIs
<1> QED BY <1>1

\* The same for all elements of a ring of n slots whose front is f.
RingLaws(n, f) ==
  /\ RightOf(n, f) \in 0..n-1 /\ LeftOf(n, f) \in 0..n-1 /\ Place(f, n, 0) = f
  /\ \A i \in 0..n : Place(f, n, i) \in 0..n-1
  /\ \A i \in 0..n : RightOf(n, Place(f, n, i)) = Place(f, n, i + 1)
  /\ \A i \in 0..n : LeftOf(n, Place(f, n, i + 1)) = Place(f, n, i)
  /\ \A i \in 0..n : Place(RightOf(n, f), n, i) = Place(f, n, i + 1)
  /\ \A i \in 0..n : Place(LeftOf(n, f), n, i + 1) = Place(f, n, i)
  /\ \A i, j \in 0..n : i < j /\ j - i < n => Place(f, n, i) # Place(f, n, j)

LEMMA RingPlaces ==
  ASSUME NEW n \in Nat \ {0}, NEW f \in 0..n-1
  PROVE  RingLaws(n, f)
<1>1. RightOf(n, f) \in 0..n-1 /\ LeftOf(n, f) \in 0..n-1
  BY RightIs, LeftIs
<1>2. Place(f, n, 0) = f
  <2>1. 0 \in 0..n+1
    OBVIOUS
  <2> QED BY <2>1, PlaceIs
<1>3. ASSUME NEW i \in 0..n
      PROVE  /\ Place(f, n, i) \in 0..n-1
             /\ RightOf(n, Place(f, n, i)) = Place(f, n, i + 1)
             /\ LeftOf(n, Place(f, n, i + 1)) = Place(f, n, i)
             /\ Place(RightOf(n, f), n, i) = Place(f, n, i + 1)
             /\ Place(LeftOf(n, f), n, i + 1) = Place(f, n, i)
  BY PlaceSteps
<1>4. ASSUME NEW i \in 0..n, NEW j \in 0..n, i < j, j - i < n
      PROVE  Place(f, n, i) # Place(f, n, j)
  BY <1>4, PlacesDiffer
<1> QED BY <1>1, <1>2, <1>3, <1>4 DEF RingLaws

\* What a ring is made of.
LEMMA RingType ==
  ASSUME NEW S, NEW d \in RingsOf(S)
  PROVE  /\ CapacityOf(d) \in Nat \ {0}
         /\ d.container \in Seq(Contained(S)) /\ Len(d.container) = CapacityOf(d)
         /\ d.front_pos \in 0..CapacityOf(d)-1 /\ d.back_pos \in 0..CapacityOf(d)-1
         /\ d.count \in 0..CapacityOf(d)
  BY DEF RingsOf, CapacityOf

\* The elements are the slots in their order.
LEMMA ContentsType ==
  ASSUME NEW S, NEW d \in RingsOf(S), Filled(S, d)
  PROVE  /\ Contents(d) \in Seq(S) /\ Len(Contents(d)) = d.count
         /\ \A i \in 1..d.count :
              Contents(d)[i] = Slot(d, Place(d.front_pos, CapacityOf(d), i))
<1>1. d.count \in Nat
  BY RingType
<1>2. Contents(d) \in [1..d.count -> S]
  BY DEF Contents, Filled, Place
<1>3. Contents(d) \in Seq(S)
  BY <1>1, <1>2, SeqDef
<1> QED BY <1>1, <1>3 DEF Contents, Place
-----------------------------------------------------------------------------
(* The operations on one deque.                                            *)

\* Filling slot p changes that slot only.
LEMMA Filling ==
  ASSUME NEW S, NEW d \in RingsOf(S), NEW p \in 0..CapacityOf(d)-1, NEW item \in S,
         NEW e, e.container = [d.container EXCEPT ![p + 1] = item]
  PROVE  /\ e.container \in Seq(Contained(S)) /\ CapacityOf(e) = CapacityOf(d)
         /\ \A q \in 0..CapacityOf(d)-1 : Slot(e, q) = IF q = p THEN item ELSE Slot(d, q)
<1> DEFINE s == d.container
           t == [s EXCEPT ![p + 1] = item]
<1>1. s \in Seq(Contained(S)) /\ Len(s) = CapacityOf(d) /\ CapacityOf(d) \in Nat \ {0}
  BY RingType
<1>2. p + 1 \in 1..Len(s) /\ item \in Contained(S)
  BY <1>1 DEF Contained
<1>3. t \in Seq(Contained(S)) /\ Len(t) = Len(s)
  BY <1>1, <1>2, ExceptSeq
<1>4. \A q \in 0..Len(s)-1 : q + 1 \in 1..Len(s) /\ (q + 1 = p + 1 <=> q = p)
  BY <1>1
<1>5. \A j \in 1..Len(s) : t[j] = IF j = p + 1 THEN item ELSE s[j]
  BY <1>1, <1>2, ExceptSeq
<1>6. e.container = t
  OBVIOUS
<1> HIDE DEF t
<1> QED BY <1>1, <1>3, <1>4, <1>5, <1>6 DEF Slot, CapacityOf

LEMMA PushBackRing ==
  ASSUME NEW S, NEW d \in RingsOf(S), Filled(S, d), d.count < CapacityOf(d), NEW item \in S
  PROVE  /\ PushBack(d, item) \in RingsOf(S) /\ Filled(S, PushBack(d, item))
         /\ CapacityOf(PushBack(d, item)) = CapacityOf(d)
         /\ Contents(PushBack(d, item)) = Append(Contents(d), item)
<1> DEFINE e == PushBack(d, item)
           n == CapacityOf(d)
           f == d.front_pos
           c == d.count
<1>1. /\ n \in Nat \ {0} /\ f \in 0..n-1 /\ c \in 0..n-1 /\ d.back_pos \in 0..n-1
  BY RingType
<1>0. RingLaws(n, f)
  BY <1>1, RingPlaces
<1>2. e \in [container : {[d.container EXCEPT ![d.back_pos + 1] = item]},
             front_pos : {f}, back_pos : {RightOf(n, d.back_pos)}, count : {c + 1}]
  BY DEF PushBack, Right, RightOf, RingsOf
<1> HIDE DEF e
<1>3. /\ e.container \in Seq(Contained(S)) /\ CapacityOf(e) = n
      /\ \A q \in 0..n-1 : Slot(e, q) = IF q = d.back_pos THEN item ELSE Slot(d, q)
  BY <1>1, <1>2, Filling
<1>5. d.back_pos = Place(f, n, c + 1)
  BY DEF Filled
<1>6. \A i \in 1..(c + 1) : Place(f, n, i) \in 0..n-1
  <2> HIDE DEF f, n, c
  <2>1. \A i \in 0..n : Place(f, n, i) \in 0..n-1
    BY <1>0 DEF RingLaws
  <2>2. 1..(c + 1) \subseteq 0..n
    BY <1>1
  <2> QED BY <2>1, <2>2
<1>7. RightOf(n, d.back_pos) = Place(f, n, c + 1 + 1) /\ RightOf(n, d.back_pos) \in 0..n-1
  <2>1. c + 1 \in 0..n
    BY <1>1
  <2>2. Place(f, n, c + 1) \in 0..n-1 /\ RightOf(n, Place(f, n, c + 1)) = Place(f, n, c + 1 + 1)
    <3> HIDE DEF f, n, c
    <3>1. /\ \A i \in 0..n : Place(f, n, i) \in 0..n-1
          /\ \A i \in 0..n : RightOf(n, Place(f, n, i)) = Place(f, n, i + 1)
      BY <1>0 DEF RingLaws
    <3> QED BY <2>1, <3>1
  <2>3. RightOf(n, d.back_pos) \in 0..n-1
    BY <1>1, RightIs
  <2> QED BY <2>2, <2>3, <1>5
<1>8. \A i \in 1..(c + 1) :
        Slot(e, Place(f, n, i)) = IF i = c + 1 THEN item ELSE Slot(d, Place(f, n, i))
  <2>1. \A i \in 1..c : Place(f, n, i) # Place(f, n, c + 1)
    BY <1>1, PlacesDiffer
  <2> QED BY <2>1, <1>1, <1>3, <1>5, <1>6
<1>9. e \in RingsOf(S)
  BY <1>1, <1>2, <1>3, <1>7 DEF RingsOf, CapacityOf
<1>10. Filled(S, e)
  <2>1. \A i \in 1..c : Slot(d, Place(f, n, i)) \in S
    BY DEF Filled
  <2>2. \A i \in 1..(c + 1) : i = c + 1 \/ i \in 1..c
    BY <1>1
  <2>3. \A i \in 1..(c + 1) : Slot(e, Place(f, n, i)) \in S
    BY <2>1, <2>2, <1>8
  <2> QED BY <2>3, <1>2, <1>3, <1>7 DEF Filled
<1>11. Contents(e) = Append(Contents(d), item)
  <2>1. /\ Contents(e) \in Seq(S) /\ Len(Contents(e)) = c + 1
        /\ \A i \in 1..(c + 1) : Contents(e)[i] = Slot(e, Place(f, n, i))
    BY <1>2, <1>3, <1>9, <1>10, ContentsType
  <2>2. /\ Contents(d) \in Seq(S) /\ Len(Contents(d)) = c
        /\ \A i \in 1..c : Contents(d)[i] = Slot(d, Place(f, n, i))
    BY ContentsType
  <2>3. /\ Append(Contents(d), item) \in Seq(S) /\ Len(Append(Contents(d), item)) = c + 1
        /\ \A i \in 1..(c + 1) : Append(Contents(d), item)[i] = IF i = c + 1 THEN item ELSE Contents(d)[i]
    BY <2>2, <1>1, AppendProperties
  <2>4. \A i \in 1..(c + 1) : Contents(e)[i] = Append(Contents(d), item)[i]
    BY <2>1, <2>2, <2>3, <1>1, <1>8
  <2> QED BY <2>1, <2>3, <2>4, SeqEqual
<1> QED BY <1>3, <1>9, <1>10, <1>11 DEF e

LEMMA PushFrontRing ==
  ASSUME NEW S, NEW d \in RingsOf(S), Filled(S, d), d.count < CapacityOf(d), NEW item \in S
  PROVE  /\ PushFront(d, item) \in RingsOf(S) /\ Filled(S, PushFront(d, item))
         /\ CapacityOf(PushFront(d, item)) = CapacityOf(d)
         /\ Contents(PushFront(d, item)) = <<item>> \o Contents(d)
<1> DEFINE e == PushFront(d, item)
           n == CapacityOf(d)
           f == d.front_pos
           g == LeftOf(n, f)
           c == d.count
<1>1. /\ n \in Nat \ {0} /\ f \in 0..n-1 /\ c \in 0..n-1 /\ d.back_pos \in 0..n-1
  BY RingType
<1>0. RingLaws(n, f)
  BY <1>1, RingPlaces
<1>2. e \in [container : {[d.container EXCEPT ![f + 1] = item]},
             front_pos : {g}, back_pos : {d.back_pos}, count : {c + 1}]
  BY DEF PushFront, Left, LeftOf, RingsOf
<1> HIDE DEF e
<1>3. /\ e.container \in Seq(Contained(S)) /\ CapacityOf(e) = n
      /\ \A q \in 0..n-1 : Slot(e, q) = IF q = f THEN item ELSE Slot(d, q)
  BY <1>1, <1>2, Filling
<1>4. g \in 0..n-1 /\ \A i \in 0..n : Place(g, n, i + 1) = Place(f, n, i)
  <2> HIDE DEF f, n
  <2> QED BY <1>0 DEF RingLaws
<1> HIDE DEF g
<1>5. /\ c + 1 \in 0..n
      /\ \A i \in 1..(c + 1) : i = 1 \/ (i - 1 \in 1..c /\ i = i - 1 + 1)
  BY <1>1
<1>6. d.back_pos = Place(g, n, c + 1 + 1)
  BY <1>4, <1>5 DEF Filled
<1>7. Place(f, n, 0) = f
  <2> HIDE DEF f, n
  <2> QED BY <1>0 DEF RingLaws
<1>8. /\ Slot(e, Place(g, n, 1)) = item
      /\ \A i \in 1..c : Slot(e, Place(g, n, i + 1)) = Slot(d, Place(f, n, i))
  <2>1. \A i \in 1..c : Place(f, n, i) # Place(f, n, 0) /\ Place(f, n, i) \in 0..n-1
    <3> HIDE DEF f, n, c
    <3>1. /\ \A i \in 0..n : Place(f, n, i) \in 0..n-1
          /\ \A i, j \in 0..n : i < j /\ j - i < n => Place(f, n, i) # Place(f, n, j)
      BY <1>0 DEF RingLaws
    <3>2. \A i \in 1..c : i \in 0..n /\ 0 \in 0..n /\ 0 < i /\ i - 0 < n
      BY <1>1
    <3> QED BY <3>1, <3>2
  <2>2. Place(g, n, 1) = f
    <3>1. Place(g, n, 0 + 1) = f
      BY <1>1, <1>4, <1>7
    <3> QED BY <3>1
  <2>3. \A i \in 1..c : Place(g, n, i + 1) = Place(f, n, i)
    BY <1>1, <1>4
  <2> QED BY <2>1, <2>2, <2>3, <1>1, <1>3, <1>7
<1>9. e \in RingsOf(S)
  BY <1>1, <1>2, <1>3, <1>4 DEF RingsOf, CapacityOf
<1>10. Filled(S, e)
  <2>1. \A i \in 1..c : Slot(d, Place(f, n, i)) \in S
    BY DEF Filled
  <2>2. \A i \in 1..(c + 1) : Slot(e, Place(g, n, i)) \in S
    BY <2>1, <1>5, <1>8
  <2> QED BY <2>2, <1>2, <1>3, <1>6 DEF Filled
<1>11. Contents(e) = <<item>> \o Contents(d)
  <2>1. /\ Contents(e) \in Seq(S) /\ Len(Contents(e)) = c + 1
        /\ \A i \in 1..(c + 1) : Contents(e)[i] = Slot(e, Place(g, n, i))
    BY <1>2, <1>3, <1>9, <1>10, ContentsType
  <2>2. /\ Contents(d) \in Seq(S) /\ Len(Contents(d)) = c
        /\ \A i \in 1..c : Contents(d)[i] = Slot(d, Place(f, n, i))
    BY ContentsType
  <2>3. /\ <<item>> \o Contents(d) \in Seq(S) /\ Len(<<item>> \o Contents(d)) = c + 1
        /\ \A i \in 1..(c + 1) : (<<item>> \o Contents(d))[i] = IF i = 1 THEN item ELSE Contents(d)[i - 1]
    BY <2>2, <1>1, ConcatProperties
  <2>4. \A i \in 1..(c + 1) : Contents(e)[i] = (<<item>> \o Contents(d))[i]
    <3> SUFFICES ASSUME NEW i \in 1..(c + 1)
                 PROVE  Contents(e)[i] = (<<item>> \o Contents(d))[i]
      OBVIOUS
    <3>1. CASE i = 1
      BY <3>1, <2>1, <2>3, <1>8
    <3>2. CASE i - 1 \in 1..c /\ i = i - 1 + 1
      BY <3>2, <2>1, <2>2, <2>3, <1>8
    <3> QED BY <3>1, <3>2, <1>5
  <2> QED BY <2>1, <2>3, <2>4, SeqEqual
<1> QED BY <1>3, <1>9, <1>10, <1>11 DEF e

LEMMA PopFrontRing ==
  ASSUME NEW S, NEW d \in RingsOf(S), Filled(S, d), ~IsEmpty(d)
  PROVE  /\ PopFront(d) \in RingsOf(S) /\ Filled(S, PopFront(d))
         /\ CapacityOf(PopFront(d)) = CapacityOf(d)
         /\ Contents(PopFront(d)) = Tail(Contents(d))
<1> DEFINE e == PopFront(d)
           n == CapacityOf(d)
           f == d.front_pos
           g == RightOf(n, f)
           c == d.count
<1>1. /\ n \in Nat \ {0} /\ f \in 0..n-1 /\ c \in 1..n
      /\ c - 1 + 1 = c
  BY RingType DEF IsEmpty
<1>2. e \in [container : {d.container}, front_pos : {g}, back_pos : {d.back_pos}, count : {c - 1}]
  BY DEF PopFront, Right, RightOf, RingsOf
<1> HIDE DEF e
<1>3. CapacityOf(e) = n /\ \A q : Slot(e, q) = Slot(d, q)
  BY <1>2 DEF CapacityOf, Slot
<1>4. RingLaws(n, f)
  BY <1>1, RingPlaces
<1>5. g \in 0..n-1 /\ \A i \in 0..n : Place(g, n, i) = Place(f, n, i + 1)
  <2> HIDE DEF f, n
  <2> QED BY <1>4 DEF RingLaws
<1> HIDE DEF g
<1>6. e \in RingsOf(S)
  BY <1>1, <1>2, <1>5 DEF RingsOf, CapacityOf
<1>7. Filled(S, e)
  <2>1. d.back_pos = Place(f, n, c + 1) /\ \A i \in 1..c : Slot(d, Place(f, n, i)) \in S
    BY DEF Filled
  <2>2. c \in 0..n /\ \A i \in 1..(c - 1) : i \in 0..n /\ i + 1 \in 1..c
    BY <1>1
  <2>3. e.back_pos = Place(g, n, e.count + 1)
    BY <2>1, <2>2, <1>1, <1>2, <1>5
  <2>4. \A i \in 1..(c - 1) : Slot(e, Place(g, n, i)) \in S
    BY <2>1, <2>2, <1>3, <1>5
  <2> QED BY <2>3, <2>4, <1>2, <1>3 DEF Filled
<1>8. Contents(e) = Tail(Contents(d))
  <2>1. /\ Contents(e) \in Seq(S) /\ Len(Contents(e)) = c - 1
        /\ \A i \in 1..(c - 1) : Contents(e)[i] = Slot(d, Place(g, n, i))
    BY <1>2, <1>3, <1>6, <1>7, ContentsType
  <2>2. /\ Contents(d) \in Seq(S) /\ Len(Contents(d)) = c /\ Contents(d) # <<>>
        /\ \A i \in 1..c : Contents(d)[i] = Slot(d, Place(f, n, i))
    BY <1>1, ContentsType
  <2>3. /\ Tail(Contents(d)) \in Seq(S) /\ Len(Tail(Contents(d))) = c - 1
        /\ \A i \in 1..(c - 1) : Tail(Contents(d))[i] = Contents(d)[i + 1]
    BY <2>2, <1>1, HeadTailProperties
  <2>4. \A i \in 1..(c - 1) : i \in 0..n /\ i + 1 \in 1..c
    BY <1>1
  <2>5. \A i \in 1..(c - 1) : Contents(e)[i] = Tail(Contents(d))[i]
    BY <2>1, <2>2, <2>3, <2>4, <1>5
  <2> QED BY <2>1, <2>3, <2>5, SeqEqual
<1> QED BY <1>3, <1>6, <1>7, <1>8 DEF e

LEMMA PopBackRing ==
  ASSUME NEW S, NEW d \in RingsOf(S), Filled(S, d), ~IsEmpty(d)
  PROVE  /\ PopBack(d) \in RingsOf(S) /\ Filled(S, PopBack(d))
         /\ CapacityOf(PopBack(d)) = CapacityOf(d)
         /\ Contents(PopBack(d)) = SubSeq(Contents(d), 1, Len(Contents(d)) - 1)
<1> DEFINE e == PopBack(d)
           n == CapacityOf(d)
           f == d.front_pos
           c == d.count
<1>1. /\ n \in Nat \ {0} /\ f \in 0..n-1 /\ c \in 1..n
      /\ d.back_pos \in 0..n-1 /\ c - 1 + 1 = c
  BY RingType DEF IsEmpty
<1>2. e \in [container : {d.container}, front_pos : {f},
             back_pos : {LeftOf(n, d.back_pos)}, count : {c - 1}]
  BY DEF PopBack, Left, LeftOf, RingsOf
<1> HIDE DEF e
<1>3. CapacityOf(e) = n /\ \A q : Slot(e, q) = Slot(d, q)
  BY <1>2 DEF CapacityOf, Slot
<1>4. d.back_pos = Place(f, n, c + 1) /\ \A i \in 1..c : Slot(d, Place(f, n, i)) \in S
  BY DEF Filled
<1>5. LeftOf(n, d.back_pos) = Place(f, n, c) /\ LeftOf(n, d.back_pos) \in 0..n-1
  <2>1. RingLaws(n, f) /\ c \in 0..n
    BY <1>1, RingPlaces
  <2>2. LeftOf(n, Place(f, n, c + 1)) = Place(f, n, c)
    <3> HIDE DEF f, n, c
    <3>1. \A i \in 0..n : LeftOf(n, Place(f, n, i + 1)) = Place(f, n, i)
      BY <2>1 DEF RingLaws
    <3> QED BY <2>1, <3>1
  <2>3. LeftOf(n, d.back_pos) \in 0..n-1
    BY <1>1, LeftIs
  <2> QED BY <2>2, <2>3, <1>4
<1>6. e \in RingsOf(S)
  BY <1>1, <1>2, <1>5 DEF RingsOf, CapacityOf
<1>7. Filled(S, e)
  BY <1>1, <1>2, <1>3, <1>4, <1>5 DEF Filled
<1>8. Contents(e) = SubSeq(Contents(d), 1, c - 1)
  <2>1. /\ Contents(e) \in Seq(S) /\ Len(Contents(e)) = c - 1
        /\ \A i \in 1..(c - 1) : Contents(e)[i] = Slot(d, Place(f, n, i))
    BY <1>2, <1>3, <1>6, <1>7, ContentsType
  <2>2. /\ Contents(d) \in Seq(S)
        /\ \A i \in 1..c : Contents(d)[i] = Slot(d, Place(f, n, i)) /\ Contents(d)[i] \in S
    BY <1>4, ContentsType
  <2>3. /\ SubSeq(Contents(d), 1, c - 1) \in Seq(S)
        /\ Len(SubSeq(Contents(d), 1, c - 1)) = c - 1
        /\ \A i \in 1..(c - 1) : SubSeq(Contents(d), 1, c - 1)[i] = Contents(d)[i]
    <3>1. c - 1 \in Nat /\ \A i \in 1..(c - 1) : Contents(d)[i] \in S
      BY <2>2, <1>1
    <3> HIDE DEF c
    <3> QED BY <3>1, SubSeqProperties
  <2>4. \A i \in 1..(c - 1) : Contents(e)[i] = SubSeq(Contents(d), 1, c - 1)[i]
    BY <2>1, <2>2, <2>3, <1>1
  <2> QED BY <2>1, <2>3, <2>4, SeqEqual
<1>9. Len(Contents(d)) = c
  BY ContentsType
<1> QED BY <1>3, <1>6, <1>7, <1>8, <1>9 DEF e

(* An element that is moved out of its slot and popped: emptying the slot  *)
(* changes nothing that is still contained.                                *)
LEMMA TakenRing ==
  ASSUME NEW S, NEW d \in RingsOf(S), Filled(S, d), ~IsEmpty(d)
  PROVE  LET e == PopFront([d EXCEPT !.container[Right(d, d.front_pos) + 1] = NoItem])
         IN  /\ e \in RingsOf(S) /\ Filled(S, e) /\ CapacityOf(e) = CapacityOf(d)
             /\ Contents(e) = Tail(Contents(d))
<1> DEFINE n == CapacityOf(d)
           f == d.front_pos
           c == d.count
           g == RightOf(n, f)
           m == [d EXCEPT !.container[Right(d, d.front_pos) + 1] = NoItem]
           e == PopFront(m)
<1>1. /\ n \in Nat \ {0} /\ f \in 0..n-1 /\ c \in 1..n /\ c - 1 + 1 = c
      /\ d.container \in Seq(Contained(S)) /\ Len(d.container) = n
      /\ d.back_pos \in 0..n-1
  BY RingType DEF IsEmpty
<1>2. RingLaws(n, f)
  BY <1>1, RingPlaces
<1>3. /\ g \in 0..n-1
      /\ \A i \in 0..n : Place(g, n, i) = Place(f, n, i + 1)
      /\ \A i \in 0..n : Place(f, n, i) \in 0..n-1
      /\ \A i, j \in 0..n : i < j /\ j - i < n => Place(f, n, i) # Place(f, n, j)
  BY <1>2 DEF RingLaws
<1>4. g = Place(f, n, 1)
  BY DEF RightOf, Place
<1>5. Right(d, f) = g
  BY DEF Right, RightOf
<1> HIDE DEF g
<1>6. m \in [container : {[d.container EXCEPT ![g + 1] = NoItem]},
             front_pos : {f}, back_pos : {d.back_pos}, count : {c}]
  BY <1>5 DEF RingsOf
<1> HIDE DEF m
<1>7. /\ m.container \in Seq(Contained(S)) /\ CapacityOf(m) = n
      /\ \A q \in 0..n-1 : q # g => Slot(m, q) = Slot(d, q)
  <2>1. g + 1 \in 1..Len(d.container) /\ NoItem \in Contained(S)
    BY <1>1, <1>3 DEF Contained
  <2> DEFINE t == [d.container EXCEPT ![g + 1] = NoItem]
  <2>2. /\ t \in Seq(Contained(S)) /\ Len(t) = n
        /\ \A j \in 1..n : t[j] = IF j = g + 1 THEN NoItem ELSE d.container[j]
    BY <2>1, <1>1, ExceptSeq
  <2>3. \A q \in 0..n-1 : q + 1 \in 1..n /\ (q + 1 = g + 1 <=> q = g)
    BY <1>1, <1>3
  <2>4. m.container = t
    BY <1>6
  <2> HIDE DEF t
  <2> QED BY <2>2, <2>3, <2>4 DEF Slot, CapacityOf
<1>8. e \in [container : {m.container}, front_pos : {g}, back_pos : {d.back_pos}, count : {c - 1}]
  <2>1. Right(m, m.front_pos) = g
    BY <1>5, <1>6, <1>7 DEF Right
  <2> QED BY <2>1, <1>6 DEF PopFront
<1> HIDE DEF e
<1>9. CapacityOf(e) = n /\ \A q : Slot(e, q) = Slot(m, q)
  BY <1>7, <1>8 DEF CapacityOf, Slot
<1>10. \A i \in 1..(c - 1) : /\ i \in 0..n /\ i + 1 \in 1..c
                             /\ Place(g, n, i) = Place(f, n, i + 1)
                             /\ Slot(e, Place(g, n, i)) = Slot(d, Place(f, n, i + 1))
  <2> SUFFICES ASSUME NEW i \in 1..(c - 1)
               PROVE  /\ i \in 0..n /\ i + 1 \in 1..c
                      /\ Place(g, n, i) = Place(f, n, i + 1)
                      /\ Slot(e, Place(g, n, i)) = Slot(d, Place(f, n, i + 1))
    OBVIOUS
  <2>1. i \in 0..n /\ i + 1 \in 1..c /\ i + 1 \in 0..n /\ 1 \in 0..n /\ 1 < i + 1 /\ i + 1 - 1 < n
    BY <1>1
  <2>2. Place(g, n, i) = Place(f, n, i + 1) /\ Place(f, n, i + 1) \in 0..n-1
    BY <2>1, <1>3
  <2>3. Place(f, n, i + 1) # g
    BY <2>1, <1>3, <1>4
  <2> QED BY <2>1, <2>2, <2>3, <1>7, <1>9
<1>11. e \in RingsOf(S)
  BY <1>1, <1>3, <1>7, <1>8 DEF RingsOf, CapacityOf
<1>12. d.back_pos = Place(f, n, c + 1) /\ \A i \in 1..c : Slot(d, Place(f, n, i)) \in S
  BY DEF Filled
<1>13. Filled(S, e)
  <2>1. c \in 0..n
    BY <1>1
  <2>2. e.back_pos = Place(g, n, e.count + 1)
    BY <2>1, <1>1, <1>3, <1>8, <1>12
  <2>3. \A i \in 1..(c - 1) : Slot(e, Place(g, n, i)) \in S
    BY <1>10, <1>12
  <2> QED BY <2>2, <2>3, <1>8, <1>9 DEF Filled
<1>14. Contents(e) = Tail(Contents(d))
  <2>1. /\ Contents(e) \in Seq(S) /\ Len(Contents(e)) = c - 1
        /\ \A i \in 1..(c - 1) : Contents(e)[i] = Slot(e, Place(g, n, i))
    BY <1>8, <1>9, <1>11, <1>13, ContentsType
  <2>2. /\ Contents(d) \in Seq(S) /\ Len(Contents(d)) = c /\ Contents(d) # <<>>
        /\ \A i \in 1..c : Contents(d)[i] = Slot(d, Place(f, n, i))
    BY <1>1, ContentsType
  <2>3. /\ Tail(Contents(d)) \in Seq(S) /\ Len(Tail(Contents(d))) = c - 1
        /\ \A i \in 1..(c - 1) : Tail(Contents(d))[i] = Contents(d)[i + 1]
    BY <2>2, <1>1, HeadTailProperties
  <2>4. \A i \in 1..(c - 1) : Contents(e)[i] = Tail(Contents(d))[i]
    BY <2>1, <2>2, <2>3, <1>10
  <2> QED BY <2>1, <2>3, <2>4, SeqEqual
<1> QED BY <1>9, <1>11, <1>13, <1>14 DEF e, m

LEMMA FrontIsHead ==
  ASSUME NEW S, NEW d \in RingsOf(S), Filled(S, d), ~IsEmpty(d)
  PROVE  Contents(d) # <<>> /\ Front(d) = Head(Contents(d)) /\ Front(d) \in S
<1> DEFINE n == CapacityOf(d)
           f == d.front_pos
<1>1. n \in Nat \ {0} /\ f \in 0..n-1 /\ d.count \in 1..n
  BY RingType DEF IsEmpty
<1>2. /\ Contents(d) \in Seq(S) /\ Len(Contents(d)) = d.count
      /\ \A i \in 1..d.count : Contents(d)[i] = Slot(d, Place(f, n, i))
  BY ContentsType
<1>3. Contents(d)[1] = Slot(d, Place(f, n, 1)) /\ Contents(d) # <<>> /\ Contents(d)[1] \in S
  BY <1>1, <1>2
<1>4. Front(d) = Slot(d, Place(f, n, 1))
  BY DEF Front, Right, Place
<1> QED BY <1>2, <1>3, <1>4

LEMMA NewRing ==
  ASSUME NEW S, NEW m \in Nat \ {0}
  PROVE  /\ NewDeque(m) \in RingsOf(S) /\ Filled(S, NewDeque(m))
         /\ CapacityOf(NewDeque(m)) = m /\ Contents(NewDeque(m)) = <<>>
<1> DEFINE e == NewDeque(m)
           t == [i \in 1..m |-> NoItem]
           f == m \div 2
<1>1. m \in Nat \ {0} /\ f \in 0..m-1
  OBVIOUS
<1>2. t \in Seq(Contained(S)) /\ Len(t) = m
  <2>1. t \in [1..m -> Contained(S)]
    BY DEF Contained
  <2>2. t \in Seq(Contained(S))
    BY <1>1, <2>1, SeqDef
  <2> QED BY <1>1, <2>2
<1> HIDE DEF t
<1>3. e \in [container : {t}, front_pos : {f}, back_pos : {RightOf(m, f)}, count : {0}]
  BY <1>1 DEF NewDeque, RightOf, t
<1> HIDE DEF e, f
<1>4. CapacityOf(e) = m
  BY <1>2, <1>3 DEF CapacityOf
<1>5. RightOf(m, f) \in 0..m-1 /\ RightOf(m, f) = Place(f, m, 0 + 1)
  BY <1>1 DEF RightOf, Place
<1>6. e \in RingsOf(S)
  BY <1>1, <1>2, <1>3, <1>5 DEF RingsOf
<1>7. Filled(S, e)
  BY <1>3, <1>4, <1>5 DEF Filled
<1>8. Contents(e) = <<>>
  BY <1>3, <1>6, <1>7, ContentsType
<1> QED BY <1>4, <1>6, <1>7, <1>8 DEF e

LEMMA MovedFromRing ==
  ASSUME NEW S, NEW d \in RingsOf(S)
  PROVE  MovedFrom(d) \in RingsOf(S) /\ CapacityOf(MovedFrom(d)) = CapacityOf(d)
<1> DEFINE m == CapacityOf(d)
           e == NewDeque(m)
<1>1. m \in Nat \ {0}
  BY RingType
<1>2. e \in RingsOf(S) /\ CapacityOf(e) = m
  BY <1>1, NewRing
<1> HIDE DEF e
<1>3. MovedFrom(d) = [e EXCEPT !.back_pos = 0]
  BY DEF MovedFrom, e
<1> QED BY <1>1, <1>2, <1>3 DEF RingsOf, CapacityOf
=============================================================================
