--------------------- MODULE VerifiedInterpreterProofs ----------------------
(***************************************************************************)
(* Proofs about VerifiedInterpreter, for any programs, inputs and sizes of *)
(* the stacks: types, the count of functions on the work list, that only   *)
(* instructions the verifier has looked at are executed, and the depth of  *)
(* the stack at each of them.                                              *)
(***************************************************************************)
EXTENDS VerifiedInterpreter, FiniteSetTheorems, SequenceTheorems, TLAPS

(***************************************************************************)
(* The work list of the verifier.                                          *)
(***************************************************************************)

Entries == [frame : BOOLEAN, val : Nat]

(* The addresses that a work list has to visit.                            *)
ToVisit(ws) == {ws[w].val : w \in {v \in DOMAIN ws : ~ws[v].frame}}

(* The functions to return to are pairs of entries, the upper ones at the  *)
(* positions tops: an address over a depth.                                *)
PairsAt(tops, ws, addresses) ==
  /\ tops \subseteq 2..Len(ws)
  /\ \A t \in tops : t - 1 \notin tops
  /\ \A w \in 1..Len(ws) : ws[w].frame <=> (w \in tops \/ w + 1 \in tops)
  /\ \A t \in tops : ws[t].val \in addresses /\ ws[t - 1].val \in 0..MaxStack

Depths == (-MaxStack - 1)..(MaxStack - 1)

VTypes ==
  /\ IsCode(code)
  /\ stack_sizes \in [DOMAIN code -> Depths]
  /\ workset \in Seq(Entries)
  /\ ToVisit(workset) \subseteq DOMAIN code
  /\ current_frame_addr \in DOMAIN code
  /\ current_stack_size \in -1..MaxStack
  /\ current_frame_stack_size \in 0..MaxStack
  /\ verdict \in {"running", "accepted", "rejected"}
  /\ verdict = "accepted" => workset = << >>

PairedList(ws, depth, addresses) ==
  \E tops \in SUBSET (DOMAIN ws) : PairsAt(tops, ws, addresses) /\ Cardinality(tops) = depth
Paired == PairedList(workset, frames_depth, DOMAIN code)

(* Where control goes from an instruction, calls included.                 *)
Flow(a) ==
  (IF code[a].op \in {"JMP", "END", "RET", "FAIL"} THEN {} ELSE {a + 1})
    \union (IF code[a].op \in {"JMP", "CALL"} \union CondJumps THEN {code[a].a} ELSE {})

(* What has been visited or will be.                                       *)
Seen == ToVisit(workset) \union {a \in DOMAIN code : HasValue(stack_sizes[a])}
Followed(a) == code[a].op \in Checkable /\ Flow(a) \subseteq DOMAIN code \intersect Seen

(* An address whose depth is set back to an initial one, by a call or when *)
(* it is prepared again, has been visited or is on the work list.          *)
Scanned ==
  /\ Entry \in Seen
  /\ \A a \in DOMAIN code :
       /\ IsProcessed(stack_sizes[a]) => Followed(a)
       /\ IsInitial(stack_sizes[a]) => a \in ToVisit(workset) \/ Followed(a)

(***************************************************************************)
(* The interpreter.                                                        *)
(***************************************************************************)

FrameRecords == [base : Int, locals : Int, args : Int, closure : BOOLEAN, ret : Int]

(* A reference is one to an object, and one to a captured value is not one *)
(* to the entry point of a closure.  Nothing is said of other words.       *)
Good(v, h) ==
  /\ v.kind = "ref" => v.at \in DOMAIN h
  /\ v.kind = "field" => v.field # 1

IsSequence(s) == s \in Seq({s[i] : i \in DOMAIN s})

GoodObject(object, h) ==
  /\ object = [type |-> object.type, tag |-> object.tag, elems |-> object.elems]
  /\ IsSequence(object.elems)
  /\ \A i \in DOMAIN object.elems : Good(object.elems[i], h)
  /\ object.type = "closure" => 1 \in DOMAIN object.elems
GoodHeap(h) == IsSequence(h) /\ \A o \in DOMAIN h : GoodObject(h[o], h)

GoodStack(s, h) ==
  /\ s = [c \in interpreter!Cells |-> s[c]]
  /\ \A c \in interpreter!Cells : Good(s[c], h)

ITypes ==
  /\ status \in {"running", "done", "failed", "undefined"}
  /\ size \in Nat
  /\ frames \in Seq(FrameRecords) /\ Len(frames) <= MaxFrames
  /\ is_tmp_closure \in BOOLEAN
  /\ ip \in Int
  /\ GoodHeap(heap) /\ GoodStack(stack, heap)

(* Control is where the verifier has been, and so it will be after a       *)
(* return, as long as no frame below or at hand is that of a closure.      *)
Verified(a) == a \in DOMAIN code => HasValue(stack_sizes[a])
Outside(fs, f) == \A g \in 1..f : ~fs[g].closure
Followers ==
  /\ \A f \in DOMAIN frames : Outside(frames, f) => Verified(frames[f].ret)
  /\ ~InClosure => Verified(ip)

Control ==
  /\ checking => verdict = "running"
  /\ ~checking /\ verdict # "accepted" =>
       ip = 0 /\ frames = << >> /\ heap = << >> /\ ~is_tmp_closure
  /\ ~checking /\ verdict = "accepted" /\ status = "running" => Followers

-----------------------------------------------------------------------------
(* Sequences.                                                              *)

LEMMA LastTaken ==
  ASSUME NEW S, NEW s \in Seq(S), s # << >>
  PROVE  /\ Len(s) \in Nat \ {0}
         /\ Front(s) \in Seq(S) /\ Last(s) \in S /\ Last(s) = s[Len(s)]
         /\ Len(Front(s)) = Len(s) - 1
         /\ \A i \in 1..Len(s) - 1 : Front(s)[i] = s[i]
<1>1. Len(s) \in Nat \ {0}
  BY EmptySeq, Zenon
<1>2. \A i \in 1..Len(s) : s[i] \in S
  BY ElementOfSeq, Zenon
<1> DEFINE n == Len(s) - 1
<1>3. n \in Nat /\ Len(s) \in 1..Len(s) /\ \A i \in 1..n : i \in 1..Len(s)
  BY <1>1
<1>4. Front(s) = SubSeq(s, 1, n)
  BY DEF Front
<1> HIDE DEF n
<1>5. /\ SubSeq(s, 1, n) \in Seq(S)
      /\ Len(SubSeq(s, 1, n)) = IF 1 <= n THEN n - 1 + 1 ELSE 0
      /\ \A i \in 1..n - 1 + 1 : SubSeq(s, 1, n)[i] = s[1 + i - 1]
  BY <1>2, <1>3, SubSeqProperties
<1>6. /\ SubSeq(s, 1, n) \in Seq(S) /\ Len(SubSeq(s, 1, n)) = n
      /\ \A i \in 1..n : SubSeq(s, 1, n)[i] = s[i]
  BY <1>3, <1>5
<1>7. Last(s) \in S /\ Last(s) = s[Len(s)]
  BY <1>2, <1>3, Zenon DEF Last
<1> QED
  BY <1>1, <1>4, <1>6, <1>7, Zenon DEF n

LEMMA OneAppended ==
  ASSUME NEW S, NEW s \in Seq(S), NEW x \in S
  PROVE  /\ Append(s, x) \in Seq(S) /\ Append(s, x) # << >>
         /\ Len(s) \in Nat /\ Len(Append(s, x)) = Len(s) + 1
         /\ \A i \in 1..Len(s) : Append(s, x)[i] = s[i]
         /\ Append(s, x)[Len(s) + 1] = x
BY AppendProperties, LenProperties

LEMMA TwoAppended ==
  ASSUME NEW S, NEW s \in Seq(S), NEW x \in S, NEW y \in S
  PROVE  s \o <<x, y>> = Append(Append(s, x), y)
<1> DEFINE one == Append(s, x)
           two == Append(one, y)
           tail == <<x, y>>
<1>1. tail \in Seq(S) /\ Len(tail) = 2 /\ tail[1] = x /\ tail[2] = y
  OBVIOUS
<1>2. /\ one \in Seq(S) /\ Len(s) \in Nat /\ Len(one) = Len(s) + 1
      /\ \A i \in 1..Len(s) : one[i] = s[i]
      /\ one[Len(s) + 1] = x
  BY OneAppended
<1> HIDE DEF one, tail
<1>3. /\ two \in Seq(S) /\ Len(two) = Len(one) + 1
      /\ \A i \in 1..Len(one) : two[i] = one[i]
      /\ two[Len(one) + 1] = y
  BY <1>2, OneAppended
<1> DEFINE whole == s \o tail
<1>4. /\ whole \in Seq(S) /\ Len(whole) = Len(s) + Len(tail)
      /\ \A i \in 1..Len(s) + Len(tail) :
           whole[i] = IF i <= Len(s) THEN s[i] ELSE tail[i - Len(s)]
  BY <1>1, ConcatProperties
<1> HIDE DEF two, whole
<1>5. Len(whole) = Len(two) /\ \A i \in 1..Len(whole) : whole[i] = two[i]
  <2>1. Len(whole) = Len(s) + 2 /\ Len(two) = Len(s) + 2
    BY <1>1, <1>2, <1>3, <1>4
  <2>2. \A i \in 1..Len(s) : whole[i] = two[i]
    <3>1. \A i \in 1..Len(s) : i \in 1..Len(one) /\ i \in 1..Len(s) + Len(tail) /\ i <= Len(s)
      BY <1>1, <1>2
    <3> QED
      BY <1>2, <1>3, <1>4, <3>1, Zenon
  <2>3. whole[Len(s) + 1] = x /\ whole[Len(s) + 2] = y
    BY <1>1, <1>2, <1>4
  <2>4. two[Len(s) + 1] = x /\ two[Len(s) + 2] = y
    BY <1>2, <1>3
  <2>5. \A i \in 1..Len(s) + 2 : i \in 1..Len(s) \/ i \in {Len(s) + 1, Len(s) + 2}
    BY <1>2
  <2> QED
    BY <2>1, <2>2, <2>3, <2>4, <2>5
<1>6. whole = two
  BY <1>3, <1>4, <1>5, SeqEqual
<1> QED
  BY <1>6 DEF whole, two, one, tail

LEMMA ThreeAppended ==
  ASSUME NEW S, NEW s \in Seq(S), NEW x \in S, NEW y \in S, NEW z \in S
  PROVE  s \o <<x, y, z>> = Append(Append(Append(s, x), y), z)
<1> DEFINE two == s \o <<x, y>>
           three == Append(two, z)
           tail == <<x, y, z>>
<1>1. tail \in Seq(S) /\ Len(tail) = 3 /\ tail[1] = x /\ tail[2] = y /\ tail[3] = z
  OBVIOUS
<1>2. /\ two \in Seq(S) /\ Len(s) \in Nat /\ Len(two) = Len(s) + 2
      /\ \A i \in 1..Len(s) + 2 : two[i] = IF i <= Len(s) THEN s[i] ELSE <<x, y>>[i - Len(s)]
  <2>1. <<x, y>> \in Seq(S) /\ Len(<<x, y>>) = 2
    OBVIOUS
  <2> QED
    BY <2>1, ConcatProperties, LenProperties
<1> HIDE DEF two, tail
<1>3. /\ three \in Seq(S) /\ Len(three) = Len(two) + 1
      /\ \A i \in 1..Len(two) : three[i] = two[i]
      /\ three[Len(two) + 1] = z
  BY <1>2, OneAppended
<1> DEFINE whole == s \o tail
<1>4. /\ whole \in Seq(S) /\ Len(whole) = Len(s) + Len(tail)
      /\ \A i \in 1..Len(s) + Len(tail) :
           whole[i] = IF i <= Len(s) THEN s[i] ELSE tail[i - Len(s)]
  BY <1>1, ConcatProperties
<1> HIDE DEF three, whole
<1>5. Len(whole) = Len(three) /\ \A i \in 1..Len(whole) : whole[i] = three[i]
  <2>1. Len(whole) = Len(s) + 3 /\ Len(three) = Len(s) + 3
    BY <1>1, <1>2, <1>3, <1>4
  <2>2. \A i \in 1..Len(s) : whole[i] = three[i]
    BY <1>1, <1>2, <1>3, <1>4
  <2>3. whole[Len(s) + 1] = x /\ whole[Len(s) + 2] = y /\ whole[Len(s) + 3] = z
    BY <1>1, <1>2, <1>4
  <2>4. two[Len(s) + 1] = x /\ two[Len(s) + 2] = y
    BY <1>2
  <2>5. three[Len(s) + 1] = x /\ three[Len(s) + 2] = y /\ three[Len(s) + 3] = z
    BY <1>2, <1>3, <2>4
  <2>6. \A i \in 1..Len(s) + 3 : i \in 1..Len(s) \/ i \in {Len(s) + 1, Len(s) + 2, Len(s) + 3}
    BY <1>2
  <2> QED
    BY <2>1, <2>2, <2>3, <2>5, <2>6
<1>6. whole = three
  BY <1>3, <1>4, <1>5, SeqEqual
<1>7. two = Append(Append(s, x), y)
  BY TwoAppended DEF two
<1> QED
  BY <1>6, <1>7 DEF whole, three, tail

-----------------------------------------------------------------------------
(* Work lists: what a pop and a push do to the addresses to visit and to   *)
(* the pairs.                                                              *)

LEMMA InToVisit ==
  ASSUME NEW ws \in Seq(Entries), NEW a
  PROVE  a \in ToVisit(ws) <=> \E w \in 1..Len(ws) : ~ws[w].frame /\ ws[w].val = a
<1>1. DOMAIN ws = 1..Len(ws)
  BY LenProperties, Zenon
<1> QED
  BY <1>1, Zenon DEF ToVisit

LEMMA PushedEntry ==
  ASSUME NEW ws \in Seq(Entries), NEW e \in Entries
  PROVE  /\ Append(ws, e) \in Seq(Entries)
         /\ Append(ws, e) # << >> /\ Len(Append(ws, e)) = Len(ws) + 1
         /\ ToVisit(Append(ws, e)) = ToVisit(ws) \union (IF e.frame THEN {} ELSE {e.val})
<1> DEFINE new == Append(ws, e)
<1>1. /\ new \in Seq(Entries) /\ new # << >> /\ Len(new) = Len(ws) + 1
      /\ \A i \in 1..Len(ws) : new[i] = ws[i]
      /\ new[Len(ws) + 1] = e
  BY OneAppended
<1>2. Len(ws) \in Nat
  BY LenProperties, Zenon
<1> HIDE DEF new
<1>3. ASSUME NEW a PROVE a \in ToVisit(new) <=> a \in ToVisit(ws) \/ (~e.frame /\ e.val = a)
  <2>1. a \in ToVisit(new) <=> \E w \in 1..Len(new) : ~new[w].frame /\ new[w].val = a
    BY <1>1, InToVisit, Zenon
  <2>2. a \in ToVisit(ws) <=> \E w \in 1..Len(ws) : ~ws[w].frame /\ ws[w].val = a
    BY InToVisit, Zenon
  <2>3. 1..Len(new) = 1..Len(ws) \union {Len(ws) + 1}
    BY <1>1, <1>2
  <2> QED
    BY <1>1, <2>1, <2>2, <2>3, Zenon
<1>4. ToVisit(new) = ToVisit(ws) \union (IF e.frame THEN {} ELSE {e.val})
  BY <1>3, Zenon
<1> QED
  BY <1>1, <1>4, Zenon DEF new

LEMMA PoppedEntry ==
  ASSUME NEW ws \in Seq(Entries), ws # << >>
  PROVE  /\ Front(ws) \in Seq(Entries) /\ Last(ws) \in Entries
         /\ ToVisit(ws) = ToVisit(Front(ws))
                            \union (IF Last(ws).frame THEN {} ELSE {Last(ws).val})
<1>1. /\ Len(ws) \in Nat \ {0} /\ Len(Front(ws)) = Len(ws) - 1
      /\ Front(ws) \in Seq(Entries) /\ Last(ws) \in Entries /\ Last(ws) = ws[Len(ws)]
      /\ \A i \in 1..Len(ws) - 1 : Front(ws)[i] = ws[i]
  BY LastTaken, Zenon
<1>2. 1..Len(ws) = 1..Len(Front(ws)) \union {Len(ws)}
  BY <1>1
<1>3. ASSUME NEW a
      PROVE  a \in ToVisit(ws) <=> a \in ToVisit(Front(ws)) \/ (~Last(ws).frame /\ Last(ws).val = a)
  <2>1. a \in ToVisit(ws) <=> \E w \in 1..Len(ws) : ~ws[w].frame /\ ws[w].val = a
    BY InToVisit, Zenon
  <2>2. a \in ToVisit(Front(ws)) <=>
          \E w \in 1..Len(Front(ws)) : ~Front(ws)[w].frame /\ Front(ws)[w].val = a
    BY <1>1, InToVisit, Zenon
  <2> QED
    BY <1>1, <1>2, <2>1, <2>2, Zenon
<1> QED
  BY <1>1, <1>3, Zenon

LEMMA PairsPopped ==
  ASSUME NEW ws \in Seq(Entries), ws # << >>, ~Last(ws).frame,
         NEW tops, NEW addresses, PairsAt(tops, ws, addresses)
  PROVE  PairsAt(tops, Front(ws), addresses)
<1>1. /\ Len(ws) \in Nat \ {0} /\ Len(Front(ws)) = Len(ws) - 1
      /\ Last(ws) = ws[Len(ws)]
      /\ \A i \in 1..Len(ws) - 1 : Front(ws)[i] = ws[i]
  BY LastTaken, Zenon
<1> DEFINE new == Front(ws)
<1> HIDE DEF new
<1>2. Len(ws) \notin tops
  BY <1>1 DEF PairsAt
<1>3. tops \subseteq 2..Len(new)
  BY <1>1, <1>2 DEF PairsAt, new
<1>4. \A w \in 1..Len(new) : new[w].frame <=> (w \in tops \/ w + 1 \in tops)
  BY <1>1 DEF PairsAt, new
<1>5. \A t \in tops : new[t].val \in addresses /\ new[t - 1].val \in 0..MaxStack
  BY <1>1, <1>3 DEF PairsAt, new
<1> QED
  BY <1>3, <1>4, <1>5 DEF PairsAt, new

LEMMA PairsPushed ==
  ASSUME NEW ws \in Seq(Entries), NEW e \in Entries, ~e.frame,
         NEW tops, NEW addresses, PairsAt(tops, ws, addresses)
  PROVE  PairsAt(tops, Append(ws, e), addresses)
<1> DEFINE new == Append(ws, e)
<1>1. /\ Len(new) = Len(ws) + 1
      /\ \A i \in 1..Len(ws) : new[i] = ws[i]
      /\ new[Len(ws) + 1] = e
  BY OneAppended
<1>2. Len(ws) \in Nat
  BY LenProperties, Zenon
<1> HIDE DEF new
<1>3. tops \subseteq 2..Len(new)
  BY <1>1, <1>2 DEF PairsAt
<1>4. \A w \in 1..Len(new) : new[w].frame <=> (w \in tops \/ w + 1 \in tops)
  BY <1>1, <1>2 DEF PairsAt
<1>5. \A t \in tops : new[t].val \in addresses /\ new[t - 1].val \in 0..MaxStack
  BY <1>1, <1>2 DEF PairsAt
<1> QED
  BY <1>3, <1>4, <1>5 DEF PairsAt, new

(* The pair of a function that is left.                                    *)
LEMMA PairPopped ==
  ASSUME NEW ws \in Seq(Entries), ws # << >>, Last(ws).frame,
         NEW tops, NEW addresses, PairsAt(tops, ws, addresses)
  PROVE  /\ Front(ws) # << >> /\ Last(Front(ws)).frame
         /\ Last(ws).val \in addresses /\ Last(Front(ws)).val \in 0..MaxStack
         /\ Len(ws) \in tops
         /\ PairsAt(tops \ {Len(ws)}, Front(Front(ws)), addresses)
<1>1. /\ Len(ws) \in Nat \ {0} /\ Len(Front(ws)) = Len(ws) - 1
      /\ Front(ws) \in Seq(Entries)
      /\ Last(ws) = ws[Len(ws)]
      /\ \A i \in 1..Len(ws) - 1 : Front(ws)[i] = ws[i]
  BY LastTaken, Zenon
<1>2. Len(ws) \in tops /\ Len(ws) >= 2 /\ Len(ws) - 1 \notin tops /\ ws[Len(ws) - 1].frame
  BY <1>1 DEF PairsAt
<1>3. Front(ws) # << >>
  <2>1. Front(ws) = << >> => Len(Front(ws)) = 0
    BY EmptySeq, Zenon
  <2> QED
    BY <1>1, <1>2, <2>1
<1> DEFINE new == Front(Front(ws))
<1>4. /\ Len(new) = Len(Front(ws)) - 1
      /\ Last(Front(ws)) = Front(ws)[Len(Front(ws))]
      /\ \A i \in 1..Len(Front(ws)) - 1 : new[i] = Front(ws)[i]
  BY <1>1, <1>3, LastTaken, Zenon
<1> HIDE DEF new
<1>5. Len(new) = Len(ws) - 2 /\ Last(Front(ws)) = ws[Len(ws) - 1]
      /\ \A i \in 1..Len(ws) - 2 : new[i] = ws[i]
  BY <1>1, <1>2, <1>4
<1>6. tops \ {Len(ws)} \subseteq 2..Len(new)
  <2>1. tops \subseteq 2..Len(ws)
    BY DEF PairsAt
  <2>2. \A t \in tops : t # Len(ws) - 1
    BY <1>2, Zenon
  <2>3. \A n \in Nat : \A t \in 2..n : t # n /\ t # n - 1 => t \in 2..(n - 2)
    OBVIOUS
  <2>4. \A t \in tops \ {Len(ws)} : t \in 2..Len(ws) /\ t # Len(ws) /\ t # Len(ws) - 1
    BY <2>1, <2>2, Zenon
  <2>5. \A t \in tops \ {Len(ws)} : t \in 2..(Len(ws) - 2)
    BY <1>1, <2>3, <2>4, Zenon
  <2> QED
    BY <1>5, <2>5, Zenon
<1>7. \A w \in 1..Len(new) :
        new[w].frame <=> (w \in tops \ {Len(ws)} \/ w + 1 \in tops \ {Len(ws)})
  <2> SUFFICES ASSUME NEW w \in 1..Len(new)
               PROVE  new[w].frame <=> (w \in tops \ {Len(ws)} \/ w + 1 \in tops \ {Len(ws)})
    OBVIOUS
  <2>1. /\ w \in 1..Len(ws) /\ w # Len(ws) /\ w + 1 # Len(ws) /\ new[w] = ws[w]
    BY <1>1, <1>5
  <2> QED
    BY <2>1, Zenon DEF PairsAt
<1>8. \A t \in tops \ {Len(ws)} : new[t].val \in addresses /\ new[t - 1].val \in 0..MaxStack
  BY <1>5, <1>6, SMTT(30) DEF PairsAt
<1>9. Last(ws).val \in addresses /\ Last(Front(ws)).val \in 0..MaxStack
  BY <1>1, <1>2, <1>5, Zenon DEF PairsAt
<1>10. \A t \in tops \ {Len(ws)} : t - 1 \notin tops \ {Len(ws)}
  BY DEF PairsAt
<1> QED
  BY <1>2, <1>3, <1>5, <1>6, <1>7, <1>8, <1>9, <1>10 DEF PairsAt, new

(* The pair of a function that is entered.                                 *)
LEMMA PairPushed ==
  ASSUME NEW ws \in Seq(Entries), NEW tops, NEW addresses, PairsAt(tops, ws, addresses),
         NEW depth \in 0..MaxStack, NEW a \in addresses, a \in Nat, MaxStack \in Nat
  PROVE  /\ Len(ws) + 2 \notin tops
         /\ PairsAt(tops \union {Len(ws) + 2},
                    Append(Append(ws, FromFrame(depth)), FromFrame(a)), addresses)
<1> DEFINE mid == Append(ws, FromFrame(depth))
           new == Append(mid, FromFrame(a))
           top == Len(ws) + 2
<1>1. FromFrame(depth) \in Entries /\ FromFrame(a) \in Entries
  BY DEF FromFrame, Entries
<1>2. /\ mid \in Seq(Entries) /\ Len(mid) = Len(ws) + 1
      /\ \A i \in 1..Len(ws) : mid[i] = ws[i]
      /\ mid[Len(ws) + 1] = FromFrame(depth)
  BY <1>1, OneAppended
<1> HIDE DEF mid
<1>3. /\ Len(new) = Len(mid) + 1
      /\ \A i \in 1..Len(mid) : new[i] = mid[i]
      /\ new[Len(mid) + 1] = FromFrame(a)
  BY <1>1, <1>2, OneAppended
<1>4. Len(ws) \in Nat
  BY LenProperties, Zenon
<1> HIDE DEF new
<1>5. /\ Len(new) = top /\ new[top] = FromFrame(a) /\ new[top - 1] = FromFrame(depth)
      /\ \A i \in 1..Len(ws) : new[i] = ws[i]
  BY <1>2, <1>3, <1>4
<1>6. top \notin tops /\ top - 1 \notin tops /\ tops \union {top} \subseteq 2..Len(new)
  <2>1. tops \subseteq 2..Len(ws)
    BY DEF PairsAt
  <2>2. \A n \in Nat : /\ n + 2 \notin 2..n /\ n + 1 \notin 2..n /\ n + 2 \in 2..n + 2
                       /\ n + 2 - 1 = n + 1 /\ \A t \in 2..n : t \in 2..n + 2
    OBVIOUS
  <2>3. /\ top \notin 2..Len(ws) /\ top - 1 \notin 2..Len(ws) /\ top \in 2..Len(new)
        /\ \A t \in 2..Len(ws) : t \in 2..Len(new)
    BY <1>4, <1>5, <2>2
  <2> QED
    BY <2>1, <2>3, Zenon
<1>7. \A t \in tops \union {top} : t - 1 \notin tops \union {top}
  BY <1>4, <1>6 DEF PairsAt
<1>8. \A w \in 1..Len(new) :
        new[w].frame <=> (w \in tops \union {top} \/ w + 1 \in tops \union {top})
  <2> SUFFICES ASSUME NEW w \in 1..Len(new)
               PROVE  new[w].frame <=> (w \in tops \union {top} \/ w + 1 \in tops \union {top})
    OBVIOUS
  <2>1. CASE w \in 1..Len(ws)
    <3>1. w # top /\ w + 1 # top /\ new[w] = ws[w]
      BY <1>4, <1>5, <2>1
    <3> QED
      BY <2>1, <3>1, Zenon DEF PairsAt
  <2>2. CASE w \in {top - 1, top}
    <3>1. new[w].frame
      BY <1>5, <2>2 DEF FromFrame
    <3>2. w = top \/ w + 1 = top
      BY <1>4, <2>2
    <3> QED
      BY <3>1, <3>2
  <2> QED
    BY <1>4, <1>5, <2>1, <2>2
<1>9. \A t \in tops \union {top} : new[t].val \in addresses /\ new[t - 1].val \in 0..MaxStack
  <2>1. new[top].val \in addresses /\ new[top - 1].val \in 0..MaxStack
    BY <1>5 DEF FromFrame
  <2>2. \A t \in tops : new[t] = ws[t] /\ new[t - 1] = ws[t - 1]
    BY <1>4, <1>5 DEF PairsAt
  <2> QED
    BY <2>1, <2>2, Zenon DEF PairsAt
<1>10. PairsAt(tops \union {top}, new, addresses)
  BY <1>6, <1>7, <1>8, <1>9, Zenon DEF PairsAt
<1> QED
  BY <1>6, <1>10, Zenon DEF new, mid

(* The same for the work lists with as many pairs as frames_depth says.    *)
LEMMA TopsFinite ==
  ASSUME NEW ws \in Seq(Entries), NEW tops, NEW addresses, PairsAt(tops, ws, addresses)
  PROVE  tops \in SUBSET (DOMAIN ws) /\ IsFiniteSet(tops) /\ Cardinality(tops) \in Nat
<1>1. Len(ws) \in Nat /\ DOMAIN ws = 1..Len(ws)
  BY LenProperties, Zenon
<1>2. tops \subseteq 2..Len(ws)
  BY Zenon DEF PairsAt
<1>3. 2..Len(ws) \subseteq 1..Len(ws)
  BY <1>1
<1>4. tops \in SUBSET (1..Len(ws))
  BY <1>2, <1>3, Zenon
<1>5. IsFiniteSet(1..Len(ws))
  BY <1>1, FS_Interval
<1>6. IsFiniteSet(tops)
  BY <1>4, <1>5, FS_Subset, Zenon
<1> QED
  BY <1>1, <1>4, <1>6, FS_CardinalityType, Zenon

LEMMA ListPopped ==
  ASSUME NEW ws \in Seq(Entries), ws # << >>, ~Last(ws).frame,
         NEW depth, NEW addresses, PairedList(ws, depth, addresses)
  PROVE  PairedList(Front(ws), depth, addresses)
<1>1. PICK tops \in SUBSET (DOMAIN ws) : PairsAt(tops, ws, addresses) /\ Cardinality(tops) = depth
  BY Zenon DEF PairedList
<1>2. Front(ws) \in Seq(Entries) /\ PairsAt(tops, Front(ws), addresses)
  BY <1>1, PairsPopped, PoppedEntry, Zenon
<1>3. tops \in SUBSET (DOMAIN Front(ws))
  BY <1>2, TopsFinite, Zenon
<1> QED
  BY <1>1, <1>2, <1>3, Zenon DEF PairedList

LEMMA ListPushed ==
  ASSUME NEW ws \in Seq(Entries), NEW e \in Entries, ~e.frame,
         NEW depth, NEW addresses, PairedList(ws, depth, addresses)
  PROVE  PairedList(Append(ws, e), depth, addresses)
<1>1. PICK tops \in SUBSET (DOMAIN ws) : PairsAt(tops, ws, addresses) /\ Cardinality(tops) = depth
  BY Zenon DEF PairedList
<1>2. Append(ws, e) \in Seq(Entries) /\ PairsAt(tops, Append(ws, e), addresses)
  BY <1>1, PairsPushed, PushedEntry, Zenon
<1>3. tops \in SUBSET (DOMAIN Append(ws, e))
  BY <1>2, TopsFinite, Zenon
<1> QED
  BY <1>1, <1>2, <1>3, Zenon DEF PairedList

LEMMA ListLeft ==
  ASSUME NEW ws \in Seq(Entries), ws # << >>, Last(ws).frame,
         NEW depth, NEW addresses, PairedList(ws, depth, addresses)
  PROVE  /\ Front(ws) # << >> /\ Last(Front(ws)).frame
         /\ Last(ws).val \in addresses /\ Last(Front(ws)).val \in 0..MaxStack
         /\ Front(Front(ws)) \in Seq(Entries)
         /\ ToVisit(ws) = ToVisit(Front(Front(ws)))
         /\ PairedList(Front(Front(ws)), depth - 1, addresses)
<1>1. PICK tops \in SUBSET (DOMAIN ws) : PairsAt(tops, ws, addresses) /\ Cardinality(tops) = depth
  BY Zenon DEF PairedList
<1> DEFINE left == Front(Front(ws))
           rest == tops \ {Len(ws)}
<1>2. /\ Front(ws) # << >> /\ Last(Front(ws)).frame
      /\ Last(ws).val \in addresses /\ Last(Front(ws)).val \in 0..MaxStack
      /\ Len(ws) \in tops /\ PairsAt(rest, left, addresses)
  BY <1>1, PairPopped, Zenon
<1>3. Front(ws) \in Seq(Entries) /\ ToVisit(ws) = ToVisit(Front(ws))
  BY PoppedEntry
<1>4. left \in Seq(Entries) /\ ToVisit(Front(ws)) = ToVisit(left)
  BY <1>2, <1>3, PoppedEntry
<1> HIDE DEF left
<1>5. IsFiniteSet(tops) /\ Cardinality(tops) \in Nat
  BY <1>1, TopsFinite, Zenon
<1>6. Cardinality(rest) = depth - 1
  BY <1>1, <1>2, <1>5, FS_RemoveElement
<1> HIDE DEF rest
<1>7. rest \in SUBSET (DOMAIN left)
  BY <1>2, <1>4, TopsFinite, Zenon
<1>8. PairedList(left, depth - 1, addresses)
  BY <1>2, <1>6, <1>7, Zenon DEF PairedList
<1> QED
  BY <1>2, <1>3, <1>4, <1>8, Zenon DEF left

LEMMA ListEntered ==
  ASSUME NEW ws \in Seq(Entries), NEW depth, NEW addresses, PairedList(ws, depth, addresses),
         NEW most \in 0..MaxStack, NEW a \in addresses, a \in Nat
  PROVE  LET new == Append(Append(ws, FromFrame(most)), FromFrame(a))
         IN  new \in Seq(Entries) /\ ToVisit(new) = ToVisit(ws)
               /\ PairedList(new, depth + 1, addresses)
<1>1. PICK tops \in SUBSET (DOMAIN ws) : PairsAt(tops, ws, addresses) /\ Cardinality(tops) = depth
  BY Zenon DEF PairedList
<1> DEFINE mid == Append(ws, FromFrame(most))
           new == Append(mid, FromFrame(a))
           more == tops \union {Len(ws) + 2}
<1>2. MaxStack \in Nat
  BY VerifierAssumption
<1>3. Len(ws) + 2 \notin tops /\ PairsAt(more, new, addresses)
  BY <1>1, <1>2, PairPushed, Zenon
<1>4. /\ FromFrame(most) \in Entries /\ FromFrame(a) \in Entries
      /\ FromFrame(most).frame /\ FromFrame(a).frame
  BY <1>2 DEF FromFrame, Entries
<1>5. mid \in Seq(Entries) /\ ToVisit(mid) = ToVisit(ws)
  BY <1>4, PushedEntry
<1> HIDE DEF mid
<1>6. new \in Seq(Entries) /\ ToVisit(new) = ToVisit(mid)
  BY <1>4, <1>5, PushedEntry
<1> HIDE DEF new
<1>7. IsFiniteSet(tops) /\ Cardinality(tops) \in Nat
  BY <1>1, TopsFinite, Zenon
<1>8. Cardinality(more) = depth + 1
  BY <1>1, <1>3, <1>7, FS_AddElement
<1> HIDE DEF more
<1>9. more \in SUBSET (DOMAIN new)
  BY <1>3, <1>6, TopsFinite, Zenon
<1>10. PairedList(new, depth + 1, addresses)
  BY <1>3, <1>8, <1>9, Zenon DEF PairedList
<1> QED
  BY <1>5, <1>6, <1>10, Zenon DEF new, mid

-----------------------------------------------------------------------------
(* Programs.                                                               *)

LEMMA CodeType ==
  ASSUME NEW p, IsCode(p)
  PROVE  /\ DOMAIN p \subseteq Nat
         /\ \A a \in DOMAIN p : p[a] \in Instructions /\ p[a].op \in Opcodes
                                  /\ p[a].a \in Int /\ p[a].b \in Int
                                  /\ p[a].vars \in Seq([kind : Kinds, pos : Int])
<1>1. CodeSize(p) \in Nat
  BY FS_CardinalityType, Zenon DEF IsCode, CodeSize
<1>2. DOMAIN p = 0..(CodeSize(p) - 1) /\ p \in [DOMAIN p -> Instructions]
  BY Zenon DEF IsCode
<1>3. DOMAIN p \subseteq Nat
  BY <1>1, <1>2
<1>4. \A a \in DOMAIN p : p[a] \in Instructions
  BY <1>2, Zenon
<1> QED
  BY <1>3, <1>4 DEF Instructions

LEMMA DeltaType ==
  ASSUME NEW i \in Instructions
  PROVE  StackDelta(i) \in Int
<1>1. i.a \in Int /\ i.b \in Int /\ -1 \in Int /\ 0 \in Int /\ 1 \in Int
      /\ 1 - i.b \in Int /\ i.b + 1 \in Int /\ -i.a \in Int /\ 1 - i.a \in Int
  BY DEF Instructions
<1> QED
  BY <1>1 DEF StackDelta

LEMMA PackType ==
  ASSUME NEW m \in Int, NEW n \in Int
  PROVE  Pack(m, n) \in Int
<1>1. m % HalfWord \in Int /\ n % HalfWord \in Int /\ HalfWord \in Int
  BY HalfWordAssumption
<1>2. \A x, y, z \in Int : x * y + z \in Int
  OBVIOUS
<1> QED
  BY <1>1, <1>2, Zenon DEF Pack

(* A depth that is stored in the operand of a BEGIN.                       *)
LEMMA DepthStored ==
  ASSUME NEW p, IsCode(p), NEW a \in DOMAIN p, NEW n \in Int,
         NEW q, q = [p EXCEPT ![a].b = n]
  PROVE  /\ IsCode(q) /\ DOMAIN q = DOMAIN p
         /\ \A c \in DOMAIN p : q[c].op = p[c].op /\ q[c].a = p[c].a /\ (c # a => q[c] = p[c])
<1>1. p \in [DOMAIN p -> Instructions] /\ p[a] \in Instructions
  BY DEF IsCode
<1>2. DOMAIN q = DOMAIN p
  OBVIOUS
<1>3. q[a] = [p[a] EXCEPT !.b = n] /\ \A c \in DOMAIN p : c # a => q[c] = p[c]
  BY <1>1
<1>4. q[a] \in Instructions /\ q[a].op = p[a].op /\ q[a].a = p[a].a
  BY <1>1, <1>3 DEF Instructions
<1>5. q \in [DOMAIN p -> Instructions]
  BY <1>1, <1>3, <1>4
<1>6. CodeSize(q) = CodeSize(p)
  BY <1>2, Zenon DEF CodeSize
<1>7. IsCode(q)
  BY <1>2, <1>5, <1>6, Zenon DEF IsCode
<1> QED
  BY <1>2, <1>3, <1>4, <1>7

-----------------------------------------------------------------------------
(* The types of the verifier, with the pairs of its work list.             *)

LEMMA InitVerifier == Init => VTypes /\ Paired
<1> SUFFICES ASSUME Init PROVE VTypes /\ Paired
  OBVIOUS
<1>1. MaxStack \in Nat \ {0}
  BY VerifierAssumption
<1>2. IsCode(code) /\ Entry \in DOMAIN code
  <2>1. code \in Programs \union Unverified
    BY DEF Init
  <2> QED
    BY <2>1, ProgramsAssumption, Zenon
<1>3. Entry \in Nat /\ 0 \in 0..MaxStack /\ 0 \in -1..MaxStack /\ NoValue \in Depths
  BY <1>1, VerifierAssumption DEF NoValue, Depths
<1> DEFINE e == FromInstruction(Entry)
<1>4. e \in Entries /\ ~e.frame /\ e.val = Entry
  BY <1>3 DEF FromInstruction, Entries
<1>5. VInit
  BY DEF Init
<1>6. workset = Append(<< >>, e) /\ << >> \in Seq(Entries) /\ e.frame = FALSE
  <2>1. workset = <<e>>
    BY <1>5 DEF VInit
  <2>2. << >> \in Seq(Entries) /\ << >> \o <<e>> = <<e>>
    BY <1>4, ConcatEmptySeq
  <2> QED
    BY <1>4, <2>1, <2>2, AppendIsConcat DEF FromInstruction
<1> HIDE DEF e
<1>7. workset \in Seq(Entries) /\ ToVisit(workset) = ToVisit(<< >>) \union {e.val}
  BY <1>4, <1>6, PushedEntry
<1>8. ToVisit(<< >>) = {}
  BY DEF ToVisit
<1>9. PairedList(<< >>, 0, DOMAIN code)
  <2>1. PairsAt({}, << >>, DOMAIN code)
    BY DEF PairsAt
  <2>2. Cardinality({}) = 0 /\ {} \in SUBSET (DOMAIN << >>)
    BY FS_EmptySet
  <2> QED
    BY <2>1, <2>2, Zenon DEF PairedList
<1>10. PairedList(workset, 0, DOMAIN code)
  BY <1>4, <1>6, <1>9, ListPushed
<1>11. /\ stack_sizes = [a \in DOMAIN code |-> NoValue]
       /\ frames_depth = 0 /\ current_frame_addr = Entry
       /\ current_frame_stack_size = 0 /\ current_stack_size = 0 /\ verdict = "running"
  BY <1>5 DEF VInit
<1>12. ToVisit(workset) \subseteq DOMAIN code
  BY <1>2, <1>4, <1>7, <1>8
<1>13. stack_sizes \in [DOMAIN code -> Depths]
  BY <1>3, <1>11
<1> QED
  BY <1>2, <1>3, <1>7, <1>10, <1>11, <1>12, <1>13 DEF VTypes, Paired

(* The instruction that is visited.                                        *)
LEMMA Visited ==
  ASSUME VTypes, Paired, Visiting
  PROVE  /\ Addr \in DOMAIN code /\ Addr \in Nat /\ code[Addr] \in Instructions
         /\ Rest \in Seq(Entries) /\ ToVisit(workset) = ToVisit(Rest) \union {Addr}
         /\ PairedList(Rest, frames_depth, DOMAIN code)
         /\ stack_sizes[Addr] \in Depths /\ Size \in Int
<1>1. workset \in Seq(Entries) /\ workset # << >> /\ Last(workset).frame = FALSE
  <2>1. workset \in Seq(Entries) /\ workset # << >> /\ ~Last(workset).frame
    BY DEF VTypes, Visiting
  <2>2. Last(workset) \in Entries
    BY <2>1, PoppedEntry
  <2> QED
    BY <2>1, <2>2 DEF Entries
<1>2. /\ Rest \in Seq(Entries) /\ ToVisit(workset) = ToVisit(Rest) \union {Addr}
  BY <1>1, PoppedEntry DEF Rest, Addr
<1>3. PairedList(Rest, frames_depth, DOMAIN code)
  BY <1>1, ListPopped DEF Paired, Rest
<1>4. Addr \in DOMAIN code
  BY <1>2 DEF VTypes
<1>5. Addr \in Nat /\ code[Addr] \in Instructions
  BY <1>4, CodeType DEF VTypes
<1>6. stack_sizes[Addr] \in Depths
  BY <1>4 DEF VTypes
<1>7. Size \in Int
  <2>1. StackDelta(code[Addr]) \in Int
    BY <1>5, DeltaType
  <2>2. current_stack_size \in Int /\ stack_sizes[Addr] \in Int
    BY <1>6, VerifierAssumption DEF VTypes, Depths
  <2> DEFINE d == StackDelta(code[Addr])
             v == stack_sizes[Addr]
  <2> HIDE DEF d, v
  <2>3. d + (IF IsInitial(v) THEN GetValue(v) ELSE current_stack_size) \in Int
    BY <2>1, <2>2 DEF IsInitial, GetValue, NoValue, d, v
  <2> QED
    BY <2>3, Zenon DEF Size, d, v
<1> QED
  BY <1>2, <1>3, <1>4, <1>5, <1>6, <1>7

LEMMA DepthRecorded ==
  ASSUME VTypes, Paired, Visiting, DepthValid
  PROVE  /\ Size \in 0..(MaxStack - 1) /\ Size \in -1..MaxStack
         /\ FromProcessed(Size) \in Depths /\ FromInitial(Size) \in Depths
         /\ Recorded \in [DOMAIN code -> Depths]
         /\ Measured \in 0..MaxStack
<1>1. Size \in Int /\ Addr \in DOMAIN code
  BY Visited
<1>2. MaxStack \in Nat \ {0}
  BY VerifierAssumption
<1> DEFINE s == Size
<1>3. s \in 0..(MaxStack - 1)
  BY <1>1, <1>2 DEF DepthValid
<1> HIDE DEF s
<1>4. s \in -1..MaxStack /\ FromProcessed(s) \in Depths /\ FromInitial(s) \in Depths
  BY <1>2, <1>3 DEF FromProcessed, FromInitial, Depths
<1>5. Recorded \in [DOMAIN code -> Depths]
  BY <1>1, <1>4 DEF Recorded, VTypes, s
<1>6. (IF s > current_frame_stack_size THEN s ELSE current_frame_stack_size) \in 0..MaxStack
  BY <1>2, <1>3 DEF VTypes
<1> QED
  BY <1>3, <1>4, <1>5, <1>6 DEF Measured, s

LEMMA ResumeTypes ==
  ASSUME VTypes, NEW sizes \in [DOMAIN code -> Depths], NEW next \in DOMAIN code,
         Resume(next, sizes)
  PROVE  current_stack_size' \in -1..MaxStack /\ stack_sizes' \in [DOMAIN code -> Depths]
<1>1. sizes[next] \in Depths
  OBVIOUS
<1>2. MaxStack \in Nat \ {0}
  BY VerifierAssumption
<1> DEFINE v == sizes[next]
<1> HIDE DEF v
<1>3. /\ GetValue(v) \in -1..MaxStack
      /\ IsProcessed(v) => FromInitial(GetValue(v)) \in Depths
  BY <1>1, <1>2 DEF GetValue, IsInitial, IsProcessed, FromInitial, NoValue, Depths, v
<1>4. current_stack_size' = GetValue(v)
      /\ stack_sizes' = IF IsProcessed(v) THEN [sizes EXCEPT ![next] = FromInitial(GetValue(v))]
                        ELSE sizes
  BY Zenon DEF Resume, v
<1> QED
  BY <1>3, <1>4

(* What a turn of the loop leaves on the work list and in stack_sizes.     *)
LEMMA AddressPushed ==
  ASSUME NEW ws \in Seq(Entries), NEW depth, NEW addresses, PairedList(ws, depth, addresses),
         NEW a \in addresses, a \in Nat
  PROVE  LET new == Append(ws, FromInstruction(a))
         IN  /\ new \in Seq(Entries) /\ ToVisit(new) = ToVisit(ws) \union {a}
             /\ PairedList(new, depth, addresses)
<1> DEFINE e == FromInstruction(a)
<1>1. e \in Entries /\ e.frame = FALSE /\ e.val = a
  BY DEF FromInstruction, Entries
<1> HIDE DEF e
<1>2. PairedList(Append(ws, e), depth, addresses)
  BY <1>1, ListPushed
<1>3. Append(ws, e) \in Seq(Entries) /\ ToVisit(Append(ws, e)) = ToVisit(ws) \union {a}
  BY <1>1, PushedEntry
<1> QED
  BY <1>2, <1>3 DEF e

(* Such a list, with sizes for the depths, and what stays as it is.        *)
Turned(next, depth) ==
  /\ workset' \in Seq(Entries) /\ ToVisit(workset') = next
  /\ PairedList(workset', depth, DOMAIN code)
  /\ stack_sizes' \in [DOMAIN code -> Depths]
  /\ current_stack_size' \in -1..MaxStack

LEMMA OneToVisit ==
  ASSUME VTypes, Paired, Advance \/ Jump
  PROVE  /\ Turned(ToVisit(Rest) \union {IF Op = "JMP" THEN code[Addr].a ELSE Addr + 1},
                   frames_depth)
         /\ (IF Op = "JMP" THEN code[Addr].a ELSE Addr + 1) \in DOMAIN code
<1>1. Visiting /\ DepthValid /\ VisitValid /\ (Jump => Op = "JMP") /\ (Advance => Op # "JMP")
  BY Zenon DEF Advance, Jump, Visit
<1> DEFINE next == IF Op = "JMP" THEN code[Addr].a ELSE Addr + 1
<1>2. next \in DOMAIN code
  <2>1. Addr + 1 \in DOMAIN code /\ (Op = "JMP" => code[Addr].a \in DOMAIN code)
    BY <1>1 DEF VisitValid, OperandsValid, Op
  <2> QED
    BY <2>1
<1>3. next \in Nat
  BY <1>2, CodeType DEF VTypes
<1>4. Rest \in Seq(Entries) /\ PairedList(Rest, frames_depth, DOMAIN code)
  BY <1>1, Visited
<1>5. /\ Size \in -1..MaxStack /\ FromInitial(Size) \in Depths
      /\ Recorded \in [DOMAIN code -> Depths]
  BY <1>1, DepthRecorded
<1>6. workset' = Append(Rest, FromInstruction(next)) /\ current_stack_size' = Size
  BY <1>1, Zenon DEF Advance, Jump
<1>7. stack_sizes' \in [DOMAIN code -> Depths]
  <2> DEFINE s == FromInitial(Size)
             r == Recorded
  <2>1. stack_sizes' = r \/ stack_sizes' = [r EXCEPT ![next] = s]
    BY <1>1, Zenon DEF Advance, Jump
  <2>2. r \in [DOMAIN code -> Depths] /\ s \in Depths
    BY <1>5
  <2> HIDE DEF r, s, next
  <2> QED
    BY <1>2, <2>1, <2>2
<1> HIDE DEF next
<1>8. LET new == Append(Rest, FromInstruction(next))
      IN  /\ new \in Seq(Entries) /\ ToVisit(new) = ToVisit(Rest) \union {next}
          /\ PairedList(new, frames_depth, DOMAIN code)
  BY <1>2, <1>3, <1>4, AddressPushed
<1>9. Turned(ToVisit(Rest) \union {next}, frames_depth)
  BY <1>5, <1>6, <1>7, <1>8, Zenon DEF Turned
<1> QED
  BY <1>2, <1>9, Zenon DEF next

LEMMA TwoToVisit ==
  ASSUME VTypes, Paired, Call \/ (CondJump /\ ~HasValue(Recorded[code[Addr].a]))
  PROVE  /\ Turned(ToVisit(Rest) \union {code[Addr].a, Addr + 1}, frames_depth)
         /\ code[Addr].a \in DOMAIN code /\ Addr + 1 \in DOMAIN code
         /\ stack_sizes' = [Recorded EXCEPT ![code[Addr].a] = FromInitial(Size)]
<1>1. Visiting /\ DepthValid /\ VisitValid /\ Op \in {"CALL"} \union CondJumps
  BY Zenon DEF Call, CondJump, Visit
<1> DEFINE target == code[Addr].a
<1>2. target \in DOMAIN code /\ Addr + 1 \in DOMAIN code
  BY <1>1 DEF VisitValid, OperandsValid, Op
<1>3. target \in Nat /\ Addr + 1 \in Nat
  BY <1>2, CodeType DEF VTypes
<1>4. Rest \in Seq(Entries) /\ PairedList(Rest, frames_depth, DOMAIN code)
  BY <1>1, Visited
<1>5. /\ Size \in -1..MaxStack /\ FromInitial(Size) \in Depths
      /\ Recorded \in [DOMAIN code -> Depths]
  BY <1>1, DepthRecorded
<1> DEFINE mid == Append(Rest, FromInstruction(target))
           new == Append(mid, FromInstruction(Addr + 1))
<1>6. /\ FromInstruction(target) \in Entries /\ FromInstruction(Addr + 1) \in Entries
  BY <1>3 DEF FromInstruction, Entries
<1>7. /\ current_stack_size' = Size
      /\ stack_sizes' = [Recorded EXCEPT ![target] = FromInitial(Size)]
  BY Zenon DEF Call, CondJump
<1>8. workset' = new
  <2>1. CASE Call
    <3>1. workset' = Rest \o <<FromInstruction(target), FromInstruction(Addr + 1)>>
      BY <2>1, Zenon DEF Call
    <3> QED
      BY <1>4, <1>6, <3>1, TwoAppended
  <2>2. CASE CondJump /\ ~HasValue(Recorded[target])
    <3>1. workset' = Rest \o <<FromInstruction(target)>> \o <<FromInstruction(Addr + 1)>>
      BY <2>2, Zenon DEF CondJump
    <3>2. Rest \o <<FromInstruction(target)>> = mid
      BY <1>4, <1>6, AppendIsConcat
    <3>3. mid \in Seq(Entries)
      BY <1>4, <1>6, PushedEntry
    <3>4. mid \o <<FromInstruction(Addr + 1)>> = new
      BY <1>6, <3>3, AppendIsConcat
    <3> QED
      BY <3>1, <3>2, <3>4, Zenon
  <2> QED
    BY <2>1, <2>2, Zenon
<1>9. /\ mid \in Seq(Entries) /\ ToVisit(mid) = ToVisit(Rest) \union {target}
      /\ PairedList(mid, frames_depth, DOMAIN code)
  BY <1>2, <1>3, <1>4, AddressPushed
<1> HIDE DEF mid, target
<1>10. /\ new \in Seq(Entries) /\ ToVisit(new) = ToVisit(mid) \union {Addr + 1}
       /\ PairedList(new, frames_depth, DOMAIN code)
  BY <1>2, <1>3, <1>9, AddressPushed
<1>11. stack_sizes' \in [DOMAIN code -> Depths]
  BY <1>2, <1>5, <1>7
<1> HIDE DEF new
<1>12. ToVisit(new) = ToVisit(Rest) \union {target, Addr + 1}
  BY <1>9, <1>10, Zenon
<1>13. Turned(ToVisit(Rest) \union {target, Addr + 1}, frames_depth)
  BY <1>5, <1>7, <1>8, <1>10, <1>11, <1>12, Zenon DEF Turned
<1> QED
  BY <1>2, <1>7, <1>13, Zenon DEF target

LEMMA KnownJump ==
  ASSUME VTypes, Paired, CondJump, HasValue(Recorded[code[Addr].a])
  PROVE  /\ Turned(ToVisit(Rest) \union {Addr + 1}, frames_depth)
         /\ code[Addr].a \in DOMAIN code /\ Addr + 1 \in DOMAIN code
         /\ stack_sizes' = Recorded
<1>1. Visiting /\ DepthValid /\ VisitValid /\ Op \in CondJumps
  BY Zenon DEF CondJump, Visit
<1>2. code[Addr].a \in DOMAIN code /\ Addr + 1 \in DOMAIN code
  BY <1>1 DEF VisitValid, OperandsValid, Op
<1>3. Addr + 1 \in Nat
  BY <1>2, CodeType DEF VTypes
<1>4. Rest \in Seq(Entries) /\ PairedList(Rest, frames_depth, DOMAIN code)
  BY <1>1, Visited
<1>5. Size \in -1..MaxStack /\ Recorded \in [DOMAIN code -> Depths]
  BY <1>1, DepthRecorded
<1> DEFINE new == Append(Rest, FromInstruction(Addr + 1))
<1>6. /\ current_stack_size' = Size /\ stack_sizes' = Recorded
      /\ workset' = Rest \o << >> \o <<FromInstruction(Addr + 1)>>
  BY Zenon DEF CondJump
<1>7. workset' = new
  <2>1. FromInstruction(Addr + 1) \in Entries
    BY <1>3 DEF FromInstruction, Entries
  <2>2. Rest \o << >> = Rest
    BY <1>4, ConcatEmptySeq
  <2> QED
    BY <1>4, <1>6, <2>1, <2>2, AppendIsConcat
<1>8. /\ new \in Seq(Entries) /\ ToVisit(new) = ToVisit(Rest) \union {Addr + 1}
      /\ PairedList(new, frames_depth, DOMAIN code)
  BY <1>2, <1>3, <1>4, AddressPushed
<1> HIDE DEF new
<1> QED
  BY <1>2, <1>5, <1>6, <1>7, <1>8, Zenon DEF Turned

LEMMA FrameToVisit ==
  ASSUME VTypes, Paired, EnterFrame
  PROVE  /\ Turned(ToVisit(Rest) \union {Addr + 1}, frames_depth + 1)
         /\ Addr + 1 \in DOMAIN code
         /\ stack_sizes' = Recorded
<1>1. Visiting /\ DepthValid /\ VisitValid
  BY Zenon DEF EnterFrame, Visit
<1>2. Addr + 1 \in DOMAIN code
  BY <1>1 DEF VisitValid
<1>3. Addr + 1 \in Nat /\ current_frame_addr \in DOMAIN code /\ current_frame_addr \in Nat
  BY <1>2, CodeType DEF VTypes
<1>4. Rest \in Seq(Entries) /\ PairedList(Rest, frames_depth, DOMAIN code)
  BY <1>1, Visited
<1>5. Size \in -1..MaxStack /\ Recorded \in [DOMAIN code -> Depths] /\ Measured \in 0..MaxStack
  BY <1>1, DepthRecorded
<1> DEFINE x == FromFrame(Measured)
           y == FromFrame(current_frame_addr)
           z == FromInstruction(Addr + 1)
           mid == Append(Append(Rest, x), y)
           new == Append(mid, z)
<1>6. /\ current_stack_size' = Size /\ stack_sizes' = Recorded
      /\ workset' = Rest \o <<x, y, z>>
  BY Zenon DEF EnterFrame
<1>7. workset' = new
  <2>1. x \in Entries /\ y \in Entries /\ z \in Entries
    BY <1>3, <1>5, VerifierAssumption DEF FromFrame, FromInstruction, Entries
  <2> HIDE DEF x, y, z
  <2> QED
    BY <1>4, <1>6, <2>1, ThreeAppended
<1>8. /\ mid \in Seq(Entries) /\ ToVisit(mid) = ToVisit(Rest)
      /\ PairedList(mid, frames_depth + 1, DOMAIN code)
  BY <1>3, <1>4, <1>5, ListEntered
<1> HIDE DEF mid
<1>9. /\ new \in Seq(Entries) /\ ToVisit(new) = ToVisit(mid) \union {Addr + 1}
      /\ PairedList(new, frames_depth + 1, DOMAIN code)
  BY <1>2, <1>3, <1>8, AddressPushed
<1> HIDE DEF new
<1> QED
  BY <1>2, <1>5, <1>6, <1>7, <1>8, <1>9, Zenon DEF Turned

(* What a list has on top is an address, be it one to visit or that of a   *)
(* function to return to.                                                  *)
LEMMA TopIsAddress ==
  ASSUME NEW ws \in Seq(Entries), ws # << >>, NEW depth, NEW addresses,
         PairedList(ws, depth, addresses), ToVisit(ws) \subseteq addresses
  PROVE  Last(ws).val \in addresses
<1>1. CASE Last(ws).frame
  BY <1>1, ListLeft
<1>2. CASE ~Last(ws).frame
  BY <1>2, PoppedEntry
<1> QED
  BY <1>1, <1>2

LEMMA ReturnToVisit ==
  ASSUME VTypes, Paired, Return
  PROVE  /\ Turned(ToVisit(Rest), frames_depth')
         /\ \/ stack_sizes' = Recorded
            \/ \E next \in DOMAIN code : Resume(next, Recorded)
<1>1. Visiting /\ DepthValid
  BY Zenon DEF Return, Visit
<1>2. Rest \in Seq(Entries) /\ PairedList(Rest, frames_depth, DOMAIN code)
      /\ ToVisit(workset) = ToVisit(Rest) \union {Addr}
  BY <1>1, Visited
<1>3. Size \in -1..MaxStack /\ Recorded \in [DOMAIN code -> Depths]
  BY <1>1, DepthRecorded
<1> DEFINE leaving == Rest # << >> /\ Last(Rest).frame
           left == IF leaving THEN Front(Front(Rest)) ELSE Rest
<1>4. /\ workset' = left
      /\ frames_depth' = IF leaving THEN frames_depth - 1 ELSE frames_depth
      /\ IF left # << >> THEN Resume(Last(left).val, Recorded)
         ELSE stack_sizes' = Recorded /\ current_stack_size' = Size
  BY Zenon DEF Return
<1>5. left \in Seq(Entries) /\ ToVisit(left) = ToVisit(Rest)
      /\ PairedList(left, frames_depth', DOMAIN code)
  <2>1. CASE leaving
    BY <1>2, <1>4, <2>1, ListLeft
  <2>2. CASE ~leaving
    BY <1>2, <1>4, <2>2
  <2> QED
    BY <2>1, <2>2
<1> HIDE DEF left
<1>6. left # << >> => Last(left).val \in DOMAIN code
  <2>1. ToVisit(left) \subseteq DOMAIN code
    BY <1>2, <1>5 DEF VTypes
  <2> QED
    BY <1>5, <2>1, TopIsAddress
<1>7. stack_sizes' \in [DOMAIN code -> Depths] /\ current_stack_size' \in -1..MaxStack
  <2>1. CASE left # << >>
    BY <1>3, <1>4, <1>6, <2>1, ResumeTypes
  <2>2. CASE left = << >>
    BY <1>3, <1>4, <2>2
  <2> QED
    BY <2>1, <2>2
<1> QED
  BY <1>4, <1>5, <1>6, <1>7, Zenon DEF Turned

LEMMA RevisitToVisit ==
  ASSUME VTypes, Paired, Revisit
  PROVE  /\ Turned(ToVisit(Rest), frames_depth)
         /\ \/ stack_sizes' = stack_sizes
            \/ \E next \in DOMAIN code : Resume(next, stack_sizes)
<1>1. Visiting /\ DepthValid
  BY Zenon DEF Revisit
<1>2. Rest \in Seq(Entries) /\ PairedList(Rest, frames_depth, DOMAIN code)
      /\ ToVisit(workset) = ToVisit(Rest) \union {Addr}
  BY <1>1, Visited
<1>3. Size \in -1..MaxStack
  BY <1>1, DepthRecorded
<1>4. /\ workset' = Rest
      /\ IF Rest # << >> /\ ~Last(Rest).frame
         THEN Resume(Last(Rest).val, stack_sizes)
         ELSE current_stack_size' = Size /\ stack_sizes' = stack_sizes
  BY Zenon DEF Revisit
<1>5. Rest # << >> => Last(Rest).val \in DOMAIN code
  <2>1. ToVisit(Rest) \subseteq DOMAIN code
    BY <1>2 DEF VTypes
  <2> QED
    BY <1>2, <2>1, TopIsAddress
<1>6. stack_sizes \in [DOMAIN code -> Depths]
  BY DEF VTypes
<1>7. stack_sizes' \in [DOMAIN code -> Depths] /\ current_stack_size' \in -1..MaxStack
  <2>1. CASE Rest # << >> /\ ~Last(Rest).frame
    BY <1>4, <1>5, <1>6, <2>1, ResumeTypes
  <2>2. CASE ~(Rest # << >> /\ ~Last(Rest).frame)
    BY <1>3, <1>4, <1>6, <2>2
  <2> QED
    BY <2>1, <2>2
<1> QED
  BY <1>2, <1>4, <1>5, <1>7, Zenon DEF Turned

LEMMA LeftToVisit ==
  ASSUME VTypes, Paired, LeaveFrame
  PROVE  /\ Turned(ToVisit(workset), frames_depth')
         /\ current_frame_addr' \in DOMAIN code
         /\ current_frame_stack_size' \in 0..MaxStack
<1>1. workset \in Seq(Entries) /\ workset # << >> /\ Last(workset).frame
  BY DEF LeaveFrame, VTypes
<1>2. /\ Last(workset).val \in DOMAIN code /\ Last(Rest).val \in 0..MaxStack
      /\ Front(Rest) \in Seq(Entries) /\ ToVisit(workset) = ToVisit(Front(Rest))
      /\ PairedList(Front(Rest), frames_depth - 1, DOMAIN code)
  BY <1>1, ListLeft DEF Paired, Rest
<1>3. /\ workset' = Front(Rest) /\ frames_depth' = frames_depth - 1
      /\ current_frame_addr' = Last(workset).val /\ current_frame_stack_size' = Last(Rest).val
      /\ UNCHANGED <<stack_sizes, current_stack_size>>
  BY Zenon DEF LeaveFrame
<1> QED
  BY <1>2, <1>3 DEF Turned, VTypes

LEMMA StepVerifier ==
  ASSUME VTypes, Paired, VNext
  PROVE  VTypes' /\ Paired'
<1>1. IsCode(code') /\ DOMAIN code' = DOMAIN code
  <2>1. CASE Return
    <3>1. Measured \in Int /\ get_locals_size \in Int /\ current_frame_addr \in DOMAIN code
      <4>1. Measured \in 0..MaxStack /\ MaxStack \in Int
        BY <2>1, DepthRecorded, VerifierAssumption DEF Return, Visit
      <4>2. current_frame_addr \in DOMAIN code /\ code[current_frame_addr].b \in Int
        BY CodeType DEF VTypes
      <4> QED
        BY <4>1, <4>2 DEF get_locals_size
    <3>2. code' = [code EXCEPT ![current_frame_addr].b = Pack(Measured, get_locals_size)]
      BY <2>1, Zenon DEF Return
    <3>3. Pack(Measured, get_locals_size) \in Int
      BY <3>1, PackType
    <3>4. IsCode(code)
      BY DEF VTypes
    <3> QED
      BY <3>1, <3>2, <3>3, <3>4, DepthStored, Zenon
  <2>2. CASE ~Return
    <3>1. code' = code
      BY <2>2 DEF VNext, LeaveFrame, Revisit, Advance, Jump, CondJump, Call, EnterFrame, Reject, Accept
    <3> QED
      BY <3>1 DEF VTypes
  <2> QED
    BY <2>1, <2>2
<1>2. CASE Reject \/ Accept
  <2>1. /\ UNCHANGED <<code, stack_sizes, workset, frames_depth, current_frame_addr,
                       current_frame_stack_size, current_stack_size>>
        /\ verdict' \in {"running", "accepted", "rejected"}
        /\ verdict' = "accepted" => workset = << >>
    BY <1>2 DEF Reject, Accept, frame_vars
  <2> QED
    BY <2>1, Zenon DEF VTypes, Paired
<1>3. CASE ~(Reject \/ Accept)
  <2>1. \E next \in SUBSET (DOMAIN code) : Turned(next, frames_depth')
    <3>1. ASSUME NEW next, Turned(next, frames_depth'), next \subseteq DOMAIN code
          PROVE  \E n \in SUBSET (DOMAIN code) : Turned(n, frames_depth')
      BY <3>1, Zenon
    <3>2. CASE LeaveFrame
      BY <3>1, <3>2, LeftToVisit DEF VTypes
    <3>3. CASE ~LeaveFrame
      <4>1. Visiting
        BY <1>3, <3>3, Zenon DEF VNext, Revisit, Advance, Jump, CondJump, Call, EnterFrame, Return, Visit
      <4>2. ToVisit(Rest) \subseteq DOMAIN code
        BY <4>1, Visited DEF VTypes
      <4>3. CASE Revisit
        BY <3>1, <4>2, <4>3, RevisitToVisit DEF Revisit, frame_vars
      <4>4. CASE Advance \/ Jump
        BY <3>1, <4>2, <4>4, OneToVisit DEF Advance, Jump, frame_vars
      <4>5. CASE Call \/ CondJump
        <5>1. frames_depth' = frames_depth
          BY <4>5 DEF Call, CondJump, frame_vars
        <5>2. CASE CondJump /\ HasValue(Recorded[code[Addr].a])
          BY <3>1, <4>2, <5>1, <5>2, KnownJump
        <5>3. CASE ~(CondJump /\ HasValue(Recorded[code[Addr].a]))
          BY <3>1, <4>2, <4>5, <5>1, <5>3, TwoToVisit
        <5> QED
          BY <5>2, <5>3
      <4>6. CASE EnterFrame
        <5>1. frames_depth' = frames_depth + 1
          BY <4>6, Zenon DEF EnterFrame
        <5> QED
          BY <3>1, <4>2, <4>6, <5>1, FrameToVisit
      <4>7. CASE Return
        BY <3>1, <4>2, <4>7, ReturnToVisit
      <4> QED
        BY <1>3, <3>3, <4>3, <4>4, <4>5, <4>6, <4>7, Zenon DEF VNext
    <3> QED
      BY <3>2, <3>3
  <2>2. verdict' = "running"
    BY <1>3 DEF VNext, LeaveFrame, Revisit, Advance, Jump, CondJump, Call, EnterFrame, Return, Visit,
                Visiting
  <2>3. current_frame_addr' \in DOMAIN code /\ current_frame_stack_size' \in 0..MaxStack
    <3>1. CASE LeaveFrame
      BY <3>1, LeftToVisit
    <3>2. CASE Revisit
      BY <3>2 DEF Revisit, VTypes, frame_vars
    <3>3. CASE ~LeaveFrame /\ ~Revisit
      <4>1. Visiting /\ DepthValid /\ current_frame_stack_size' = Measured
        BY <1>3, <3>3, Zenon DEF VNext, Advance, Jump, CondJump, Call, EnterFrame, Return, Visit
      <4>2. current_frame_addr' \in {current_frame_addr, Addr}
        BY <1>3, <3>3 DEF VNext, Advance, Jump, CondJump, Call, EnterFrame, Return, frame_vars
      <4>3. Measured \in 0..MaxStack /\ Addr \in DOMAIN code
        BY <4>1, Visited, DepthRecorded
      <4> QED
        BY <4>1, <4>2, <4>3 DEF VTypes
    <3> QED
      BY <3>1, <3>2, <3>3
  <2>4. PICK next \in SUBSET (DOMAIN code) : Turned(next, frames_depth')
    BY <2>1
  <2> QED
    BY <1>1, <2>2, <2>3, <2>4 DEF VTypes, Paired, Turned
<1> QED
  BY <1>2, <1>3

-----------------------------------------------------------------------------
(* Whatever has been visited has been followed: what it leads to has been  *)
(* visited or is on the work list.                                         *)

LEMMA DepthCases ==
  ASSUME NEW v \in Int
  PROVE  /\ HasValue(v) <=> IsProcessed(v) \/ IsInitial(v)
         /\ ~(IsProcessed(v) /\ IsInitial(v))
BY DEF HasValue, IsProcessed, IsInitial, NoValue

LEMMA DepthsAreInts == Depths \subseteq Int
BY VerifierAssumption DEF Depths

LEMMA FlowKept ==
  ASSUME NEW a, code'[a].op = code[a].op, code'[a].a = code[a].a
  PROVE  Flow(a)' = Flow(a)
BY DEF Flow

LEMMA ScannedKept ==
  ASSUME VTypes, VTypes', Scanned, DOMAIN code' = DOMAIN code,
         \A a \in DOMAIN code : code'[a].op = code[a].op /\ code'[a].a = code[a].a,
         NEW x \in DOMAIN code,
         ToVisit(workset) \subseteq ToVisit(workset') \union {x},
         \A a \in DOMAIN code : HasValue(stack_sizes[a]) => HasValue(stack_sizes'[a]),
         HasValue(stack_sizes'[x]),
         Followed(x) \/ Followed(x)',
         \A a \in DOMAIN code \ {x} :
           /\ IsProcessed(stack_sizes'[a]) => IsProcessed(stack_sizes[a])
           /\ IsInitial(stack_sizes'[a]) => HasValue(stack_sizes[a]) \/ a \in ToVisit(workset')
  PROVE  Scanned'
<1>1. Seen \subseteq Seen'
  BY DEF Seen
<1>2. ASSUME NEW a \in DOMAIN code, Followed(a)
      PROVE  Followed(a)'
  <2>1. Flow(a)' = Flow(a)
    BY FlowKept
  <2> QED
    BY <1>1, <1>2, <2>1 DEF Followed
<1>3. Followed(x)'
  BY <1>2
<1>4. ASSUME NEW a \in DOMAIN code, a # x
      PROVE  /\ IsProcessed(stack_sizes'[a]) => Followed(a)'
             /\ IsInitial(stack_sizes'[a]) => a \in ToVisit(workset') \/ Followed(a)'
  <2>1. /\ IsProcessed(stack_sizes[a]) => Followed(a)
        /\ IsInitial(stack_sizes[a]) => a \in ToVisit(workset) \/ Followed(a)
    BY Zenon DEF Scanned
  <2>2. stack_sizes[a] \in Int
    BY DepthsAreInts DEF VTypes
  <2>3. HasValue(stack_sizes[a]) => IsProcessed(stack_sizes[a]) \/ IsInitial(stack_sizes[a])
    BY <2>2, DepthCases
  <2>4. /\ IsProcessed(stack_sizes'[a]) => IsProcessed(stack_sizes[a])
        /\ IsInitial(stack_sizes'[a]) => HasValue(stack_sizes[a]) \/ a \in ToVisit(workset')
    BY <1>4, Zenon
  <2>5. a \in ToVisit(workset) => a \in ToVisit(workset')
    BY <1>4, Zenon
  <2> QED
    BY <1>2, <2>1, <2>3, <2>4, <2>5, Zenon
<1>5. Entry \in Seen'
  BY <1>1, Zenon DEF Scanned
<1>6. \A a \in DOMAIN code : /\ IsProcessed(stack_sizes'[a]) => Followed(a)'
                             /\ IsInitial(stack_sizes'[a]) => a \in ToVisit(workset') \/ Followed(a)'
  BY <1>3, <1>4, Zenon
<1> QED
  BY <1>5, <1>6, Zenon DEF Scanned

LEMMA SameScanned ==
  ASSUME Scanned, UNCHANGED <<code, stack_sizes>>, ToVisit(workset') = ToVisit(workset)
  PROVE  Scanned'
BY DEF Scanned, Seen, Followed, Flow

LEMMA RecordedValues ==
  ASSUME VTypes, Paired, Visiting, DepthValid
  PROVE  /\ HasValue(Recorded[Addr])
         /\ \A a \in DOMAIN code \ {Addr} : Recorded[a] = stack_sizes[a]
         /\ IsInitial(FromInitial(Size)) /\ HasValue(FromInitial(Size))
         /\ ~IsProcessed(FromInitial(Size))
<1>1. Addr \in DOMAIN code /\ Size \in 0..(MaxStack - 1)
  BY Visited, DepthRecorded
<1> DEFINE s == Size
<1> HIDE DEF s
<1>2. HasValue(FromProcessed(s)) /\ IsInitial(FromInitial(s)) /\ HasValue(FromInitial(s))
      /\ ~IsProcessed(FromInitial(s))
  BY <1>1, VerifierAssumption DEF HasValue, IsInitial, IsProcessed, FromProcessed, FromInitial,
       NoValue, s
<1>3. Recorded[Addr] = FromProcessed(s) /\ \A a \in DOMAIN code \ {Addr} : Recorded[a] = stack_sizes[a]
  BY <1>1 DEF Recorded, VTypes, s
<1> QED
  BY <1>2, <1>3 DEF s

LEMMA ResumedValues ==
  ASSUME NEW sizes \in [DOMAIN code -> Depths], NEW next \in DOMAIN code, Resume(next, sizes)
  PROVE  \A a \in DOMAIN code :
           /\ HasValue(stack_sizes'[a]) <=> HasValue(sizes[a])
           /\ IsProcessed(stack_sizes'[a]) => IsProcessed(sizes[a])
<1>1. /\ sizes[next] \in Int
      /\ stack_sizes' = IF IsProcessed(sizes[next])
                        THEN [sizes EXCEPT ![next] = FromInitial(GetValue(sizes[next]))]
                        ELSE sizes
  BY DepthsAreInts DEF Resume
<1> DEFINE v == sizes[next]
           u == FromInitial(GetValue(v))
<1>2. IsProcessed(v) => HasValue(v) /\ HasValue(u) /\ ~IsProcessed(u)
  <2> HIDE DEF v
  <2> QED
    BY <1>1 DEF v, HasValue, IsInitial, IsProcessed, FromInitial, GetValue, NoValue
<1>3. CASE IsProcessed(v)
  <2>1. stack_sizes' = [sizes EXCEPT ![next] = u]
    BY <1>1, <1>3, Zenon
  <2> HIDE DEF u
  <2>2. \A a \in DOMAIN code : stack_sizes'[a] = IF a = next THEN u ELSE sizes[a]
    BY <2>1
  <2> QED
    BY <1>2, <1>3, <2>2, Zenon
<1>4. CASE ~IsProcessed(v)
  BY <1>1, <1>4, Zenon
<1> QED
  BY <1>3, <1>4

(* A turn that visits an instruction: where it leads to is on the work     *)
(* list, and so is what was reset without having been visited.             *)
LEMMA VisitScanned ==
  ASSUME VTypes, VTypes', Paired, Scanned, DOMAIN code' = DOMAIN code,
         \A a \in DOMAIN code : code'[a].op = code[a].op /\ code'[a].a = code[a].a,
         Visiting, DepthValid, ToVisit(Rest) \subseteq ToVisit(workset'),
         Flow(Addr) \subseteq DOMAIN code \intersect Seen',
         \A a \in DOMAIN code :
           /\ HasValue(Recorded[a]) => HasValue(stack_sizes'[a])
           /\ IsProcessed(stack_sizes'[a]) => IsProcessed(Recorded[a])
           /\ IsInitial(stack_sizes'[a]) => HasValue(Recorded[a]) \/ a \in ToVisit(workset')
  PROVE  Scanned'
<1>1. Addr \in DOMAIN code /\ ToVisit(workset) = ToVisit(Rest) \union {Addr}
  BY Visited
<1>2. HasValue(Recorded[Addr]) /\ \A a \in DOMAIN code \ {Addr} : Recorded[a] = stack_sizes[a]
  BY RecordedValues
<1>3. \A a \in DOMAIN code : HasValue(stack_sizes[a]) => HasValue(stack_sizes'[a])
  BY <1>1, <1>2, Zenon
<1>4. HasValue(stack_sizes'[Addr])
  BY <1>1, <1>2, Zenon
<1>5. PICK x \in DOMAIN code : x = Addr
  BY <1>1
<1>6. Followed(x)'
  <2>1. code[x].op \in Checkable /\ Flow(x) \subseteq DOMAIN code \intersect Seen'
    BY <1>5 DEF DepthValid, Op
  <2>2. Flow(x)' = Flow(x)
    BY FlowKept
  <2> QED
    BY <2>1, <2>2 DEF Followed
<1>7. ToVisit(workset) \subseteq ToVisit(workset') \union {x}
  BY <1>1, <1>5
<1>8. \A a \in DOMAIN code \ {x} :
        /\ IsProcessed(stack_sizes'[a]) => IsProcessed(stack_sizes[a])
        /\ IsInitial(stack_sizes'[a]) => HasValue(stack_sizes[a]) \/ a \in ToVisit(workset')
  BY <1>2, <1>5, Zenon
<1>9. HasValue(stack_sizes'[x])
  BY <1>4, <1>5
<1> QED
  BY <1>3, <1>6, <1>7, <1>8, <1>9, ScannedKept

(* A turn that comes to an instruction again drops it.                     *)
LEMMA RevisitScanned ==
  ASSUME VTypes, VTypes', Paired, Scanned, Revisit
  PROVE  Scanned'
<1>1. Visiting /\ DepthValid /\ Again /\ UNCHANGED code
  BY Zenon DEF Revisit
<1>2. Addr \in DOMAIN code /\ ToVisit(workset) = ToVisit(Rest) \union {Addr}
  BY <1>1, Visited
<1>3. /\ ToVisit(workset') = ToVisit(Rest)
      /\ stack_sizes' = stack_sizes \/ \E next \in DOMAIN code : Resume(next, stack_sizes)
  BY RevisitToVisit DEF Turned
<1>4. \A a \in DOMAIN code : /\ HasValue(stack_sizes'[a]) <=> HasValue(stack_sizes[a])
                             /\ IsProcessed(stack_sizes'[a]) => IsProcessed(stack_sizes[a])
  <2>1. CASE stack_sizes' = stack_sizes
    BY <2>1
  <2>2. CASE \E next \in DOMAIN code : Resume(next, stack_sizes)
    BY <2>2, ResumedValues DEF VTypes
  <2> QED
    BY <1>3, <2>1, <2>2
<1>5. PICK x \in DOMAIN code : x = Addr
  BY <1>2
<1>6. IsProcessed(stack_sizes[x])
  BY <1>1, <1>5 DEF Again
<1>7. Followed(x) /\ HasValue(stack_sizes[x])
  <2>1. stack_sizes[x] \in Int
    BY DepthsAreInts DEF VTypes
  <2>2. HasValue(stack_sizes[x])
    BY <1>6, <2>1, DepthCases
  <2> QED
    BY <1>6, <2>2, Zenon DEF Scanned
<1>8. \A a \in DOMAIN code : IsInitial(stack_sizes'[a]) => HasValue(stack_sizes[a])
  <2>1. \A a \in DOMAIN code : stack_sizes'[a] \in Int
    BY <1>1, DepthsAreInts DEF VTypes
  <2>2. \A a \in DOMAIN code : IsInitial(stack_sizes'[a]) => HasValue(stack_sizes'[a])
    BY <2>1, DepthCases
  <2> QED
    BY <1>4, <2>2, Zenon
<1>9. ToVisit(workset) \subseteq ToVisit(workset') \union {x}
  BY <1>2, <1>3, <1>5
<1> QED
  BY <1>1, <1>4, <1>7, <1>8, <1>9, ScannedKept

(* What is recorded when an address is reset without having been visited   *)
(* is only ever that of an entry of the work list.                         *)
LEMMA ResetRecorded ==
  ASSUME VTypes, Paired, Visiting, DepthValid, NEW next \in DOMAIN code,
         stack_sizes' = Recorded \/ stack_sizes' = [Recorded EXCEPT ![next] = FromInitial(Size)]
  PROVE  \A a \in DOMAIN code :
           /\ HasValue(Recorded[a]) => HasValue(stack_sizes'[a])
           /\ IsProcessed(stack_sizes'[a]) => IsProcessed(Recorded[a])
           /\ IsInitial(stack_sizes'[a]) => HasValue(Recorded[a]) \/ a = next
<1>1. Recorded \in [DOMAIN code -> Depths]
  BY DepthRecorded
<1>2. HasValue(FromInitial(Size)) /\ ~IsProcessed(FromInitial(Size))
  BY RecordedValues
<1> DEFINE r == Recorded
           u == FromInitial(Size)
<1>3. \A a \in DOMAIN code : r[a] \in Int
  BY <1>1, DepthsAreInts
<1>4. \A a \in DOMAIN code : IsInitial(r[a]) => HasValue(r[a])
  <2> HIDE DEF r
  <2> QED
    BY <1>3, DepthCases
<1>5. CASE stack_sizes' = r
  BY <1>4, <1>5, Zenon
<1>6. CASE stack_sizes' = [r EXCEPT ![next] = u]
  <2> HIDE DEF r, u
  <2>1. \A a \in DOMAIN code : stack_sizes'[a] = IF a = next THEN u ELSE r[a]
    BY <1>1, <1>6 DEF r
  <2> QED
    BY <1>2, <1>4, <2>1, Zenon DEF r, u
<1> QED
  BY <1>5, <1>6

LEMMA StepScanned ==
  ASSUME VTypes, VTypes', Paired, Scanned, VNext
  PROVE  Scanned'
<1> DEFINE sameFlow ==
      /\ DOMAIN code' = DOMAIN code
      /\ \A a \in DOMAIN code : code'[a].op = code[a].op /\ code'[a].a = code[a].a
    kept ==
      \A a \in DOMAIN code :
        /\ HasValue(Recorded[a]) => HasValue(stack_sizes'[a])
        /\ IsProcessed(stack_sizes'[a]) => IsProcessed(Recorded[a])
        /\ IsInitial(stack_sizes'[a]) => HasValue(Recorded[a]) \/ a \in ToVisit(workset')
<1>1. ASSUME Visiting, DepthValid, ToVisit(Rest) \subseteq ToVisit(workset'), sameFlow, kept,
             Flow(Addr) \subseteq DOMAIN code \intersect Seen'
      PROVE  Scanned'
  BY <1>1, VisitScanned
<1>2. /\ code' = code => sameFlow
      /\ ToVisit(workset') \subseteq Seen'
  BY DEF Seen
<1>3. ASSUME Visiting, DepthValid, NEW next \in DOMAIN code \intersect ToVisit(workset'),
             stack_sizes' = Recorded
               \/ stack_sizes' = [Recorded EXCEPT ![next] = FromInitial(Size)]
      PROVE  kept
  BY <1>3, ResetRecorded
<1> HIDE DEF sameFlow, kept
<1>4. CASE LeaveFrame
  BY <1>4, LeftToVisit, SameScanned DEF LeaveFrame, Turned
<1>5. CASE Revisit
  BY <1>5, RevisitScanned
<1>6. CASE Advance \/ Jump
  <2> DEFINE next == IF Op = "JMP" THEN code[Addr].a ELSE Addr + 1
  <2>1. /\ ToVisit(workset') = ToVisit(Rest) \union {next} /\ next \in DOMAIN code
    BY <1>6, OneToVisit, Zenon DEF Turned
  <2>2. Visiting /\ DepthValid /\ code' = code
        /\ Op \notin {"CALL", "END", "RET", "FAIL"} \union CondJumps
    BY <1>6 DEF Advance, Jump, Visit, CondJumps
  <2>3. stack_sizes' = Recorded \/ stack_sizes' = [Recorded EXCEPT ![next] = FromInitial(Size)]
    <3>1. Jump => Op = "JMP"
      BY DEF Jump, Visit
    <3> QED
      BY <1>6, <3>1, Zenon DEF Advance, Jump
  <2>4. Flow(Addr) = {next}
    BY <2>2 DEF Flow, Op
  <2> HIDE DEF next
  <2>5. kept
    BY <1>3, <2>1, <2>2, <2>3
  <2> QED
    BY <1>1, <1>2, <2>1, <2>2, <2>4, <2>5
<1>7. CASE Call \/ (CondJump /\ ~HasValue(Recorded[code[Addr].a]))
  <2> DEFINE next == code[Addr].a
  <2>1. /\ ToVisit(workset') = ToVisit(Rest) \union {next, Addr + 1}
        /\ next \in DOMAIN code /\ Addr + 1 \in DOMAIN code
        /\ stack_sizes' = [Recorded EXCEPT ![next] = FromInitial(Size)]
    BY <1>7, TwoToVisit, Zenon DEF Turned
  <2>2. Visiting /\ DepthValid /\ code' = code /\ Op \in {"CALL"} \union CondJumps
    BY <1>7 DEF Call, CondJump, Visit
  <2>3. Flow(Addr) = {next, Addr + 1}
    BY <2>2 DEF Flow, Op, CondJumps
  <2> HIDE DEF next
  <2>4. kept
    BY <1>3, <2>1, <2>2
  <2> QED
    BY <1>1, <1>2, <2>1, <2>2, <2>3, <2>4
<1>8. CASE CondJump /\ HasValue(Recorded[code[Addr].a])
  <2>1. /\ ToVisit(workset') = ToVisit(Rest) \union {Addr + 1}
        /\ code[Addr].a \in DOMAIN code /\ Addr + 1 \in DOMAIN code
        /\ stack_sizes' = Recorded
    BY <1>8, KnownJump, Zenon DEF Turned
  <2>2. Visiting /\ DepthValid /\ code' = code /\ Op \in CondJumps
    BY <1>8 DEF CondJump, Visit
  <2>3. Flow(Addr) = {code[Addr].a, Addr + 1}
    BY <2>2 DEF Flow, Op, CondJumps
  <2>4. code[Addr].a \in Seen'
    BY <1>8, <2>1, <2>2 DEF Seen
  <2>5. kept
    BY <1>3, <2>1, <2>2
  <2> QED
    BY <1>1, <1>2, <2>1, <2>2, <2>3, <2>4, <2>5
<1>9. CASE EnterFrame
  <2>1. /\ ToVisit(workset') = ToVisit(Rest) \union {Addr + 1} /\ Addr + 1 \in DOMAIN code
        /\ stack_sizes' = Recorded
    BY <1>9, FrameToVisit, Zenon DEF Turned
  <2>2. Visiting /\ DepthValid /\ code' = code /\ Op \in Begins
    BY <1>9 DEF EnterFrame, Visit
  <2>3. Flow(Addr) = {Addr + 1}
    BY <2>2 DEF Flow, Op, Begins, CondJumps
  <2>4. kept
    BY <1>3, <2>1, <2>2
  <2> QED
    BY <1>1, <1>2, <2>1, <2>2, <2>3, <2>4
<1>10. CASE Return
  <2>1. /\ ToVisit(workset') = ToVisit(Rest)
        /\ stack_sizes' = Recorded \/ \E next \in DOMAIN code : Resume(next, Recorded)
    BY <1>10, ReturnToVisit DEF Turned
  <2>2. Visiting /\ DepthValid /\ Op \in {"END", "RET", "FAIL"}
    BY <1>10 DEF Return, Visit
  <2>3. Flow(Addr) = {}
    BY <2>2 DEF Flow, Op, CondJumps
  <2>4. sameFlow
    <3>1. code' = [code EXCEPT ![current_frame_addr].b = Pack(Measured, get_locals_size)]
      BY <1>10, Zenon DEF Return
    <3>2. Measured \in Int /\ current_frame_addr \in DOMAIN code /\ IsCode(code)
      BY <2>2, DepthRecorded, VerifierAssumption DEF VTypes
    <3>3. get_locals_size \in Int
      BY <3>2, CodeType DEF get_locals_size
    <3>4. Pack(Measured, get_locals_size) \in Int
      BY <3>2, <3>3, PackType
    <3> QED
      BY <3>1, <3>2, <3>4, DepthStored DEF sameFlow
  <2>5. kept
    <3>1. Recorded \in [DOMAIN code -> Depths]
      BY <2>2, DepthRecorded
    <3>2. \A a \in DOMAIN code : /\ HasValue(stack_sizes'[a]) <=> HasValue(Recorded[a])
                                 /\ IsProcessed(stack_sizes'[a]) => IsProcessed(Recorded[a])
      <4>1. CASE stack_sizes' = Recorded
        BY <4>1
      <4>2. CASE \E next \in DOMAIN code : Resume(next, Recorded)
        BY <3>1, <4>2, ResumedValues
      <4> QED
        BY <2>1, <4>1, <4>2
    <3>3. \A a \in DOMAIN code : stack_sizes'[a] \in Int
      BY <2>4, DepthsAreInts DEF VTypes, sameFlow
    <3>4. \A a \in DOMAIN code : IsInitial(stack_sizes'[a]) => HasValue(stack_sizes'[a])
      BY <3>3, DepthCases
    <3> QED
      BY <3>2, <3>4, Zenon DEF kept
  <2> QED
    BY <1>1, <2>1, <2>2, <2>3, <2>4, <2>5
<1>11. CASE Reject \/ Accept
  BY <1>11, SameScanned DEF Reject, Accept
<1> QED
  BY <1>4, <1>5, <1>6, <1>7, <1>8, <1>9, <1>10, <1>11, Zenon DEF VNext

-----------------------------------------------------------------------------
(* The entries of functions are twice as many as the pairs.                *)

LEMMA PairsCounted ==
  ASSUME NEW ws \in Seq(Entries), NEW depth, NEW addresses, PairedList(ws, depth, addresses)
  PROVE  /\ depth \in Nat
         /\ Cardinality({w \in DOMAIN ws : ws[w].frame}) = 2 * depth
<1>1. PICK tops \in SUBSET (DOMAIN ws) : PairsAt(tops, ws, addresses) /\ Cardinality(tops) = depth
  BY Zenon DEF PairedList
<1>2. IsFiniteSet(tops) /\ depth \in Nat
  BY <1>1, TopsFinite
<1>3. Len(ws) \in Nat /\ DOMAIN ws = 1..Len(ws)
  BY LenProperties, Zenon
<1>4. /\ tops \subseteq 2..Len(ws) /\ \A t \in tops : t - 1 \notin tops
      /\ \A w \in 1..Len(ws) : ws[w].frame <=> (w \in tops \/ w + 1 \in tops)
  BY <1>1, Zenon DEF PairsAt
<1> DEFINE below == [t \in tops |-> t - 1]
           lower == {t - 1 : t \in tops}
<1>5. below \in Bijection(tops, lower)
  <2>1. below \in [tops -> lower]
    OBVIOUS
  <2>2. \A x, y \in tops : below[x] = below[y] => x = y
    BY <1>3, <1>4
  <2>3. \A l \in lower : \E t \in tops : below[t] = l
    OBVIOUS
  <2> QED
    BY <2>1, <2>2, <2>3, Zenon DEF Bijection, Injection, Surjection, IsInjective
<1> HIDE DEF below
<1>6. IsFiniteSet(lower) /\ Cardinality(lower) = depth
  BY <1>1, <1>2, <1>5, FS_Bijection DEF ExistsBijection
<1>7. {w \in DOMAIN ws : ws[w].frame} = tops \union lower
  <2>1. \A w \in 1..Len(ws) : ws[w].frame <=> w \in tops \/ w \in lower
    BY <1>3, <1>4
  <2>2. tops \union lower \subseteq 1..Len(ws)
    BY <1>3, <1>4
  <2> HIDE DEF lower
  <2> QED
    BY <1>3, <2>1, <2>2
<1>8. tops \intersect lower = {}
  BY <1>4
<1> HIDE DEF lower
<1>9. Cardinality(tops \union lower) = depth + depth - 0
  <2>1. Cardinality(tops \union lower)
          = Cardinality(tops) + Cardinality(lower) - Cardinality(tops \intersect lower)
    BY <1>2, <1>6, FS_Union, Zenon
  <2>2. Cardinality({}) = 0
    BY FS_EmptySet
  <2> QED
    BY <1>1, <1>6, <1>8, <2>1, <2>2, Zenon
<1>10. Cardinality({w \in DOMAIN ws : ws[w].frame}) = depth + depth - 0
  BY <1>7, <1>9, Zenon
<1> QED
  BY <1>2, <1>10

(* The steps of the interpreter leave the work list and the depths alone,  *)
(* and the code is written by the verifier only.                           *)
LEMMA CodeUnwritten == interpreter!INext => UNCHANGED <<code, checking>>
BY DEF interpreter!INext, interpreter!ExecuteBinop, interpreter!ExecuteLowEq,
  interpreter!ExecuteConst, interpreter!ExecuteString, interpreter!ExecuteSexp,
  interpreter!ExecuteBarray, interpreter!ExecuteSti, interpreter!ExecuteStaReference,
  interpreter!ExecuteStaElement, interpreter!ExecuteElem, interpreter!ExecuteLength,
  interpreter!ExecuteToString, interpreter!ExecuteDrop, interpreter!ExecuteDup,
  interpreter!ExecuteSwap, interpreter!ExecuteLoad, interpreter!ExecuteReference,
  interpreter!ExecuteStore, interpreter!ExecuteJmp, interpreter!ExecuteCjmp,
  interpreter!ExecuteBegin, interpreter!ExecuteRet, interpreter!ExecuteCall,
  interpreter!ExecuteCallc, interpreter!ExecuteClosure, interpreter!ExecuteTag,
  interpreter!ExecuteArray, interpreter!ExecutePattStr, interpreter!ExecutePattern,
  interpreter!ExecuteFail, interpreter!ExecuteLine, interpreter!ExecuteRead,
  interpreter!ExecuteWrite, interpreter!ExecuteStop, interpreter!RunOff,
  interpreter!Execute, interpreter!Trap, interpreter!Fail, interpreter!Undefined

(* The invariant of the verifier, and the steps of the interpreter.        *)
VerifierInv == VTypes /\ Paired /\ Scanned

LEMMA InitVerifierInv == Init => VerifierInv
<1> SUFFICES ASSUME Init PROVE VerifierInv
  OBVIOUS
<1>1. VTypes /\ Paired
  BY InitVerifier
<1>2. /\ stack_sizes = [a \in DOMAIN code |-> NoValue]
      /\ workset = <<FromInstruction(Entry)>>
  BY DEF Init, VInit
<1>3. Entry \in ToVisit(workset)
  <2>1. 1 \in DOMAIN workset /\ ~workset[1].frame /\ workset[1].val = Entry
    BY <1>2 DEF FromInstruction
  <2> QED
    BY <2>1 DEF ToVisit
<1>4. ~IsProcessed(NoValue) /\ ~IsInitial(NoValue)
  BY DEF IsProcessed, IsInitial, NoValue
<1>5. \A a \in DOMAIN code : stack_sizes[a] = NoValue
  BY <1>2
<1> QED
  BY <1>1, <1>3, <1>4, <1>5, Zenon DEF VerifierInv, Scanned, Seen

LEMMA NextVerifierInv == VerifierInv /\ [Next]_vars => VerifierInv'
<1> SUFFICES ASSUME VerifierInv, [Next]_vars PROVE VerifierInv'
  OBVIOUS
<1>1. CASE verify
  <2>1. VNext
    BY <1>1 DEF verify
  <2>2. VTypes' /\ Paired'
    BY <2>1, StepVerifier DEF VerifierInv
  <2> QED
    BY <2>1, <2>2, StepScanned DEF VerifierInv
<1>2. CASE interpret \/ UNCHANGED vars
  <2>1. UNCHANGED <<code, only_vvars>>
    BY <1>2, CodeUnwritten DEF interpret, vars, vvars, only_vvars
  <2>2. UNCHANGED <<code, stack_sizes, workset, frames_depth, current_frame_addr,
                    current_frame_stack_size, current_stack_size, verdict>>
    BY <2>1 DEF only_vvars
  <2> QED
    BY <2>2 DEF VerifierInv, VTypes, Paired, Scanned, Seen, Followed, Flow
<1> QED
  BY <1>1, <1>2 DEF Next

(* frames_depth_ counts the functions on the work list: the loop, END, RET *)
(* and FAIL take both entries of a function off at once, wherever it is    *)
(* left (verifier.cpp), for any code.                                      *)
THEOREM FramesAreCounted == Spec => []DepthCountsFrames
<1>1. VerifierInv => DepthCountsFrames
  BY PairsCounted DEF VerifierInv, VTypes, Paired, DepthCountsFrames
<1> QED
  BY <1>1, InitVerifierInv, NextVerifierInv, PTL DEF Spec

-----------------------------------------------------------------------------
(* The steps of the interpreter: the types, where control goes, and which  *)
(* objects are made.                                                       *)

Stuck == interpreter!Fail \/ interpreter!Undefined

Returns == {frames[f].ret : f \in DOMAIN frames} \union {-1}
Moves ==
  /\ {frames'[f].ret : f \in DOMAIN frames'} \subseteq Returns \union Flow(ip)
  /\ \/ status' # "running"
     \/ ip' \in Returns \union Flow(ip)
     \/ code[ip].op = "CALLC" /\ \E o \in DOMAIN heap : heap[o].type = "closure"
Builds ==
  \A o \in DOMAIN heap' : heap'[o].type = "closure" =>
    \/ o \in DOMAIN heap /\ heap[o].type = "closure" /\ heap'[o].elems[1] = heap[o].elems[1]
    \/ /\ code[ip].op = "CLOSURE" /\ frames # << >>
       /\ heap'[o].elems[1] = interpreter!Int32(code[ip].a)
Stepped == ITypes' /\ Moves /\ Builds

LEMMA GoodMore ==
  ASSUME NEW h, NEW k, DOMAIN h \subseteq DOMAIN k, NEW v, Good(v, h)
  PROVE  Good(v, k)
BY DEF Good

LEMMA Sequence ==
  ASSUME NEW s, IsSequence(s)
  PROVE  /\ Len(s) \in Nat /\ DOMAIN s = 1..Len(s)
         /\ \A V : (\A i \in DOMAIN s : s[i] \in V) => s \in Seq(V)
<1>1. Len(s) \in Nat /\ DOMAIN s = 1..Len(s)
  BY LenProperties, Zenon DEF IsSequence
<1>2. ASSUME NEW V, \A i \in DOMAIN s : s[i] \in V
      PROVE  s \in Seq(V)
  <2>1. s \in [1..Len(s) -> V]
    <3>1. s \in [1..Len(s) -> {s[i] : i \in DOMAIN s}]
      BY <1>1 DEF IsSequence
    <3> QED
      BY <1>1, <1>2, <3>1
  <2> QED
    BY <1>1, <2>1, SeqDef
<1> QED
  BY <1>1, <1>2

LEMMA IsSequenceRule ==
  ASSUME NEW V, NEW s \in Seq(V)
  PROVE  IsSequence(s)
<1>1. Len(s) \in Nat /\ DOMAIN s = 1..Len(s) /\ s \in [1..Len(s) -> V]
  BY LenProperties
<1>2. s \in [1..Len(s) -> {s[i] : i \in DOMAIN s}]
  BY <1>1
<1> QED
  BY <1>1, <1>2, SeqDef DEF IsSequence

(* A list of given length is a sequence.                                   *)
LEMMA ListIsSequence ==
  ASSUME NEW n \in Nat, NEW f, f = [i \in 1..n |-> f[i]]
  PROVE  IsSequence(f) /\ Len(f) = n
<1>1. DOMAIN f = 1..n /\ f \in [1..n -> {f[i] : i \in DOMAIN f}]
  OBVIOUS
<1>2. IsSequence(f)
  BY <1>1, SeqDef DEF IsSequence
<1>3. Len(f) = n
  BY <1>1, <1>2 DEF IsSequence
<1> QED
  BY <1>2, <1>3

LEMMA ObjectAdded ==
  ASSUME NEW h, GoodHeap(h), NEW object,
         object = [type |-> object.type, tag |-> object.tag, elems |-> object.elems],
         IsSequence(object.elems),
         \A i \in DOMAIN object.elems : Good(object.elems[i], h),
         object.type = "closure" => 1 \in DOMAIN object.elems
  PROVE  /\ GoodHeap(Append(h, object))
         /\ DOMAIN Append(h, object) = DOMAIN h \union {Len(h) + 1}
         /\ \A o \in DOMAIN h : Append(h, object)[o] = h[o]
         /\ Append(h, object)[Len(h) + 1] = object
<1> DEFINE V == {h[i] : i \in DOMAIN h} \union {object}
           k == Append(h, object)
<1>1. IsSequence(h) /\ Len(h) \in Nat /\ DOMAIN h = 1..Len(h) /\ h \in Seq(V)
  BY Sequence DEF GoodHeap
<1>2. object \in V
  OBVIOUS
<1> HIDE DEF V, k
<1>3. /\ k \in Seq(V) /\ Len(k) = Len(h) + 1
      /\ \A i \in 1..Len(h) : k[i] = h[i]
      /\ k[Len(h) + 1] = object
  BY <1>1, <1>2, OneAppended DEF k
<1>4. DOMAIN k = DOMAIN h \union {Len(h) + 1}
  BY <1>1, <1>3, LenProperties
<1>5. ASSUME NEW o \in DOMAIN k PROVE GoodObject(k[o], k)
  <2>1. CASE o \in DOMAIN h
    <3>1. k[o] = h[o] /\ GoodObject(h[o], h)
      BY <1>1, <1>3, <2>1 DEF GoodHeap
    <3> QED
      BY <1>4, <3>1, GoodMore DEF GoodObject
  <2>2. CASE o = Len(h) + 1
    BY <1>3, <1>4, <2>2, GoodMore DEF GoodObject
  <2> QED
    BY <1>4, <2>1, <2>2
<1>6. GoodHeap(k)
  BY <1>3, <1>5, IsSequenceRule DEF GoodHeap
<1> QED
  BY <1>1, <1>3, <1>4, <1>6 DEF k

(* Storing an element, which leaves a heap alone that has no such object.  *)
Storing(h, o, f, v) == [h EXCEPT ![o].elems[f] = v]

LEMMA ElementStored ==
  ASSUME NEW h, GoodHeap(h), NEW o, NEW f, NEW v, Good(v, h),
         f # 1 \/ (o \in DOMAIN h => h[o].type # "closure")
  PROVE  LET k == Storing(h, o, f, v)
         IN  /\ GoodHeap(k) /\ DOMAIN k = DOMAIN h
             /\ \A x \in DOMAIN h :
                  /\ k[x].type = h[x].type
                  /\ h[x].type = "closure" => k[x].elems[1] = h[x].elems[1]
<1> DEFINE k == Storing(h, o, f, v)
<1> USE DEF Storing
<1>1. DOMAIN k = DOMAIN h /\ Len(h) \in Nat /\ DOMAIN h = 1..Len(h)
  BY Sequence DEF GoodHeap
<1>2. k = [i \in 1..Len(h) |-> k[i]]
  <2>1. h \in [1..Len(h) -> {h[i] : i \in DOMAIN h}]
    BY <1>1 DEF GoodHeap, IsSequence
  <2> QED
    BY <1>1, <2>1
<1> HIDE DEF k, Storing
<1>3. IsSequence(k)
  BY <1>1, <1>2, ListIsSequence
<1>4. \A y : Good(y, h) => Good(y, k)
  BY <1>1 DEF Good
<1>5. ASSUME NEW x \in DOMAIN h
      PROVE  /\ GoodObject(k[x], k) /\ k[x].type = h[x].type
             /\ h[x].type = "closure" => k[x].elems[1] = h[x].elems[1]
  <2>1. GoodObject(h[x], h)
    BY DEF GoodHeap
  <2>2. CASE x # o
    <3>1. k[x] = h[x]
      BY <2>2 DEF k, Storing
    <3> QED
      BY <1>4, <2>1, <3>1, Zenon DEF GoodObject
  <2>3. CASE x = o
    <3> DEFINE e == h[x].elems
               d == [e EXCEPT ![f] = v]
    <3>1. k[x] = [h[x] EXCEPT !.elems = d]
      BY <2>3 DEF k, Storing
    <3>2. IsSequence(e) /\ \A i \in DOMAIN e : Good(e[i], h)
      BY <2>1 DEF GoodObject
    <3>3. h[x] = [type |-> h[x].type, tag |-> h[x].tag, elems |-> e]
      BY <2>1 DEF GoodObject
    <3> HIDE DEF e
    <3>4. Len(e) \in Nat /\ DOMAIN e = 1..Len(e) /\ DOMAIN d = DOMAIN e
      BY <3>2, Sequence
    <3>5. d = [i \in 1..Len(e) |-> d[i]]
      BY <3>4
    <3>6. \A i \in DOMAIN d : d[i] = IF i = f THEN v ELSE e[i]
      BY <3>4
    <3> HIDE DEF d
    <3>7. IsSequence(d) /\ \A i \in DOMAIN d : Good(d[i], h)
      BY <3>2, <3>4, <3>5, <3>6, ListIsSequence
    <3>8. k[x] = [type |-> h[x].type, tag |-> h[x].tag, elems |-> d]
      BY <3>1, <3>3
    <3>9. k[x].type = h[x].type /\ k[x].tag = h[x].tag /\ k[x].elems = d
      BY <3>8
    <3>10. k[x] = [type |-> k[x].type, tag |-> k[x].tag, elems |-> k[x].elems]
      BY <3>8, <3>9, Zenon
    <3>11. h[x].type = "closure" => 1 \in DOMAIN e
      BY <2>1, Zenon DEF GoodObject, e
    <3>12. h[x].type = "closure" => d[1] = e[1] /\ 1 \in DOMAIN d
      BY <2>3, <3>4, <3>6, <3>11
    <3> QED
      BY <1>4, <3>7, <3>9, <3>10, <3>12, Zenon DEF GoodObject, e
  <2> QED
    BY <2>2, <2>3
<1> QED
  BY <1>1, <1>3, <1>5 DEF GoodHeap, k

LEMMA WordsWritten ==
  ASSUME NEW h, GoodHeap(h), NEW bottom, NEW vals, \A i \in DOMAIN vals : Good(vals[i], h),
         GoodStack(stack, h)
  PROVE  GoodStack(interpreter!Written(bottom, vals), h)
<1> DEFINE w == interpreter!Written(bottom, vals)
<1>1. w = [c \in interpreter!Cells |-> IF c - bottom + 1 \in DOMAIN vals
                                        THEN vals[c - bottom + 1] ELSE stack[c]]
  BY DEF interpreter!Written
<1> HIDE DEF w
<1>2. w = [c \in interpreter!Cells |-> w[c]]
  BY <1>1
<1>3. \A c \in interpreter!Cells : Good(w[c], h)
  <2>1. \A c \in interpreter!Cells : w[c] = IF c - bottom + 1 \in DOMAIN vals
                                            THEN vals[c - bottom + 1] ELSE stack[c]
    BY <1>1
  <2>2. \A c \in interpreter!Cells : Good(stack[c], h)
    BY DEF GoodStack
  <2> QED
    BY <2>1, <2>2, Zenon
<1> QED
  BY <1>2, <1>3, Zenon DEF GoodStack, w

LEMMA CellStored ==
  ASSUME NEW s, NEW h, GoodStack(s, h), NEW v, Good(v, h), NEW c
  PROVE  GoodStack([s EXCEPT ![c] = v], h)
<1> DEFINE w == [s EXCEPT ![c] = v]
<1>1. s = [x \in interpreter!Cells |-> s[x]] /\ \A x \in interpreter!Cells : Good(s[x], h)
  BY DEF GoodStack
<1>2. w = [x \in interpreter!Cells |-> w[x]]
      /\ \A x \in interpreter!Cells : w[x] = IF x = c THEN v ELSE s[x]
  BY <1>1
<1> HIDE DEF w
<1>3. \A x \in interpreter!Cells : Good(w[x], h)
  BY <1>1, <1>2, Zenon
<1> QED
  BY <1>2, <1>3, Zenon DEF GoodStack, w

LEMMA StackMore ==
  ASSUME NEW s, NEW h, NEW k, DOMAIN h \subseteq DOMAIN k, GoodStack(s, h)
  PROVE  GoodStack(s, k)
BY DEF GoodStack, Good

(* A validation that fails, and what nothing is said of.                   *)
LEMMA StuckStep ==
  ASSUME ITypes, Stuck
  PROVE  Stepped
<1>1. /\ UNCHANGED <<code, ip, frames, stack, size, is_tmp_closure, heap>>
      /\ status' \in {"failed", "undefined"}
  BY DEF Stuck, interpreter!Fail, interpreter!Undefined
<1>2. ITypes'
  BY <1>1 DEF ITypes
<1>3. Moves /\ Builds
  BY <1>1 DEF Moves, Builds, Returns
<1> QED
  BY <1>2, <1>3 DEF Stepped

(* An instruction that goes on to the next one.                            *)
Straight == code[ip].op \notin {"JMP", "END", "RET", "FAIL"}

LEMMA OnwardStep ==
  ASSUME ITypes, Straight, ip' = ip + 1, frames' = frames,
         status' = status, is_tmp_closure' = is_tmp_closure, size' \in Nat,
         GoodHeap(heap'), GoodStack(stack', heap'), Builds
  PROVE  Stepped
<1>1. ITypes'
  BY DEF ITypes
<1>2. Moves
  BY DEF Moves, Returns, Flow, Straight
<1> QED
  BY <1>1, <1>2 DEF Stepped

(* One that pushes values in place of those on top.                        *)
LEMMA PushStep ==
  ASSUME ITypes, Straight, NEW n \in 0..size, NEW V, NEW vals \in Seq(V),
         interpreter!Push(n, vals), \A i \in DOMAIN vals : Good(vals[i], heap'),
         GoodHeap(heap'), DOMAIN heap \subseteq DOMAIN heap', Builds
  PROVE  Stepped
<1>1. CASE interpreter!Trap
  BY <1>1, StuckStep DEF interpreter!Trap, Stuck
<1>2. CASE ~interpreter!Trap
  <2>1. /\ stack' = interpreter!Written(size - n, vals)
        /\ size' = size - n + Len(vals)
        /\ ip' = ip + 1 /\ frames' = frames
        /\ UNCHANGED <<is_tmp_closure, status>>
    BY <1>2, Zenon DEF interpreter!Push, interpreter!PushAt
  <2>2. size' \in Nat
    <3>1. Len(vals) \in Nat
      BY LenProperties
    <3> QED
      BY <2>1, <3>1 DEF ITypes
  <2>3. GoodStack(stack', heap')
    <3>1. GoodStack(stack, heap')
      BY StackMore DEF ITypes
    <3> QED
      BY <2>1, <3>1, WordsWritten
  <2> QED
    BY <2>1, <2>2, <2>3, OnwardStep
<1> QED
  BY <1>1, <1>2

LEMMA ReplaceStep ==
  ASSUME ITypes, Straight, NEW n \in 0..size, NEW v, Good(v, heap),
         interpreter!Replace(n, <<v>>)
  PROVE  Stepped
<1>1. <<v>> \in Seq({v}) /\ \A i \in DOMAIN <<v>> : <<v>>[i] = v
  OBVIOUS
<1>2. interpreter!Push(n, <<v>>) /\ heap' = heap
  BY Zenon DEF interpreter!Replace
<1>3. Builds /\ GoodHeap(heap') /\ DOMAIN heap \subseteq DOMAIN heap'
  BY <1>2 DEF Builds, ITypes
<1>4. \A i \in DOMAIN <<v>> : Good(<<v>>[i], heap')
  BY <1>1, <1>2
<1> QED
  BY <1>1, <1>2, <1>3, <1>4, PushStep

LEMMA AllocateStep ==
  ASSUME ITypes, Straight, NEW n \in 0..size, NEW object,
         object = [type |-> object.type, tag |-> object.tag, elems |-> object.elems],
         IsSequence(object.elems), \A i \in DOMAIN object.elems : Good(object.elems[i], heap),
         object.type # "closure",
         interpreter!Allocate(n, object)
  PROVE  Stepped
<1>1. CASE interpreter!Trap
  BY <1>1, StuckStep DEF interpreter!Trap, Stuck
<1>2. CASE ~interpreter!Trap
  <2> DEFINE v == interpreter!Ref(Len(heap) + 1)
  <2>1. heap' = Append(heap, object) /\ interpreter!Push(n, <<v>>)
    BY <1>2, Zenon DEF interpreter!Allocate, interpreter!New
  <2>2. /\ GoodHeap(heap') /\ DOMAIN heap' = DOMAIN heap \union {Len(heap) + 1}
        /\ \A o \in DOMAIN heap : heap'[o] = heap[o]
        /\ heap'[Len(heap) + 1] = object
    BY <2>1, ObjectAdded DEF ITypes
  <2>3. Builds
    BY <2>2 DEF Builds
  <2>4. Good(v, heap')
    BY <2>2 DEF Good, interpreter!Ref
  <2> HIDE DEF v
  <2>5. <<v>> \in Seq({v}) /\ \A i \in DOMAIN <<v>> : <<v>>[i] = v
    OBVIOUS
  <2>6. \A i \in DOMAIN <<v>> : Good(<<v>>[i], heap')
    BY <2>4, <2>5
  <2> QED
    BY <2>1, <2>2, <2>3, <2>5, <2>6, PushStep
<1> QED
  BY <1>1, <1>2

(* Values: what is computed, what is on the stack, and variables.          *)
LEMMA ComputedGood ==
  /\ \A n : Good(interpreter!Int32(n), heap)
  /\ \A c : Good(interpreter!CellRef(c), heap)
  /\ \A o, f : f # 1 => Good(interpreter!FieldRef(o, f), heap)
  /\ \A b : Good(interpreter!Bool(b), heap)
  /\ Good(interpreter!Raw, heap)
BY DEF Good, interpreter!Int32, interpreter!CellRef, interpreter!FieldRef, interpreter!Bool,
       interpreter!Raw

LEMMA BinopGood ==
  ASSUME NEW op \in Arithmetic, NEW x, NEW y
  PROVE  Good(interpreter!Binop(op, x, y), heap)
<1> DEFINE v == interpreter!Binop(op, x, y)
<1>1. (\E n : v = interpreter!Int32(n)) \/ (\E b : v = interpreter!Bool(b))
  BY DEF interpreter!Binop, Arithmetic
<1> HIDE DEF v
<1>2. Good(v, heap)
  BY <1>1, ComputedGood, Zenon
<1> QED
  BY <1>2 DEF v

LEMMA TopGood ==
  ASSUME ITypes, size <= MaxStack, NEW k \in Nat, k < size
  PROVE  Good(interpreter!Top(k), heap)
<1>1. size - 1 - k \in interpreter!Cells
  BY VerifierAssumption DEF ITypes, interpreter!Cells
<1> QED
  BY <1>1, Zenon DEF interpreter!Top, ITypes, GoodStack

LEMMA ElementGood ==
  ASSUME ITypes, NEW v, Good(v, heap), interpreter!is_object(v), NEW i \in DOMAIN interpreter!Elems(v)
  PROVE  Good(interpreter!Elems(v)[i], heap)
<1>1. v.at \in DOMAIN heap
  BY DEF Good, interpreter!is_object
<1>2. GoodObject(heap[v.at], heap)
  BY <1>1 DEF ITypes, GoodHeap
<1> QED
  BY <1>2, Zenon DEF GoodObject, interpreter!Elems

LEMMA ElementsType ==
  ASSUME ITypes, NEW v, Good(v, heap), interpreter!is_object(v)
  PROVE  /\ v.at \in DOMAIN heap
         /\ Len(interpreter!Elems(v)) \in Nat
         /\ DOMAIN interpreter!Elems(v) = 1..Len(interpreter!Elems(v))
<1>1. v.at \in DOMAIN heap
  BY DEF Good, interpreter!is_object
<1>2. IsSequence(heap[v.at].elems)
  BY <1>1 DEF ITypes, GoodHeap, GoodObject
<1> QED
  BY <1>1, <1>2, Sequence DEF interpreter!Elems

(* A captured value comes after the entry point.                           *)
LEMMA CapturedField ==
  ASSUME ITypes, NEW pos, interpreter!HasCell("CAPTURED", pos), interpreter!CaptureValid(pos)
  PROVE  pos \in Nat /\ pos + 2 # 1
<1> DEFINE v == interpreter!FrameClosure
           e == interpreter!Elems(v)
<1>1. /\ interpreter!ClosureCell \in interpreter!Cells /\ interpreter!is_object(v)
      /\ pos \in 0..(Len(e) - 2)
  BY DEF interpreter!HasCell, interpreter!CaptureValid, interpreter!Is
<1>2. Good(v, heap)
  BY <1>1, Zenon DEF interpreter!FrameClosure, ITypes, GoodStack
<1>3. Len(e) \in Nat
  BY <1>1, <1>2, ElementsType
<1> HIDE DEF e
<1> QED
  BY <1>1, <1>3

LEMMA VariableGood ==
  ASSUME ITypes, NEW kind, NEW pos \in Int, interpreter!HasCell(kind, pos),
         kind = "CAPTURED" => interpreter!CaptureValid(pos)
  PROVE  Good(interpreter!ReadVar(kind, pos), heap)
<1>1. CASE kind = "CAPTURED"
  <2> DEFINE v == interpreter!FrameClosure
             e == interpreter!Elems(v)
  <2>1. /\ interpreter!ClosureCell \in interpreter!Cells /\ interpreter!is_object(v)
        /\ pos \in 0..(Len(e) - 2)
    BY <1>1 DEF interpreter!HasCell, interpreter!CaptureValid, interpreter!Is
  <2>2. Good(v, heap)
    BY <2>1, Zenon DEF interpreter!FrameClosure, ITypes, GoodStack
  <2>3. Len(e) \in Nat /\ DOMAIN e = 1..Len(e)
    BY <2>1, <2>2, ElementsType
  <2> HIDE DEF e
  <2>4. pos + 2 \in DOMAIN e
    BY <2>1, <2>3
  <2> HIDE DEF v
  <2>5. Good(e[pos + 2], heap)
    BY <2>1, <2>2, <2>4, ElementGood DEF e
  <2>6. interpreter!ReadVar(kind, pos) = e[pos + 2]
    BY <1>1 DEF interpreter!ReadVar, e, v
  <2> QED
    BY <2>5, <2>6
<1>2. CASE kind # "CAPTURED"
  <2>1. interpreter!CellOf(kind, pos) \in interpreter!Cells
    BY <1>2, Zenon DEF interpreter!HasCell
  <2>2. interpreter!ReadVar(kind, pos) = stack[interpreter!CellOf(kind, pos)]
    BY <1>2, Zenon DEF interpreter!ReadVar
  <2> QED
    BY <2>1, <2>2, Zenon DEF ITypes, GoodStack
<1> QED
  BY <1>1, <1>2

(* Instructions that compute a value.                                      *)
LEMMA StraightOps ==
  ASSUME NEW ops, interpreter!Running(ops), ops \subseteq Opcodes \ {"JMP", "END", "RET", "FAIL"}
  PROVE  Straight
BY DEF interpreter!Running, interpreter!I, Straight

(* The interpreter's own copies of what Bytecode defines.                  *)
LEMMA SameBytecode ==
  /\ interpreter!Arithmetic = Arithmetic /\ interpreter!References = References
  /\ interpreter!Patterns = Patterns /\ interpreter!Loads = Loads
  /\ interpreter!Stores = Stores /\ interpreter!CondJumps = CondJumps
  /\ interpreter!Begins = Begins
  /\ \A op : interpreter!KindOf(op) = KindOf(op)
BY DEF interpreter!Arithmetic, Arithmetic, interpreter!References, References,
       interpreter!Patterns, Patterns, interpreter!Loads, Loads, interpreter!Stores, Stores,
       interpreter!CondJumps, CondJumps, interpreter!Begins, Begins, interpreter!KindOf, KindOf,
       interpreter!Captures, Captures

Computable == Opcodes \ {"JMP", "END", "RET", "FAIL"}
Computed(n) ==
  /\ ~(size < n) /\ interpreter!I.op \in Computable
  /\ \E v : Good(v, heap) /\ interpreter!Replace(n, <<v>>)

LEMMA ComputedStep ==
  ASSUME ITypes, NEW n \in Nat, Computed(n)
  PROVE  Stepped
<1>1. n \in 0..size
  BY DEF ITypes, Computed
<1>2. Straight
  BY DEF Computed, Computable, Straight, interpreter!I
<1> QED
  BY <1>1, <1>2, ReplaceStep, Zenon DEF Computed

(* Instructions that compute a value from those on top.                    *)
LEMMA ComputingStep ==
  ASSUME ITypes, IsCode(code), ip \in DOMAIN code,
         \/ interpreter!ExecuteBinop \/ interpreter!ExecuteLowEq \/ interpreter!ExecuteConst
         \/ interpreter!ExecuteLength \/ interpreter!ExecuteReference
         \/ interpreter!ExecuteTag \/ interpreter!ExecuteArray \/ interpreter!ExecutePattStr
         \/ interpreter!ExecutePattern \/ interpreter!ExecuteRead \/ interpreter!ExecuteWrite
  PROVE  Stepped
<1>1. ASSUME NEW ops, interpreter!I.op \in ops, ops \subseteq Computable
      PROVE  interpreter!I.op \in Computable
  BY <1>1
<1>2. /\ Arithmetic \subseteq Computable /\ References \subseteq Computable
      /\ Patterns \subseteq Computable
      /\ {"LOW_EQ"} \subseteq Computable /\ {"CONST"} \subseteq Computable
      /\ {"CALL_LLENGTH"} \subseteq Computable /\ {"TAG"} \subseteq Computable
      /\ {"ARRAY"} \subseteq Computable /\ {"PATT_STR"} \subseteq Computable
      /\ {"CALL_LREAD"} \subseteq Computable /\ {"CALL_LWRITE"} \subseteq Computable
  BY DEF Computable, Opcodes, Arithmetic, References, Patterns
<1>3. CASE interpreter!ExecuteBinop
  <2>1. interpreter!I.op \in Arithmetic
    BY <1>3, SameBytecode, Zenon DEF interpreter!ExecuteBinop, interpreter!Execute, interpreter!Running
  <2>2. Good(interpreter!Binop(interpreter!I.op, interpreter!Top(1).at, interpreter!Top(0).at), heap)
    BY <2>1, BinopGood
  <2>3. Stuck \/ Computed(2)
    BY <1>1, <1>2, <1>3, <2>1, <2>2, Zenon DEF interpreter!ExecuteBinop, interpreter!Execute,
       interpreter!Trap, Stuck, Computed
  <2> QED
    BY <2>3, StuckStep, ComputedStep
<1>4. CASE interpreter!ExecuteLowEq
  <2>1. Stuck \/ Computed(2)
    BY <1>1, <1>2, <1>4, ComputedGood, Zenon DEF interpreter!ExecuteLowEq, interpreter!Execute,
       interpreter!Running, interpreter!Trap, Stuck, Computed
  <2> QED
    BY <2>1, StuckStep, ComputedStep
<1>5. CASE interpreter!ExecuteConst
  <2>1. Stuck \/ Computed(0)
    BY <1>1, <1>2, <1>5, ComputedGood, Zenon DEF interpreter!ExecuteConst, interpreter!Execute,
       interpreter!Running, interpreter!Trap, Stuck, Computed
  <2> QED
    BY <2>1, StuckStep, ComputedStep
<1>6. CASE interpreter!ExecuteLength
  <2>1. Stuck \/ Computed(1)
    BY <1>1, <1>2, <1>6, ComputedGood, Zenon DEF interpreter!ExecuteLength, interpreter!Execute,
       interpreter!Running, interpreter!Trap, Stuck, Computed
  <2> QED
    BY <2>1, StuckStep, ComputedStep
<1>7. CASE interpreter!ExecuteTag
  <2>1. Stuck \/ Computed(1)
    BY <1>1, <1>2, <1>7, ComputedGood, Zenon DEF interpreter!ExecuteTag, interpreter!Execute,
       interpreter!Running, interpreter!Trap, Stuck, Computed
  <2> QED
    BY <2>1, StuckStep, ComputedStep
<1>8. CASE interpreter!ExecuteArray
  <2>1. Stuck \/ Computed(1)
    BY <1>1, <1>2, <1>8, ComputedGood, Zenon DEF interpreter!ExecuteArray, interpreter!Execute,
       interpreter!Running, interpreter!Trap, Stuck, Computed
  <2> QED
    BY <2>1, StuckStep, ComputedStep
<1>9. CASE interpreter!ExecutePattStr
  <2>1. Stuck \/ Computed(2)
    BY <1>1, <1>2, <1>9, ComputedGood, Zenon DEF interpreter!ExecutePattStr, interpreter!Execute,
       interpreter!Running, interpreter!Trap, Stuck, Computed
  <2> QED
    BY <2>1, StuckStep, ComputedStep
<1>10. CASE interpreter!ExecutePattern
  <2>1. Stuck \/ Computed(1)
    BY <1>1, <1>2, <1>10, ComputedGood, SameBytecode, Zenon DEF interpreter!ExecutePattern, interpreter!Execute,
       interpreter!Running, interpreter!Trap, Stuck, Computed
  <2> QED
    BY <2>1, StuckStep, ComputedStep
<1>11. CASE interpreter!ExecuteRead
  <2>1. Stuck \/ Computed(0)
    BY <1>1, <1>2, <1>11, ComputedGood, Zenon DEF interpreter!ExecuteRead, interpreter!Execute,
       interpreter!Running, interpreter!Trap, Stuck, Computed
  <2> QED
    BY <2>1, StuckStep, ComputedStep
<1>12. CASE interpreter!ExecuteWrite
  <2>1. Stuck \/ Computed(1)
    BY <1>1, <1>2, <1>12, ComputedGood, Zenon DEF interpreter!ExecuteWrite, interpreter!Execute,
       interpreter!Running, interpreter!Trap, Stuck, Computed
  <2> QED
    BY <2>1, StuckStep, ComputedStep
<1>13. CASE interpreter!ExecuteReference
  <2> DEFINE v == IF interpreter!I.op = "LDA_CAPTURED"
                  THEN interpreter!FieldRef(interpreter!FrameClosure.at, interpreter!I.a + 2)
                  ELSE interpreter!CellRef(interpreter!CellOf(KindOf(interpreter!I.op), interpreter!I.a))
  <2>1. Stuck \/ /\ ~(size < 0) /\ interpreter!I.op \in References
                 /\ interpreter!HasCell(KindOf(interpreter!I.op), interpreter!I.a)
                 /\ interpreter!I.op = "LDA_CAPTURED" => interpreter!CaptureValid(interpreter!I.a)
                 /\ interpreter!Replace(0, <<v>>)
    BY <1>13, SameBytecode, Zenon DEF interpreter!ExecuteReference, interpreter!Execute,
       interpreter!Running, interpreter!Trap, Stuck
  <2>2. CASE ~Stuck
    <3>1. interpreter!I.op = "LDA_CAPTURED" => interpreter!I.a + 2 # 1
      <4>1. interpreter!I.op = "LDA_CAPTURED" => KindOf(interpreter!I.op) = "CAPTURED"
        BY DEF KindOf, Captures
      <4> QED
        BY <2>1, <2>2, <4>1, CapturedField
    <3>2. Good(v, heap)
      BY <3>1, ComputedGood, Zenon
    <3> HIDE DEF v
    <3>3. Computed(0)
      BY <1>1, <1>2, <2>1, <2>2, <3>2, Zenon DEF Computed
    <3> QED
      BY <3>3, ComputedStep
  <2> QED
    BY <2>2, StuckStep
<1> QED
  BY <1>3, <1>4, <1>5, <1>6, <1>7, <1>8, <1>9, <1>10, <1>11, <1>12, <1>13

(* Instructions that copy a value.                                         *)
LEMMA CopyingStep ==
  ASSUME ITypes, IsCode(code), ip \in DOMAIN code,
         interpreter!ExecuteElem \/ interpreter!ExecuteDup \/ interpreter!ExecuteLoad
  PROVE  Stepped
<1>1. \A op \in {"ELEM", "DUP"} \union Loads : op \in Computable
  BY DEF Computable, Opcodes, Loads
<1>2. CASE interpreter!ExecuteElem
  <2> DEFINE v == interpreter!Top(1)
             i == interpreter!Top(0).at
  <2>1. Stuck \/ /\ ~(size < 2) /\ ~(size > MaxStack) /\ interpreter!I.op = "ELEM"
                 /\ interpreter!is_aggregate(v) /\ i \in 0..(Len(interpreter!Elems(v)) - 1)
                 /\ interpreter!Replace(2, <<interpreter!Elems(v)[i + 1]>>)
    BY <1>2 DEF interpreter!ExecuteElem, interpreter!Execute, interpreter!Running,
       interpreter!Trap, Stuck
  <2>2. CASE Stuck
    BY <2>2, StuckStep
  <2>3. CASE ~Stuck
    <3>1. size <= MaxStack /\ 1 < size
      BY <2>1, <2>3, VerifierAssumption DEF ITypes
    <3>2. Good(v, heap) /\ interpreter!is_object(v)
      BY <2>1, <2>3, <3>1, TopGood DEF interpreter!is_aggregate
    <3>3. i + 1 \in DOMAIN interpreter!Elems(v)
      BY <2>1, <2>3, <3>2, ElementsType
    <3> HIDE DEF v
    <3>4. Good(interpreter!Elems(v)[i + 1], heap)
      BY <3>2, <3>3, ElementGood
    <3> HIDE DEF i
    <3>5. Computed(2)
      BY <1>1, <2>1, <2>3, <3>4, Zenon DEF Computed
    <3> QED
      BY <3>5, ComputedStep
  <2> QED
    BY <2>2, <2>3
<1>3. CASE interpreter!ExecuteDup
  <2>1. Stuck \/ /\ ~(size < 0) /\ size \in 1..MaxStack /\ interpreter!I.op = "DUP"
                 /\ interpreter!Replace(0, <<interpreter!Top(0)>>)
    BY <1>3, Zenon DEF interpreter!ExecuteDup, interpreter!Execute, interpreter!Running,
       interpreter!Trap, Stuck
  <2>2. CASE Stuck
    BY <2>2, StuckStep
  <2>3. CASE ~Stuck
    <3>1. size <= MaxStack /\ 0 < size
      BY <2>1, <2>3, VerifierAssumption DEF ITypes
    <3>2. Good(interpreter!Top(0), heap)
      BY <3>1, TopGood
    <3>3. Computed(0)
      BY <1>1, <2>1, <2>3, <3>2, Zenon DEF Computed
    <3> QED
      BY <3>3, ComputedStep
  <2> QED
    BY <2>2, <2>3
<1>4. CASE interpreter!ExecuteLoad
  <2> DEFINE kind == KindOf(interpreter!I.op)
             pos == interpreter!I.a
  <2>1. Stuck \/ /\ ~(size < 0) /\ interpreter!I.op \in Loads
                 /\ interpreter!HasCell(kind, pos)
                 /\ kind = "CAPTURED" => interpreter!CaptureValid(pos)
                 /\ interpreter!Replace(0, <<interpreter!ReadVar(kind, pos)>>)
    BY <1>4, SameBytecode, Zenon DEF interpreter!ExecuteLoad, interpreter!Execute,
       interpreter!Running, interpreter!Trap, Stuck
  <2>2. CASE Stuck
    BY <2>2, StuckStep
  <2>3. CASE ~Stuck
    <3>1. pos \in Int
      BY CodeType DEF interpreter!I
    <3>2. Good(interpreter!ReadVar(kind, pos), heap)
      BY <2>1, <2>3, <3>1, VariableGood
    <3>3. Computed(0)
      BY <1>1, <2>1, <2>3, <3>2, Zenon DEF Computed
    <3> QED
      BY <3>3, ComputedStep
  <2> QED
    BY <2>2, <2>3
<1> QED
  BY <1>2, <1>3, <1>4

LEMMA StackingStep ==
  ASSUME ITypes, interpreter!ExecuteSwap \/ interpreter!ExecuteDrop
  PROVE  Stepped
<1>1. CASE interpreter!ExecuteDrop
  <2>1. Stuck \/ /\ ~(size < 1) /\ interpreter!I.op = "DROP" /\ interpreter!Replace(1, << >>)
    BY <1>1, Zenon DEF interpreter!ExecuteDrop, interpreter!Execute, interpreter!Running,
       interpreter!Trap, Stuck
  <2>2. CASE Stuck
    BY <2>2, StuckStep
  <2>3. CASE ~Stuck
    <3>1. 1 \in 0..size /\ Straight /\ interpreter!Push(1, << >>) /\ heap' = heap
      BY <2>1, <2>3 DEF ITypes, Straight, interpreter!I, interpreter!Replace
    <3>2. << >> \in Seq({}) /\ DOMAIN << >> = {}
      OBVIOUS
    <3>3. Builds /\ GoodHeap(heap') /\ DOMAIN heap \subseteq DOMAIN heap'
      BY <3>1 DEF Builds, ITypes
    <3> QED
      BY <3>1, <3>2, <3>3, PushStep
  <2> QED
    BY <2>2, <2>3
<1>2. CASE interpreter!ExecuteSwap
  <2> DEFINE x == interpreter!Top(1)
             y == interpreter!Top(0)
  <2>1. Stuck \/ /\ ~(size < 2) /\ ~(size > MaxStack) /\ interpreter!I.op = "SWAP"
                 /\ interpreter!Replace(2, <<x, y>>)
    BY <1>2 DEF interpreter!ExecuteSwap, interpreter!Execute, interpreter!Running,
       interpreter!Trap, Stuck
  <2>2. CASE Stuck
    BY <2>2, StuckStep
  <2>3. CASE ~Stuck
    <3>1. 2 \in 0..size /\ Straight /\ interpreter!Push(2, <<x, y>>) /\ heap' = heap
      BY <2>1, <2>3 DEF ITypes, Straight, interpreter!I, interpreter!Replace
    <3>2. size <= MaxStack /\ 1 < size /\ 0 < size
      BY <2>1, <2>3, VerifierAssumption DEF ITypes
    <3>3. Good(x, heap) /\ Good(y, heap)
      BY <3>2, TopGood
    <3> HIDE DEF x, y
    <3>4. <<x, y>> \in Seq({x, y}) /\ \A i \in DOMAIN <<x, y>> : <<x, y>>[i] \in {x, y}
      OBVIOUS
    <3>5. \A i \in DOMAIN <<x, y>> : Good(<<x, y>>[i], heap')
      BY <3>1, <3>3, <3>4
    <3>6. Builds /\ GoodHeap(heap') /\ DOMAIN heap \subseteq DOMAIN heap'
      BY <3>1 DEF Builds, ITypes
    <3> QED
      BY <3>1, <3>4, <3>5, <3>6, PushStep
  <2> QED
    BY <2>2, <2>3
<1> QED
  BY <1>1, <1>2

(* Instructions that make an object.                                       *)
LEMMA TextElements ==
  ASSUME NEW chars \in Seq(Int)
  PROVE  LET object == interpreter!Text(chars)
         IN  /\ object = [type |-> object.type, tag |-> object.tag, elems |-> object.elems]
             /\ object.type = "string" /\ IsSequence(object.elems)
             /\ \A i \in DOMAIN object.elems : Good(object.elems[i], heap)
<1> DEFINE e == [c \in DOMAIN chars |-> interpreter!Int32(chars[c])]
<1>1. interpreter!Text(chars) = [type |-> "string", tag |-> 0, elems |-> e]
  BY DEF interpreter!Text, interpreter!Object
<1>2. Len(chars) \in Nat /\ DOMAIN chars = 1..Len(chars)
  BY LenProperties
<1>3. e = [i \in 1..Len(chars) |-> e[i]]
  BY <1>2
<1>4. \A i \in DOMAIN e : Good(e[i], heap)
  BY DEF Good, interpreter!Int32
<1> HIDE DEF e
<1>5. IsSequence(e)
  BY <1>2, <1>3, ListIsSequence
<1> DEFINE object == interpreter!Text(chars)
<1>6. object.type = "string" /\ object.tag = 0 /\ object.elems = e
  BY <1>1
<1>7. object = [type |-> object.type, tag |-> object.tag, elems |-> object.elems]
  BY <1>1, <1>6
<1> QED
  BY <1>4, <1>5, <1>6, <1>7

LEMMA WordsTaken ==
  ASSUME ITypes, size <= MaxStack, NEW n \in 0..size
  PROVE  /\ IsSequence(interpreter!Under(n))
         /\ \A i \in DOMAIN interpreter!Under(n) : Good(interpreter!Under(n)[i], heap)
<1> DEFINE u == interpreter!Under(n)
<1>1. u = [k \in 1..n |-> stack[size - n + k - 1]]
  BY DEF interpreter!Under
<1>2. n \in Nat /\ size \in Nat /\ MaxStack \in Nat
  BY VerifierAssumption DEF ITypes
<1>3. \A k \in 1..n : size - n + k - 1 \in interpreter!Cells
  BY <1>2 DEF interpreter!Cells
<1>4. \A c \in interpreter!Cells : Good(stack[c], heap)
  BY DEF ITypes, GoodStack
<1> HIDE DEF u
<1>5. DOMAIN u = 1..n /\ u = [k \in 1..n |-> u[k]]
      /\ \A k \in 1..n : u[k] = stack[size - n + k - 1]
  BY <1>1
<1>6. \A k \in 1..n : Good(u[k], heap)
  BY <1>3, <1>4, <1>5
<1> QED
  BY <1>2, <1>5, <1>6, ListIsSequence DEF u

LEMMA AllocatingStep ==
  ASSUME ITypes, IsCode(code), ip \in DOMAIN code,
         interpreter!ExecuteString \/ interpreter!ExecuteToString \/ interpreter!ExecuteBarray
  PROVE  Stepped
<1>1. CASE interpreter!ExecuteString
  <2> DEFINE a == interpreter!I.a
  <2>1. Stuck \/ /\ interpreter!I.op = "STRING" /\ a \in 0..(Len(StringTable) - 1)
                 /\ interpreter!Allocate(0, interpreter!Text(StringTable[a + 1]))
    BY <1>1, Zenon DEF interpreter!ExecuteString, interpreter!Execute, interpreter!Running,
       interpreter!Trap, Stuck
  <2>2. CASE Stuck
    BY <2>2, StuckStep
  <2>3. CASE ~Stuck
    <3>1. Straight /\ 0 \in 0..size
      BY <2>1, <2>3 DEF Straight, interpreter!I, ITypes
    <3>2. StringTable[a + 1] \in Seq(Int)
      BY <2>1, <2>3, InterpreterAssumption
    <3> DEFINE t == StringTable[a + 1]
    <3> HIDE DEF t
    <3>3. interpreter!Allocate(0, interpreter!Text(t))
      BY <2>1, <2>3, Zenon DEF t
    <3> QED
      BY <3>1, <3>2, <3>3, TextElements, AllocateStep DEF t
  <2> QED
    BY <2>2, <2>3
<1>2. CASE interpreter!ExecuteToString
  <2>1. Stuck \/ /\ interpreter!I.op = "CALL_LSTRING" /\ ~(size < 1)
                 /\ \E s \in interpreter!Range(StringTable) :
                      interpreter!Allocate(1, interpreter!Text(s))
    BY <1>2, Zenon DEF interpreter!ExecuteToString, interpreter!Execute, interpreter!Running,
       interpreter!Trap, Stuck
  <2>2. CASE Stuck
    BY <2>2, StuckStep
  <2>3. CASE ~Stuck
    <3>1. Straight /\ 1 \in 0..size
      BY <2>1, <2>3 DEF Straight, interpreter!I, ITypes
    <3>2. PICK s \in interpreter!Range(StringTable) : interpreter!Allocate(1, interpreter!Text(s))
      BY <2>1, <2>3
    <3>3. s \in Seq(Int)
      BY <3>2, InterpreterAssumption DEF interpreter!Range
    <3> QED
      BY <3>1, <3>2, <3>3, TextElements, AllocateStep
  <2> QED
    BY <2>2, <2>3
<1>3. CASE interpreter!ExecuteBarray
  <2> DEFINE n == interpreter!I.a
             o == interpreter!Object("array", 0, interpreter!Under(n))
  <2>1. Stuck \/ /\ interpreter!I.op = "CALL_BARRAY" /\ n \in 0..size /\ size <= MaxStack
                 /\ interpreter!Allocate(n, o)
    BY <1>3, Zenon DEF interpreter!ExecuteBarray, interpreter!Execute, interpreter!Running,
       interpreter!Trap, Stuck
  <2>2. CASE Stuck
    BY <2>2, StuckStep
  <2>3. CASE ~Stuck
    <3>1. Straight
      BY <2>1, <2>3 DEF Straight, interpreter!I
    <3> DEFINE e == interpreter!Under(n)
    <3>2. IsSequence(e) /\ \A i \in DOMAIN e : Good(e[i], heap)
      BY <2>1, <2>3, WordsTaken
    <3> HIDE DEF e
    <3>3. o = [type |-> "array", tag |-> 0, elems |-> e]
      BY DEF interpreter!Object, e
    <3> HIDE DEF o
    <3>4. o.type = "array" /\ o.tag = 0 /\ o.elems = e
      BY <3>3
    <3>5. o = [type |-> o.type, tag |-> o.tag, elems |-> o.elems]
      BY <3>3, <3>4
    <3> HIDE DEF n
    <3> QED
      BY <2>1, <2>3, <3>1, <3>2, <3>4, <3>5, AllocateStep
  <2> QED
    BY <2>2, <2>3
<1> QED
  BY <1>1, <1>2, <1>3

(* An object of good elements is made by SEXP and CLOSURE as well.         *)
LEMMA ObjectMade ==
  ASSUME ITypes, NEW object, NEW type, NEW tag, NEW elems,
         object = interpreter!Object(type, tag, elems), IsSequence(elems),
         \A i \in DOMAIN elems : Good(elems[i], heap),
         heap' = Append(heap, object),
         type = "closure" => /\ code[ip].op = "CLOSURE" /\ frames # << >> /\ 1 \in DOMAIN elems
                             /\ elems[1] = interpreter!Int32(code[ip].a)
  PROVE  /\ GoodHeap(heap') /\ DOMAIN heap \subseteq DOMAIN heap' /\ Builds
         /\ Good(interpreter!Ref(interpreter!New), heap') /\ GoodStack(stack, heap')
<1>1. object.type = type /\ object.tag = tag /\ object.elems = elems
      /\ object = [type |-> object.type, tag |-> object.tag, elems |-> object.elems]
  BY DEF interpreter!Object
<1>2. GoodHeap(heap)
  BY DEF ITypes
<1>3. /\ GoodHeap(heap') /\ DOMAIN heap' = DOMAIN heap \union {Len(heap) + 1}
      /\ \A o \in DOMAIN heap : heap'[o] = heap[o]
      /\ heap'[Len(heap) + 1] = object
  BY <1>1, <1>2, ObjectAdded
<1>4. Builds
  BY <1>1, <1>3 DEF Builds
<1>5. Good(interpreter!Ref(interpreter!New), heap')
  BY <1>3 DEF Good, interpreter!Ref, interpreter!New
<1>6. GoodStack(stack, heap')
  BY <1>3, StackMore DEF ITypes
<1> QED
  BY <1>3, <1>4, <1>5, <1>6

LEMMA SexpStep ==
  ASSUME ITypes, IsCode(code), ip \in DOMAIN code, interpreter!ExecuteSexp
  PROVE  Stepped
<1> DEFINE n == interpreter!I.b
           e == interpreter!Under(n)
           v == interpreter!Ref(interpreter!New)
           t == interpreter!Int32(interpreter!I.a)
<1>1. Stuck \/ /\ interpreter!I.op = "SEXP" /\ n \in 0..size /\ size < MaxStack
               /\ heap' = Append(heap, interpreter!Object("sexp", interpreter!I.a, e))
               /\ stack' = [stack EXCEPT ![size] = t, ![size - n] = v]
               /\ size' = size - n + 1 /\ ip' = ip + 1
               /\ UNCHANGED <<frames, is_tmp_closure, status>>
  BY Zenon DEF interpreter!ExecuteSexp, interpreter!Execute, interpreter!Running,
     interpreter!Trap, Stuck
<1>2. CASE Stuck
  BY <1>2, StuckStep
<1>3. CASE ~Stuck
  <2>1. Straight /\ size <= MaxStack
    BY <1>1, <1>3, VerifierAssumption DEF Straight, interpreter!I, ITypes
  <2>2. IsSequence(e) /\ \A i \in DOMAIN e : Good(e[i], heap)
    BY <1>1, <1>3, <2>1, WordsTaken
  <2> HIDE DEF e
  <2>3. /\ GoodHeap(heap') /\ DOMAIN heap \subseteq DOMAIN heap' /\ Builds
        /\ Good(v, heap') /\ GoodStack(stack, heap')
    BY <1>1, <1>3, <2>2, ObjectMade
  <2>4. size' \in Nat
    BY <1>1, <1>3 DEF ITypes
  <2>5. Good(t, heap')
    BY DEF Good, interpreter!Int32
  <2> HIDE DEF t, v, n
  <2>6. GoodStack([stack EXCEPT ![size] = t], heap')
    BY <2>3, <2>5, CellStored
  <2>7. GoodStack([[stack EXCEPT ![size] = t] EXCEPT ![size - n] = v], heap')
    BY <2>3, <2>6, CellStored
  <2>8. stack' = [[stack EXCEPT ![size] = t] EXCEPT ![size - n] = v]
    BY <1>1, <1>3
  <2>9. GoodStack(stack', heap')
    BY <2>7, <2>8, Zenon
  <2> QED
    BY <1>1, <1>3, <2>1, <2>3, <2>4, <2>9, OnwardStep
<1> QED
  BY <1>2, <1>3

LEMMA ClosureStep ==
  ASSUME ITypes, IsCode(code), ip \in DOMAIN code, interpreter!ExecuteClosure
  PROVE  Stepped
<1> DEFINE places == interpreter!I.vars
           captured == [c \in DOMAIN places |-> interpreter!ReadVar(places[c].kind, places[c].pos)]
           entry == interpreter!Int32(interpreter!I.a)
           words == <<entry>> \o captured
           above == stack[size + Len(words)]
           v == interpreter!Ref(interpreter!New)
<1>1. Stuck \/ /\ interpreter!I.op = "CLOSURE" /\ frames # << >>
               /\ \A c \in DOMAIN places : interpreter!HasCell(places[c].kind, places[c].pos)
               /\ \A c \in DOMAIN places :
                    places[c].kind = "CAPTURED" => interpreter!CaptureValid(places[c].pos)
               /\ ~(size + Len(words) > MaxStack) /\ size + Len(words) # MaxStack
               /\ heap' = Append(heap, interpreter!Object("closure", 0, Append(words, above)))
               /\ stack' = interpreter!Written(size, <<v>> \o captured)
               /\ size' = size + 1 /\ ip' = ip + 1
               /\ UNCHANGED <<frames, is_tmp_closure, status>>
  BY Zenon DEF interpreter!ExecuteClosure, interpreter!Execute, interpreter!Running,
     interpreter!Trap, interpreter!has_frame, Stuck
<1>2. CASE Stuck
  BY <1>2, StuckStep
<1>3. CASE ~Stuck
  <2>1. Straight
    BY <1>1, <1>3 DEF Straight, interpreter!I
  <2>2. places \in Seq([kind : Kinds, pos : Int])
    BY CodeType DEF interpreter!I
  <2>3. \A c \in DOMAIN places : Good(captured[c], heap)
    <3>1. ASSUME NEW c \in DOMAIN places PROVE Good(captured[c], heap)
      <4>1. places[c].pos \in Int
        <5> HIDE DEF places
        <5>1. places[c] \in [kind : Kinds, pos : Int]
          BY <2>2, LenProperties
        <5> QED
          BY <5>1
      <4>2. Good(interpreter!ReadVar(places[c].kind, places[c].pos), heap)
        BY <1>1, <1>3, <4>1, VariableGood
      <4> QED
        BY <4>2
    <3> QED
      BY <3>1
  <2>4. IsSequence(captured) /\ DOMAIN captured = DOMAIN places
    <3>1. Len(places) \in Nat /\ DOMAIN places = 1..Len(places)
      BY <2>2, LenProperties
    <3>2. DOMAIN captured = 1..Len(places)
      BY <3>1
    <3> HIDE DEF captured
    <3>3. captured = [i \in 1..Len(places) |-> captured[i]]
      BY <3>2 DEF captured
    <3> QED
      BY <3>1, <3>2, <3>3, ListIsSequence
  <2> DEFINE V == {x \in {captured[c] : c \in DOMAIN captured} \union {entry, above, v} :
                     Good(x, heap)}
             W == {captured[c] : c \in DOMAIN captured} \union {v}
  <2>5. Good(entry, heap)
    BY ComputedGood
  <2> HIDE DEF captured, entry, places
  <2>6. captured \in Seq(V) /\ captured \in Seq(W)
    BY <2>3, <2>4, Sequence
  <2>7. <<entry>> \in Seq(V) /\ <<v>> \in Seq(W)
    BY <2>5
  <2>8. words \in Seq(V) /\ <<v>> \o captured \in Seq(W)
    BY <2>6, <2>7, ConcatProperties
  <2>9. Len(words) \in Nat
    BY <2>8, LenProperties
  <2> HIDE DEF words
  <2>10. Good(above, heap)
    <3> DEFINE n == Len(words)
    <3>1. ~(size + n > MaxStack) /\ size + n # MaxStack /\ n \in Nat
      BY <1>1, <1>3, <2>9, Zenon
    <3>2. size \in Nat /\ MaxStack \in Nat
      BY VerifierAssumption DEF ITypes
    <3> HIDE DEF n
    <3>3. size + n \in interpreter!Cells
      BY <3>1, <3>2 DEF interpreter!Cells
    <3> QED
      BY <3>3, Zenon DEF ITypes, GoodStack, n, above
  <2> DEFINE e == Append(words, above)
  <2>11. e \in Seq(V)
    BY <2>8, <2>10, OneAppended
  <2> HIDE DEF above
  <2>17. 1 \in DOMAIN e /\ e[1] = entry
    <3>1. /\ Len(<<entry>>) = 1 /\ <<entry>>[1] = entry /\ Len(captured) \in Nat
      BY <2>6, LenProperties
    <3>2. Len(words) = 1 + Len(captured) /\ words[1] = entry
      BY <2>6, <2>7, <3>1, ConcatProperties DEF words
    <3>3. /\ Len(e) = Len(words) + 1 /\ \A i \in 1..Len(words) : e[i] = words[i]
      BY <2>8, <2>10, OneAppended
    <3>4. DOMAIN e = 1..Len(e)
      BY <2>11, LenProperties, Zenon
    <3> HIDE DEF e
    <3> QED
      BY <3>1, <3>2, <3>3, <3>4
  <2>12. IsSequence(e) /\ \A i \in DOMAIN e : Good(e[i], heap)
    <3>1. \A i \in DOMAIN e : e[i] \in V
      BY <2>11
    <3> QED
      BY <2>11, <3>1, IsSequenceRule
  <2> HIDE DEF e, V
  <2>13. /\ GoodHeap(heap') /\ DOMAIN heap \subseteq DOMAIN heap' /\ Builds
         /\ Good(v, heap') /\ GoodStack(stack, heap')
    <3>1. /\ code[ip].op = "CLOSURE" /\ frames # << >>
          /\ heap' = Append(heap, interpreter!Object("closure", 0, e))
      BY <1>1, <1>3 DEF interpreter!I, e
    <3>2. 1 \in DOMAIN e /\ e[1] = interpreter!Int32(code[ip].a)
      BY <2>17 DEF interpreter!I, entry
    <3> QED
      BY <2>12, <3>1, <3>2, ObjectMade
  <2>14. \A i \in DOMAIN (<<v>> \o captured) : Good((<<v>> \o captured)[i], heap')
    <3> DEFINE r == <<v>> \o captured
    <3>1. \A i \in DOMAIN r : r[i] \in W
      BY <2>8
    <3>2. \A x \in W : Good(x, heap')
      BY <2>3, <2>4, <2>13, GoodMore
    <3> HIDE DEF r, W
    <3> QED
      BY <3>1, <3>2 DEF r
  <2>15. GoodStack(stack', heap')
    BY <1>1, <1>3, <2>13, <2>14, WordsWritten
  <2>16. size' \in Nat
    BY <1>1, <1>3 DEF ITypes
  <2> QED
    BY <1>1, <1>3, <2>1, <2>13, <2>15, <2>16, OnwardStep
<1> QED
  BY <1>2, <1>3

(* Instructions that store a value.                                        *)
LEMMA AssignedStep ==
  ASSUME ITypes, Straight, NEW ref, NEW val, Good(val, heap), NEW n \in 0..size,
         ref.kind = "field" => ref.field # 1, interpreter!Assigned(ref, val, n)
  PROVE  Stepped
<1>1. /\ interpreter!Assign(ref, val, n)
      /\ size' = size - n + 1 /\ ip' = ip + 1
      /\ UNCHANGED <<frames, is_tmp_closure, status>>
  BY Zenon DEF interpreter!Assigned
<1>2. size' \in Nat
  BY <1>1 DEF ITypes
<1> DEFINE w == interpreter!Written(size - n, <<val>>)
<1>3. GoodStack(w, heap)
  <2>1. \A i \in DOMAIN <<val>> : Good(<<val>>[i], heap)
    OBVIOUS
  <2> QED
    BY <2>1, WordsWritten DEF ITypes
<1> HIDE DEF w
<1>4. CASE heap' = heap /\ stack' = [w EXCEPT ![ref.at] = val]
  <2>1. GoodStack(stack', heap')
    BY <1>3, <1>4, CellStored
  <2>2. GoodHeap(heap') /\ Builds
    BY <1>4 DEF ITypes, Builds
  <2> QED
    BY <1>1, <1>2, <2>1, <2>2, OnwardStep
<1>5. CASE ref.kind = "field" /\ heap' = [heap EXCEPT ![ref.at].elems[ref.field] = val] /\ stack' = w
  <2>1. /\ GoodHeap(heap') /\ DOMAIN heap' = DOMAIN heap
        /\ \A x \in DOMAIN heap :
             /\ heap'[x].type = heap[x].type
             /\ heap[x].type = "closure" => heap'[x].elems[1] = heap[x].elems[1]
    <3> DEFINE k == Storing(heap, ref.at, ref.field, val)
    <3>1. /\ GoodHeap(k) /\ DOMAIN k = DOMAIN heap
          /\ \A x \in DOMAIN heap :
               /\ k[x].type = heap[x].type
               /\ heap[x].type = "closure" => k[x].elems[1] = heap[x].elems[1]
      BY <1>5, ElementStored DEF ITypes
    <3>2. heap' = k
      BY <1>5 DEF Storing
    <3> HIDE DEF k
    <3> QED
      BY <3>1, <3>2, Zenon
  <2>2. Builds
    BY <2>1 DEF Builds
  <2>3. GoodStack(stack', heap')
    BY <1>3, <1>5, <2>1, StackMore
  <2> QED
    BY <1>1, <1>2, <2>1, <2>2, <2>3, OnwardStep
<1> QED
  BY <1>1, <1>4, <1>5 DEF interpreter!Assign, w

LEMMA StoringStep ==
  ASSUME ITypes, IsCode(code), ip \in DOMAIN code,
                 \/ interpreter!ExecuteSti \/ interpreter!ExecuteStaReference
                 \/ interpreter!ExecuteStore \/ interpreter!ExecuteStaElement
  PROVE  Stepped
<1>1. ASSUME size <= MaxStack, NEW k \in Nat, ~(size < k + 1)
      PROVE  Good(interpreter!Top(k), heap)
  <2>1. k < size
    BY <1>1 DEF ITypes
  <2> QED
    BY <1>1, <2>1, TopGood
<1>2. ASSUME NEW n \in Nat, ~(size < n) PROVE n \in 0..size
  BY <1>2 DEF ITypes
<1>3. ~(size > MaxStack) => size <= MaxStack
  BY VerifierAssumption DEF ITypes
<1>4. interpreter!I.op \in {"STI", "STA"} \union Stores => Straight
  BY DEF Straight, interpreter!I, Stores
<1>5. CASE interpreter!ExecuteSti
  <2>1. Stuck \/ /\ ~(size < 2) /\ ~(size > MaxStack) /\ interpreter!I.op = "STI"
                 /\ interpreter!Assigned(interpreter!Top(0), interpreter!Top(1), 2)
    BY <1>5 DEF interpreter!ExecuteSti, interpreter!Execute, interpreter!Running,
       interpreter!Trap, Stuck
  <2>2. CASE ~Stuck
    <3>1. 2 \in 0..size /\ Good(interpreter!Top(1), heap) /\ Straight /\ ~(size < 1)
      BY <1>1, <1>2, <1>3, <1>4, <2>1, <2>2 DEF ITypes
    <3>2. Good(interpreter!Top(0), heap)
      BY <1>1, <1>3, <2>1, <2>2, <3>1
    <3> QED
      BY <2>1, <2>2, <3>1, <3>2, AssignedStep DEF Good
  <2> QED
    BY <2>2, StuckStep
<1>6. CASE interpreter!ExecuteStaReference
  <2>1. Stuck \/ /\ ~(size < 2) /\ ~(size > MaxStack) /\ interpreter!I.op = "STA"
                 /\ interpreter!Assigned(interpreter!Top(1), interpreter!Top(0), 2)
    BY <1>6 DEF interpreter!ExecuteStaReference, interpreter!Execute, interpreter!Running,
       interpreter!Trap, Stuck
  <2>2. CASE ~Stuck
    <3>1. 2 \in 0..size /\ ~(size < 1)
      BY <1>2, <2>1, <2>2 DEF ITypes
    <3>2. Good(interpreter!Top(0), heap) /\ Good(interpreter!Top(1), heap) /\ Straight
      BY <1>1, <1>3, <1>4, <2>1, <2>2, <3>1
    <3> QED
      BY <2>1, <2>2, <3>1, <3>2, AssignedStep DEF Good
  <2> QED
    BY <2>2, StuckStep
<1>7. CASE interpreter!ExecuteStore
  <2> DEFINE ref == IF interpreter!I.op = "ST_CAPTURED"
                    THEN interpreter!FieldRef(interpreter!FrameClosure.at, interpreter!I.a + 2)
                    ELSE interpreter!CellRef(interpreter!CellOf(KindOf(interpreter!I.op),
                                                                interpreter!I.a))
  <2>1. Stuck \/ /\ ~(size < 1) /\ ~(1 > 0 /\ size > MaxStack) /\ interpreter!I.op \in Stores
                 /\ interpreter!HasCell(KindOf(interpreter!I.op), interpreter!I.a)
                 /\ interpreter!I.op = "ST_CAPTURED" => interpreter!CaptureValid(interpreter!I.a)
                 /\ interpreter!Assigned(ref, interpreter!Top(0), 1)
    BY <1>7, SameBytecode, Zenon DEF interpreter!ExecuteStore, interpreter!Execute,
       interpreter!Running, interpreter!Trap, Stuck
  <2>2. CASE ~Stuck
    <3>1. 1 \in 0..size /\ Good(interpreter!Top(0), heap) /\ Straight
      BY <1>1, <1>2, <1>3, <1>4, <2>1, <2>2
    <3>2. interpreter!I.op = "ST_CAPTURED" => interpreter!I.a + 2 # 1
      <4>1. interpreter!I.op = "ST_CAPTURED" => KindOf(interpreter!I.op) = "CAPTURED"
        BY DEF KindOf, Captures
      <4> QED
        BY <2>1, <2>2, <4>1, CapturedField
    <3>3. ref.kind = "field" => ref.field # 1
      BY <3>2 DEF interpreter!FieldRef, interpreter!CellRef
    <3> HIDE DEF ref
    <3> QED
      BY <2>1, <2>2, <3>1, <3>3, AssignedStep
  <2> QED
    BY <2>2, StuckStep
<1>8. CASE interpreter!ExecuteStaElement
  <2> DEFINE v == interpreter!Top(0)
             o == interpreter!Top(2).at
             f == interpreter!Top(1).at + 1
  <2>1. Stuck \/ /\ ~(size < 3) /\ ~(size > MaxStack) /\ interpreter!I.op = "STA"
                 /\ interpreter!is_aggregate(interpreter!Top(2))
                 /\ interpreter!Push(3, <<v>>)
                 /\ heap' = [heap EXCEPT ![o].elems[f] = v]
    BY <1>8 DEF interpreter!ExecuteStaElement, interpreter!Execute, interpreter!Running,
       interpreter!Trap, Stuck
  <2>2. CASE ~Stuck
    <3>1. 3 \in 0..size /\ ~(size < 1)
      BY <1>2, <2>1, <2>2 DEF ITypes
    <3>2. Good(v, heap) /\ Straight
      BY <1>1, <1>3, <1>4, <2>1, <2>2, <3>1
    <3>6. heap[o].type # "closure"
      BY <2>1, <2>2 DEF interpreter!is_aggregate
    <3> HIDE DEF v, o, f
    <3>3. /\ GoodHeap(heap') /\ DOMAIN heap' = DOMAIN heap
          /\ \A x \in DOMAIN heap :
               /\ heap'[x].type = heap[x].type
               /\ heap[x].type = "closure" => heap'[x].elems[1] = heap[x].elems[1]
      <4> DEFINE k == Storing(heap, o, f, v)
      <4>1. /\ GoodHeap(k) /\ DOMAIN k = DOMAIN heap
            /\ \A x \in DOMAIN heap :
                 /\ k[x].type = heap[x].type
                 /\ heap[x].type = "closure" => k[x].elems[1] = heap[x].elems[1]
        BY <3>2, <3>6, ElementStored DEF ITypes
      <4>2. heap' = k
        BY <2>1, <2>2 DEF Storing
      <4> HIDE DEF k
      <4> QED
        BY <4>1, <4>2, Zenon
    <3>4. Builds
      BY <3>3 DEF Builds
    <3>5. <<v>> \in Seq({v}) /\ \A i \in DOMAIN <<v>> : Good(<<v>>[i], heap')
      BY <3>2, <3>3, GoodMore
    <3> QED
      BY <2>1, <2>2, <3>1, <3>2, <3>3, <3>4, <3>5, PushStep
  <2> QED
    BY <2>2, StuckStep
<1> QED
  BY <1>5, <1>6, <1>7, <1>8

(* Instructions that do not touch the objects.                             *)
LEMMA UntouchedStep ==
  ASSUME ITypes, Moves, heap' = heap, GoodStack(stack', heap), size' \in Nat,
         ip' \in Int, frames' \in Seq(FrameRecords), Len(frames') <= MaxFrames,
         is_tmp_closure' \in BOOLEAN, status' \in {"running", "done", "failed", "undefined"}
  PROVE  Stepped
<1>1. ITypes'
  BY DEF ITypes
<1>2. Builds
  BY DEF Builds
<1> QED
  BY <1>1, <1>2 DEF Stepped

LEMMA JumpingStep ==
  ASSUME ITypes, IsCode(code), ip \in DOMAIN code,
         interpreter!ExecuteJmp \/ interpreter!ExecuteCjmp \/ interpreter!ExecuteLine
  PROVE  Stepped
<1>1. interpreter!I.a \in Int /\ ip \in Int
  BY CodeType DEF interpreter!I
<1>2. ASSUME ~Stuck
      PROVE  /\ heap' = heap /\ stack' = stack /\ frames' = frames /\ status' = status
             /\ is_tmp_closure' = is_tmp_closure
             /\ size' = size \/ (size' = size - 1 /\ ~(size < 1))
             /\ ip' \in Flow(ip) /\ ip' \in Int
  <2>1. CASE interpreter!ExecuteJmp
    BY <1>1, <1>2, <2>1 DEF interpreter!ExecuteJmp, interpreter!Execute, interpreter!Running,
       interpreter!Goto, interpreter!Trap, Stuck, Flow, interpreter!I
  <2>2. CASE interpreter!ExecuteLine
    BY <1>1, <1>2, <2>2 DEF interpreter!ExecuteLine, interpreter!Execute, interpreter!Running,
       interpreter!Goto, interpreter!Trap, Stuck, Flow, interpreter!I
  <2>3. CASE interpreter!ExecuteCjmp
    <3>1. /\ interpreter!I.op \in CondJumps /\ ~(size < 1) /\ size' = size - 1
          /\ ip' \in {interpreter!I.a, ip + 1}
          /\ UNCHANGED <<frames, stack, is_tmp_closure, heap, status>>
      BY <1>2, <2>3, SameBytecode DEF interpreter!ExecuteCjmp, interpreter!Execute,
         interpreter!Running, interpreter!Trap, Stuck
    <3>2. ip' \in Flow(ip) /\ ip' \in Int
      BY <1>1, <3>1 DEF Flow, interpreter!I, CondJumps
    <3> QED
      BY <3>1, <3>2
  <2> QED
    BY <2>1, <2>2, <2>3
<1>3. CASE ~Stuck
  <2>1. size' \in Nat /\ Moves
    BY <1>2, <1>3 DEF ITypes, Moves, Returns
  <2>2. /\ GoodStack(stack', heap) /\ frames' \in Seq(FrameRecords) /\ Len(frames') <= MaxFrames
        /\ is_tmp_closure' \in BOOLEAN /\ status' \in {"running", "done", "failed", "undefined"}
    BY <1>2, <1>3 DEF ITypes
  <2> QED
    BY <1>2, <1>3, <2>1, <2>2, UntouchedStep
<1> QED
  BY <1>3, StuckStep

LEMMA StoppingStep ==
  ASSUME ITypes, interpreter!ExecuteFail \/ interpreter!ExecuteStop \/ interpreter!RunOff
  PROVE  Stepped
<1>1. Stuck \/ (status' = "done" /\ UNCHANGED <<ip, frames, stack, size, is_tmp_closure, heap>>)
  BY DEF interpreter!ExecuteFail, interpreter!ExecuteStop, interpreter!RunOff,
         interpreter!Execute, interpreter!Trap, Stuck
<1>2. CASE status' = "done" /\ UNCHANGED <<ip, frames, stack, size, is_tmp_closure, heap>>
  <2>1. Moves
    BY <1>2 DEF Moves, Returns
  <2> QED
    BY <1>2, <2>1, UntouchedStep DEF ITypes
<1> QED
  BY <1>1, <1>2, StuckStep

LEMMA BeginStep ==
  ASSUME ITypes, IsCode(code), ip \in DOMAIN code, interpreter!ExecuteBegin
  PROVE  Stepped
<1> DEFINE locals == IF checking THEN interpreter!I.b ELSE LowerHalf(interpreter!I.b)
           frame == [base |-> size, locals |-> locals, args |-> interpreter!I.a,
                     closure |-> interpreter!I.op = "CBEGIN" \/ is_tmp_closure, ret |-> -1]
<1>1. Stuck \/ /\ interpreter!I.op \in Begins /\ Len(frames) < MaxFrames
               /\ checking => interpreter!CountsChecked
               /\ frames' = Append(frames, frame)
               /\ is_tmp_closure' = IF interpreter!I.op = "BEGIN" THEN FALSE ELSE is_tmp_closure
               /\ size' = size + locals /\ ip' = ip + 1
               /\ UNCHANGED <<stack, heap, status>>
  BY SameBytecode, Zenon DEF interpreter!ExecuteBegin, interpreter!Execute, interpreter!Running,
     interpreter!Trap, Stuck, interpreter!OperandsChecked, interpreter!LowerHalf, LowerHalf
<1>2. CASE ~Stuck
  <2>1. interpreter!I.a \in Int /\ interpreter!I.b \in Int /\ ip \in Int
    BY CodeType DEF interpreter!I
  <2>2. locals \in Nat
    <3>1. CASE checking
      <4>1. interpreter!I.b >= 0
        BY <1>1, <1>2, <3>1, SameBytecode DEF interpreter!CountsChecked
      <4> QED
        BY <2>1, <3>1, <4>1
    <3>2. CASE ~checking
      <4>1. \A n \in Int : n % HalfWord \in Nat
        BY HalfWordAssumption
      <4> QED
        BY <2>1, <3>2, <4>1, Zenon DEF LowerHalf
    <3> QED
      BY <3>1, <3>2
  <2>3. frame \in FrameRecords /\ frame.ret = -1
    <3>1. (interpreter!I.op = "CBEGIN" \/ is_tmp_closure) \in BOOLEAN
      BY Zenon
    <3>2. size \in Int /\ locals \in Int
      BY <2>2 DEF ITypes
    <3> DEFINE c == interpreter!I.op = "CBEGIN" \/ is_tmp_closure
    <3> HIDE DEF locals, c
    <3> QED
      BY <2>1, <3>1, <3>2 DEF FrameRecords, c
  <2> HIDE DEF locals, frame
  <2>4. /\ frames' \in Seq(FrameRecords) /\ Len(frames') = Len(frames) + 1
        /\ Len(frames) \in Nat /\ frames' # << >>
        /\ \A f \in 1..Len(frames) : frames'[f] = frames[f]
        /\ frames'[Len(frames) + 1] = frame
    <3>1. frames \in Seq(FrameRecords) /\ frame \in FrameRecords
      BY <2>3, Zenon DEF ITypes
    <3>2. /\ Append(frames, frame) \in Seq(FrameRecords) /\ Append(frames, frame) # << >>
          /\ Len(frames) \in Nat /\ Len(Append(frames, frame)) = Len(frames) + 1
          /\ \A i \in 1..Len(frames) : Append(frames, frame)[i] = frames[i]
          /\ Append(frames, frame)[Len(frames) + 1] = frame
      BY <3>1, OneAppended, Zenon
    <3>3. frames' = Append(frames, frame)
      BY <1>1, <1>2, Zenon
    <3> QED
      BY <3>2, <3>3, Zenon
  <2>5. Len(frames') <= MaxFrames
    <3>1. Len(frames) < MaxFrames /\ MaxFrames \in Nat
      BY <1>1, <1>2, InterpreterAssumption, Zenon
    <3> QED
      BY <2>4, <3>1
  <2>6. size' \in Nat /\ ip' \in Int /\ ip' = ip + 1
    <3>1. size' = size + locals /\ ip' = ip + 1 /\ size \in Nat
      BY <1>1, <1>2, Zenon DEF ITypes
    <3> QED
      BY <2>1, <2>2, <3>1
  <2>7. Moves
    <3>1. Flow(ip) = {ip + 1}
      BY <1>1, <1>2 DEF Flow, interpreter!I, Begins, CondJumps
    <3>2. DOMAIN frames' = 1..Len(frames) + 1 /\ DOMAIN frames = 1..Len(frames)
      BY <2>4, LenProperties DEF ITypes
    <3>3. \A f \in DOMAIN frames' : f \in DOMAIN frames \/ f = Len(frames) + 1
      BY <2>4, <3>2
    <3>4. \A f \in DOMAIN frames' : frames'[f].ret \in Returns
      BY <2>3, <2>4, <3>2, <3>3 DEF Returns
    <3> QED
      BY <2>6, <3>1, <3>4, Zenon DEF Moves
  <2>8. is_tmp_closure' \in BOOLEAN
    BY <1>1, <1>2, Zenon DEF ITypes
  <2> QED
    BY <1>1, <1>2, <2>4, <2>5, <2>6, <2>7, <2>8, UntouchedStep DEF ITypes
<1> QED
  BY <1>2, StuckStep

LEMMA SameEnds == \A s : interpreter!Front(s) = Front(s) /\ interpreter!Last(s) = Last(s)
BY DEF interpreter!Front, Front, interpreter!Last, Last

LEMMA ReturnStep ==
  ASSUME ITypes, IsCode(code), ip \in DOMAIN code, interpreter!ExecuteRet
  PROVE  Stepped
<1> DEFINE frame == Last(frames)
           outer == Front(frames)
           bottom == frame.base - frame.args - (IF frame.closure THEN 1 ELSE 0)
           v == interpreter!Top(0)
<1>1. Stuck \/ /\ interpreter!I.op \in {"END", "RET"} /\ ~(size < 1) /\ ~(size > MaxStack)
               /\ frames # << >> /\ bottom >= 0
               /\ IF outer # << >>
                  THEN interpreter!PushAt(bottom, <<v>>, Last(outer).ret, outer) /\ UNCHANGED heap
                  ELSE /\ status' = "done" /\ frames' = outer /\ size' = bottom
                       /\ UNCHANGED <<stack, ip, is_tmp_closure, heap>>
  BY SameEnds DEF interpreter!ExecuteRet, interpreter!Execute, interpreter!Running, interpreter!Trap,
     Stuck, interpreter!has_frame, interpreter!Frame
<1>2. CASE ~Stuck
  <2>1. frames \in Seq(FrameRecords) /\ frames # << >>
    BY <1>1, <1>2, Zenon DEF ITypes
  <2>2. /\ Len(frames) \in Nat \ {0}
        /\ outer \in Seq(FrameRecords) /\ frame \in FrameRecords
        /\ Len(outer) = Len(frames) - 1
        /\ \A i \in 1..Len(frames) - 1 : outer[i] = frames[i]
    BY <2>1, LastTaken
  <2>3. bottom \in Nat
    <3>1. frame.base \in Int /\ frame.args \in Int
      BY <2>2 DEF FrameRecords
    <3> DEFINE b == frame.base
               a == frame.args
               c == frame.closure
    <3>2. b - a - (IF c THEN 1 ELSE 0) >= 0
      BY <1>1, <1>2, Zenon
    <3> HIDE DEF a, b, c
    <3>3. b - a - (IF c THEN 1 ELSE 0) \in Nat
      BY <3>1, <3>2 DEF a, b
    <3> QED
      BY <3>3 DEF a, b, c
  <2>4. Good(v, heap)
    <3>1. 0 < size /\ size <= MaxStack
      BY <1>1, <1>2, VerifierAssumption DEF ITypes
    <3> QED
      BY <3>1, TopGood
  <2> HIDE DEF bottom, v
  <2>5. DOMAIN outer = 1..Len(frames) - 1 /\ DOMAIN frames = 1..Len(frames)
    BY <2>1, <2>2, LenProperties
  <2>6. {outer[f].ret : f \in DOMAIN outer} \subseteq Returns
    BY <2>2, <2>5 DEF Returns
  <2>7. Len(outer) <= MaxFrames
    BY <2>2, InterpreterAssumption DEF ITypes
  <2> HIDE DEF outer
  <2>8. CASE outer # << >>
    <3>1. interpreter!PushAt(bottom, <<v>>, Last(outer).ret, outer) /\ heap' = heap
      BY <1>1, <1>2, <2>8
    <3>2. CASE interpreter!Trap
      BY <3>2, StuckStep DEF interpreter!Trap, Stuck
    <3>3. CASE ~interpreter!Trap
      <4>1. /\ stack' = interpreter!Written(bottom, <<v>>)
            /\ size' = bottom + Len(<<v>>) /\ ip' = Last(outer).ret /\ frames' = outer
            /\ UNCHANGED <<is_tmp_closure, status>>
        BY <3>1, <3>3, Zenon DEF interpreter!PushAt
      <4>2. GoodStack(stack', heap)
        <5>1. \A i \in DOMAIN <<v>> : Good(<<v>>[i], heap)
          BY <2>4
        <5> QED
          BY <4>1, <5>1, WordsWritten DEF ITypes
      <4>3. size' \in Nat
        BY <2>3, <4>1
      <4>4. ip' \in Int /\ ip' \in Returns
        <5>1. Len(outer) \in Nat \ {0} /\ Last(outer) \in FrameRecords /\ Last(outer) = outer[Len(outer)]
          BY <2>2, <2>8, LastTaken
        <5>2. Len(outer) \in DOMAIN outer
          BY <2>2, <5>1, LenProperties
        <5>3. Last(outer).ret \in Int
          BY <5>1 DEF FrameRecords
        <5> QED
          BY <2>6, <4>1, <5>1, <5>2, <5>3
      <4>5. Moves
        BY <2>6, <4>1, <4>4, Zenon DEF Moves
      <4> QED
        BY <2>2, <2>7, <3>1, <4>1, <4>2, <4>3, <4>4, <4>5, UntouchedStep DEF ITypes
    <3> QED
      BY <3>2, <3>3
  <2>9. CASE ~(outer # << >>)
    <3>1. /\ status' = "done" /\ frames' = outer /\ size' = bottom
          /\ UNCHANGED <<stack, ip, is_tmp_closure, heap>>
      BY <1>1, <1>2, <2>9
    <3>2. Moves
      BY <2>6, <3>1 DEF Moves
    <3> QED
      BY <2>2, <2>3, <2>7, <3>1, <3>2, UntouchedStep DEF ITypes
  <2> QED
    BY <2>8, <2>9
<1> QED
  BY <1>2, StuckStep

(* A call keeps the address after it in the frame of the caller.           *)
LEMMA EnterStep ==
  ASSUME ITypes, frames # << >>, code[ip].op \in {"CALL", "CALLC"},
         NEW target \in Int, NEW by_closure \in BOOLEAN, interpreter!Enter(target, by_closure),
         \/ code[ip].op = "CALL" /\ target = code[ip].a
         \/ code[ip].op = "CALLC" /\ \E o \in DOMAIN heap : heap[o].type = "closure"
  PROVE  Stepped
<1>1. /\ frames' = [frames EXCEPT ![Len(frames)].ret = ip + 1]
      /\ ip' = target /\ is_tmp_closure' = by_closure
      /\ UNCHANGED <<stack, size, heap, status>>
  BY Zenon DEF interpreter!Enter
<1>2. frames \in Seq(FrameRecords) /\ ip + 1 \in Int
  BY DEF ITypes
<1> DEFINE n == Len(frames)
           r == [frames[n] EXCEPT !.ret = ip + 1]
<1>3. n \in Nat \ {0} /\ DOMAIN frames = 1..n /\ frames[n] \in FrameRecords
  BY <1>2, LastTaken, LenProperties
<1>4. r \in FrameRecords /\ r.ret = ip + 1
  BY <1>2, <1>3 DEF FrameRecords
<1>5. frames' = [frames EXCEPT ![n] = r]
  BY <1>1
<1> HIDE DEF r
<1>6. frames' \in Seq(FrameRecords) /\ Len(frames') = n /\ DOMAIN frames' = 1..n
      /\ \A f \in 1..n : frames'[f] = IF f = n THEN r ELSE frames[f]
  <2>1. frames \in [1..n -> FrameRecords]
    BY <1>2, LenProperties
  <2> HIDE DEF n
  <2>2. frames' \in [1..n -> FrameRecords]
    BY <1>4, <1>5, <2>1
  <2>3. frames' \in Seq(FrameRecords) /\ Len(frames') = n
    BY <1>3, <2>2, SeqDef, LenProperties
  <2>4. \A f \in 1..n : frames'[f] = IF f = n THEN r ELSE frames[f]
    BY <1>5, <2>1
  <2> QED
    BY <2>2, <2>3, <2>4
<1>7. ip + 1 \in Flow(ip) /\ (code[ip].op = "CALL" => code[ip].a \in Flow(ip))
  BY DEF Flow
<1>8. Moves
  <2>1. \A f \in DOMAIN frames' : frames'[f].ret \in Returns \union Flow(ip)
    BY <1>3, <1>4, <1>6, <1>7 DEF Returns
  <2> QED
    BY <1>1, <1>7, <2>1 DEF Moves
<1>9. Len(frames') <= MaxFrames
  BY <1>6 DEF ITypes
<1> QED
  BY <1>1, <1>6, <1>8, <1>9, UntouchedStep DEF ITypes

LEMMA CallStep ==
  ASSUME ITypes, IsCode(code), ip \in DOMAIN code,
         interpreter!ExecuteCall \/ interpreter!ExecuteCallc
  PROVE  Stepped
<1>1. DOMAIN code \subseteq Int
  BY CodeType
<1>2. CASE interpreter!ExecuteCall
  <2>1. Stuck \/ /\ code[ip].op = "CALL" /\ frames # << >> /\ code[ip].a \in DOMAIN code
                 /\ interpreter!Enter(code[ip].a, FALSE)
    BY <1>2 DEF interpreter!ExecuteCall, interpreter!Execute, interpreter!Running,
       interpreter!I, interpreter!Trap, Stuck, interpreter!has_frame
  <2>2. CASE ~Stuck
    BY <1>1, <2>1, <2>2, EnterStep
  <2> QED
    BY <2>2, StuckStep
<1>3. CASE interpreter!ExecuteCallc
  <2> DEFINE callee == interpreter!Top(interpreter!I.a)
             target == interpreter!Elems(callee)[1].at
  <2>1. Stuck \/ /\ code[ip].op = "CALLC" /\ frames # << >>
                 /\ size - 1 - interpreter!I.a \in interpreter!Cells
                 /\ interpreter!Is(callee, "closure") /\ target \in DOMAIN code
                 /\ interpreter!Enter(target, TRUE)
    BY <1>3 DEF interpreter!ExecuteCallc, interpreter!Execute, interpreter!Running,
       interpreter!I, interpreter!Trap, Stuck, interpreter!has_frame
  <2>2. CASE ~Stuck
    <3>1. Good(callee, heap)
      <4>1. size - 1 - interpreter!I.a \in interpreter!Cells
        BY <2>1, <2>2
      <4> QED
        BY <4>1, Zenon DEF interpreter!Top, ITypes, GoodStack
    <3>2. \E o \in DOMAIN heap : heap[o].type = "closure"
      <4>1. interpreter!Is(callee, "closure")
        BY <2>1, <2>2
      <4> HIDE DEF callee
      <4> QED
        BY <3>1, <4>1 DEF interpreter!Is, interpreter!is_object, Good
    <3> HIDE DEF target
    <3> QED
      BY <1>1, <2>1, <2>2, <3>2, EnterStep
  <2> QED
    BY <2>2, StuckStep
<1> QED
  BY <1>2, <1>3

(* A step is that of an instruction of the code, or of an address outside. *)
LEMMA Running == interpreter!INext => status = "running" /\ (ip \in DOMAIN code \/ interpreter!RunOff)
BY DEF interpreter!INext, interpreter!ExecuteBinop, interpreter!ExecuteLowEq,
    interpreter!ExecuteConst, interpreter!ExecuteString, interpreter!ExecuteSexp,
    interpreter!ExecuteBarray, interpreter!ExecuteSti, interpreter!ExecuteStaReference,
    interpreter!ExecuteStaElement, interpreter!ExecuteElem, interpreter!ExecuteLength,
    interpreter!ExecuteToString, interpreter!ExecuteDrop, interpreter!ExecuteDup,
    interpreter!ExecuteSwap, interpreter!ExecuteLoad, interpreter!ExecuteReference,
    interpreter!ExecuteStore, interpreter!ExecuteJmp, interpreter!ExecuteCjmp,
    interpreter!ExecuteBegin, interpreter!ExecuteRet, interpreter!ExecuteCall,
    interpreter!ExecuteCallc, interpreter!ExecuteClosure, interpreter!ExecuteTag,
    interpreter!ExecuteArray, interpreter!ExecutePattStr, interpreter!ExecutePattern,
    interpreter!ExecuteFail, interpreter!ExecuteLine, interpreter!ExecuteRead,
    interpreter!ExecuteWrite, interpreter!ExecuteStop, interpreter!RunOff,
    interpreter!Execute, interpreter!Running

LEMMA StepInterpreter ==
  ASSUME ITypes, IsCode(code), interpreter!INext
  PROVE  Stepped
<1>1. ip \in DOMAIN code \/ interpreter!RunOff
  BY Running
<1> QED
  BY <1>1, ComputingStep, CopyingStep, StackingStep, AllocatingStep, SexpStep, ClosureStep,
     StoringStep, JumpingStep, StoppingStep, BeginStep, ReturnStep, CallStep, Zenon
     DEF interpreter!INext

-----------------------------------------------------------------------------
(* The whole process.                                                      *)

TypesInv == VerifierInv /\ ITypes /\ checking \in BOOLEAN /\ strayed \in BOOLEAN

LEMMA InitTypesInv == Init => TypesInv
<1> SUFFICES ASSUME Init PROVE TypesInv
  OBVIOUS
<1>1. interpreter!IInit /\ checking \in BOOLEAN /\ strayed = FALSE
  BY Zenon DEF Init
<1>2. /\ ip = 0 /\ frames = << >> /\ size = Globals + 2 /\ is_tmp_closure = FALSE
      /\ heap = << >> /\ status = "running"
      /\ stack = [c \in interpreter!Cells |-> interpreter!Raw]
  BY <1>1, Zenon DEF interpreter!IInit
<1>3. GoodHeap(heap)
  <2>1. << >> \in Seq({}) /\ DOMAIN << >> = {}
    OBVIOUS
  <2>2. IsSequence(<< >>)
    BY <2>1, IsSequenceRule
  <2> QED
    BY <1>2, <2>1, <2>2, Zenon DEF GoodHeap
<1>4. GoodStack(stack, heap)
  BY <1>2, ComputedGood DEF GoodStack
<1>5. size \in Nat /\ Len(frames) <= MaxFrames
      /\ frames \in Seq(FrameRecords)
  BY <1>2, VerifierAssumption, InterpreterAssumption
<1>6. ITypes
  <2>1. /\ ip \in Int /\ is_tmp_closure \in BOOLEAN
        /\ status \in {"running", "done", "failed", "undefined"}
    <3>1. ip = 0 /\ is_tmp_closure = FALSE /\ status = "running"
      BY <1>2, Zenon
    <3>2. 0 \in Int
      OBVIOUS
    <3> QED
      BY <3>1, <3>2, Zenon
  <2> QED
    BY <1>3, <1>4, <1>5, <2>1, Zenon DEF ITypes
<1> QED
  BY <1>1, <1>6, InitVerifierInv DEF TypesInv

LEMMA NextTypesInv == TypesInv /\ [Next]_vars => TypesInv'
<1> SUFFICES ASSUME TypesInv, [Next]_vars PROVE TypesInv'
  OBVIOUS
<1>1. VerifierInv'
  BY NextVerifierInv DEF TypesInv
<1>2. CASE verify
  <2>1. UNCHANGED <<ip, frames, stack, size, is_tmp_closure, heap, status>>
        /\ checking' = checking /\ strayed' = (strayed \/ Straying)
    BY <1>2 DEF verify, only_ivars
  <2>2. strayed' \in BOOLEAN
    BY <2>1, Zenon
  <2>3. ITypes'
    BY <2>1 DEF ITypes, TypesInv
  <2> QED
    BY <1>1, <2>1, <2>2, <2>3 DEF TypesInv
<1>3. CASE interpret
  <2>1. interpreter!INext /\ strayed' = strayed
    BY <1>3 DEF interpret
  <2>2. ITypes'
    BY <2>1, StepInterpreter, Zenon DEF TypesInv, VerifierInv, VTypes, Stepped
  <2> QED
    BY <1>1, <2>1, <2>2, CodeUnwritten DEF TypesInv
<1>4. CASE UNCHANGED vars
  <2>1. UNCHANGED <<ip, frames, stack, size, is_tmp_closure, heap, status>>
        /\ checking' = checking /\ strayed' = strayed
    BY <1>4 DEF vars, only_ivars
  <2>2. ITypes'
    BY <2>1 DEF ITypes, TypesInv
  <2> QED
    BY <1>1, <2>1, <2>2 DEF TypesInv
<1> QED
  BY <1>2, <1>3, <1>4 DEF Next

(* The work list and the depths of the verifier stay within bounds, the    *)
(* frames of the interpreter are no more than there is room for, and a     *)
(* reference on its stack is one to an object, whatever the programs are:  *)
(* what the interpreter does not validate ends in a state that it does not *)
(* go on from (verifier.cpp, interpreter.cpp).                             *)
THEOREM TypeCorrect == Spec => []TypeOK
<1>1. TypesInv => TypeOK
  <2> SUFFICES ASSUME TypesInv PROVE TypeOK
    OBVIOUS
  <2>1. VTypes /\ Paired /\ ITypes /\ checking \in BOOLEAN /\ strayed \in BOOLEAN
    BY Zenon DEF TypesInv, VerifierInv
  <2>2. \A w \in DOMAIN workset : workset[w].frame \in BOOLEAN /\ workset[w].val \in Nat
    <3>1. \A w \in DOMAIN workset : workset[w] \in Entries
      BY <2>1, LenProperties DEF VTypes
    <3> QED
      BY <3>1 DEF Entries
  <2>3. \A w \in DOMAIN workset : ~workset[w].frame => workset[w].val \in DOMAIN code
    BY <2>1, InToVisit DEF VTypes
  <2>4. frames_depth \in Nat
    BY <2>1, PairsCounted DEF VTypes, Paired
  <2>5. \A c \in DOMAIN stack : interpreter!is_object(stack[c]) => stack[c].at \in DOMAIN heap
    <3>1. DOMAIN stack = interpreter!Cells
      <4>1. stack = [c \in interpreter!Cells |-> stack[c]]
        BY <2>1, Zenon DEF ITypes, GoodStack
      <4> QED
        BY <4>1
    <3> QED
      BY <2>1, <3>1 DEF ITypes, GoodStack, Good, interpreter!is_object
  <2> QED
    BY <2>1, <2>2, <2>3, <2>4, <2>5 DEF VTypes, ITypes, TypeOK, Depths
<1> QED
  BY <1>1, InitTypesInv, NextTypesInv, PTL DEF Spec

-----------------------------------------------------------------------------
(* When the verifier has come to its end, what has a depth leads only to   *)
(* what has one.                                                           *)
LEMMA AllFollowed ==
  ASSUME VerifierInv, workset = << >>
  PROVE  /\ Verified(Entry)
         /\ \A a \in DOMAIN code : Verified(a) => \A b \in Flow(a) : Verified(b)
<1>1. ToVisit(workset) = {}
  BY DEF ToVisit
<1>2. Seen = {a \in DOMAIN code : HasValue(stack_sizes[a])}
  BY <1>1, Zenon DEF Seen
<1>3. Verified(Entry)
  BY <1>2, Zenon DEF VerifierInv, Scanned, Verified
<1>4. ASSUME NEW a \in DOMAIN code, HasValue(stack_sizes[a]), NEW b \in Flow(a)
      PROVE  HasValue(stack_sizes[b])
  <2>1. stack_sizes[a] \in Int
    BY DepthsAreInts DEF VerifierInv, VTypes
  <2>2. IsProcessed(stack_sizes[a]) \/ IsInitial(stack_sizes[a])
    BY <1>4, <2>1, DepthCases
  <2>3. Followed(a)
    BY <1>1, <2>2, Zenon DEF VerifierInv, Scanned
  <2> QED
    BY <1>2, <1>4, <2>3, Zenon DEF Followed
<1> QED
  BY <1>3, <1>4, Zenon DEF Verified

-----------------------------------------------------------------------------
(* The depth of the stack.  The verifier writes into the code at BEGINs    *)
(* only: what it returns to are functions.                                 *)

Functions == {a \in DOMAIN code : code[a].op \in Begins}
Nested ==
  IF code[Entry].op \in Begins
  THEN current_frame_addr \in Functions /\ PairedList(workset, frames_depth, Functions)
  ELSE /\ workset = <<FromInstruction(Entry)>> /\ frames_depth = 0
       /\ stack_sizes[Entry] = NoValue

(* What the verifier leaves of the code.                                   *)
Kept ==
  /\ DOMAIN code' = DOMAIN code
  /\ \A a \in DOMAIN code :
       /\ code'[a].op = code[a].op /\ code'[a].a = code[a].a
       /\ code[a].op \notin Begins => code'[a] = code[a]

LEMMA EntryWaits ==
  ASSUME Nested, code[Entry].op \notin Begins, VNext
  PROVE  code' = code /\ Nested'
<1>1. /\ workset = <<FromInstruction(Entry)>> /\ frames_depth = 0
      /\ stack_sizes[Entry] = NoValue
  BY DEF Nested
<1>2. workset # << >> /\ Last(workset) = FromInstruction(Entry)
  BY <1>1 DEF Last
<1>3. ~Last(workset).frame /\ Addr = Entry
  BY <1>2 DEF FromInstruction, Addr
<1>4. ~Again /\ ~VisitValid
  BY <1>1, <1>3 DEF Again, IsProcessed, NoValue, VisitValid, Op
<1>5. Reject
  BY <1>2, <1>3, <1>4 DEF VNext, LeaveFrame, Revisit, Advance, Jump, CondJump, Call, EnterFrame, Return,
    Visit, Accept
<1>6. UNCHANGED <<code, workset, frames_depth, stack_sizes>>
  BY <1>5 DEF Reject, frame_vars
<1> QED
  BY <1>1, <1>6 DEF Nested

LEMMA CodeKept ==
  ASSUME VTypes, Paired, Nested, VNext
  PROVE  Kept
<1>1. CASE Return /\ code[Entry].op \in Begins
  <2>1. current_frame_addr \in DOMAIN code /\ code[current_frame_addr].op \in Begins
    BY <1>1 DEF Nested, Functions
  <2>2. Measured \in Int /\ get_locals_size \in Int
    <3>1. Measured \in 0..MaxStack /\ MaxStack \in Int
      BY <1>1, DepthRecorded, VerifierAssumption DEF Return, Visit
    <3>2. code[current_frame_addr].b \in Int
      BY <2>1, CodeType DEF VTypes
    <3> QED
      BY <3>1, <3>2 DEF get_locals_size
  <2>3. code' = [code EXCEPT ![current_frame_addr].b = Pack(Measured, get_locals_size)]
    BY <1>1, Zenon DEF Return
  <2>4. Pack(Measured, get_locals_size) \in Int /\ IsCode(code)
    BY <2>2, PackType DEF VTypes
  <2>5. /\ DOMAIN code' = DOMAIN code
        /\ \A c \in DOMAIN code : /\ code'[c].op = code[c].op /\ code'[c].a = code[c].a
                                  /\ (c # current_frame_addr => code'[c] = code[c])
    BY <2>1, <2>3, <2>4, DepthStored
  <2> QED
    BY <2>1, <2>5, Zenon DEF Kept
<1>2. CASE ~Return
  <2>1. code' = code
    BY <1>2 DEF VNext, LeaveFrame, Revisit, Advance, Jump, CondJump, Call, EnterFrame, Reject, Accept
  <2> QED
    BY <2>1 DEF Kept
<1>3. CASE code[Entry].op \notin Begins
  BY <1>3, EntryWaits DEF Kept
<1> QED
  BY <1>1, <1>2, <1>3

LEMMA EntryPushed ==
  ASSUME NEW ws \in Seq(Entries), NEW depth, NEW addresses, PairedList(ws, depth, addresses),
         NEW a \in Nat
  PROVE  /\ Append(ws, FromInstruction(a)) \in Seq(Entries)
         /\ PairedList(Append(ws, FromInstruction(a)), depth, addresses)
<1>1. FromInstruction(a) \in Entries /\ ~FromInstruction(a).frame
  BY DEF FromInstruction, Entries
<1> QED
  BY <1>1, ListPushed, PushedEntry, Zenon

LEMMA StepNested ==
  ASSUME VTypes, Paired, Nested, Entry \in DOMAIN code, VNext
  PROVE  Nested'
<1>1. Kept
  BY CodeKept
<1>2. Functions' = Functions /\ (code'[Entry].op \in Begins <=> code[Entry].op \in Begins)
  BY <1>1 DEF Kept, Functions
<1>3. CASE code[Entry].op \notin Begins
  BY <1>3, EntryWaits
<1>4. CASE code[Entry].op \in Begins
  <2>1. /\ current_frame_addr \in Functions /\ workset \in Seq(Entries)
        /\ PairedList(workset, frames_depth, Functions)
    BY <1>4 DEF Nested, VTypes
  <2>2. SUFFICES /\ current_frame_addr' \in Functions
                 /\ PairedList(workset', frames_depth', Functions)
    BY <1>2, <1>4 DEF Nested
  <2>3. CASE Reject \/ Accept
    BY <2>1, <2>3 DEF Reject, Accept, frame_vars
  <2>4. CASE LeaveFrame
    <3>1. /\ workset # << >> /\ Last(workset).frame
          /\ workset' = Front(Front(workset)) /\ frames_depth' = frames_depth - 1
          /\ current_frame_addr' = Last(workset).val
      BY <2>4, Zenon DEF LeaveFrame, Rest
    <3>2. /\ Last(workset).val \in Functions
          /\ PairedList(Front(Front(workset)), frames_depth - 1, Functions)
      BY <2>1, <3>1, ListLeft
    <3> QED
      BY <3>1, <3>2
  <2>5. CASE ~(Reject \/ Accept) /\ ~LeaveFrame
    <3>1. Visiting
      BY <2>5, Zenon DEF VNext, Revisit, Advance, Jump, CondJump, Call, EnterFrame, Return, Visit
    <3>2. /\ Rest \in Seq(Entries) /\ PairedList(Rest, frames_depth, Functions)
          /\ Addr \in DOMAIN code
      <4>1. workset # << >> /\ ~Last(workset).frame
        BY <3>1 DEF Visiting
      <4> QED
        BY <2>1, <3>1, <4>1, ListPopped, Visited DEF Rest
    <3>3. \A a \in DOMAIN code : a \in Nat
      BY CodeType DEF VTypes
    <3>4. CASE Revisit
      BY <2>1, <3>2, <3>4 DEF Revisit, frame_vars
    <3>5. ASSUME ~Revisit PROVE Addr + 1 \in Nat /\ (Op \in {"JMP", "CALL"} \union CondJumps => code[Addr].a \in Nat)
      <4>1. VisitValid
        BY <2>5, <3>5, Zenon DEF VNext, Advance, Jump, CondJump, Call, EnterFrame, Return, Visit
      <4> QED
        BY <3>3, <4>1 DEF VisitValid, OperandsValid, Op
    <3>6. CASE Advance \/ Jump
      <4>1. ~Revisit /\ frames_depth' = frames_depth /\ current_frame_addr' = current_frame_addr
        BY <3>6 DEF Advance, Jump, frame_vars, Revisit, Visit
      <4>2. \E a \in Nat : workset' = Append(Rest, FromInstruction(a))
        BY <3>5, <3>6, <4>1 DEF Advance, Jump, Visit
      <4> QED
        BY <2>1, <3>2, <4>1, <4>2, EntryPushed
    <3>7. CASE CondJump \/ Call
      <4>1. ~Revisit /\ frames_depth' = frames_depth /\ current_frame_addr' = current_frame_addr
        BY <3>7 DEF CondJump, Call, frame_vars, Revisit, Visit
      <4> DEFINE x == FromInstruction(code[Addr].a)
                 y == FromInstruction(Addr + 1)
      <4>2. Addr + 1 \in Nat /\ code[Addr].a \in Nat
        BY <3>5, <3>7, <4>1 DEF CondJump, Call, Visit
      <4>3. /\ Append(Rest, x) \in Seq(Entries) /\ PairedList(Append(Rest, x), frames_depth, Functions)
            /\ PairedList(Append(Rest, y), frames_depth, Functions)
        BY <3>2, <4>2, EntryPushed
      <4>4. PairedList(Append(Append(Rest, x), y), frames_depth, Functions)
        BY <4>2, <4>3, EntryPushed
      <4>5. x \in Entries /\ y \in Entries
        BY <4>2 DEF FromInstruction, Entries
      <4>6. workset' \in {Append(Rest, y), Append(Append(Rest, x), y)}
        <5>1. CASE Call \/ ~HasValue(Recorded[code[Addr].a])
          <6>1. workset' \in {Rest \o <<x, y>>, (Rest \o <<x>>) \o <<y>>}
            BY <3>7, <5>1 DEF Call, CondJump
          <6>2. Rest \o <<x, y>> = Append(Append(Rest, x), y)
            BY <3>2, <4>5, TwoAppended
          <6>3. (Rest \o <<x>>) \o <<y>> = Append(Append(Rest, x), y)
            BY <3>2, <4>3, <4>5, AppendIsConcat
          <6> QED
            BY <6>1, <6>2, <6>3
        <5>2. CASE CondJump /\ HasValue(Recorded[code[Addr].a])
          <6>1. workset' = (Rest \o << >>) \o <<y>>
            BY <5>2 DEF CondJump
          <6>2. Rest \o << >> = Rest
            BY <3>2, ConcatEmptySeq
          <6> QED
            BY <3>2, <4>5, <6>1, <6>2, AppendIsConcat
        <5> QED
          BY <3>7, <5>1, <5>2
      <4> QED
        BY <2>1, <4>1, <4>3, <4>4, <4>6
    <3>8. CASE EnterFrame
      <4> DEFINE d == FromFrame(Measured)
                 a == FromFrame(current_frame_addr)
                 i == FromInstruction(Addr + 1)
      <4>1. /\ workset' = Rest \o <<d, a, i>> /\ current_frame_addr' = Addr
            /\ frames_depth' = frames_depth + 1 /\ Op \in Begins /\ ~Revisit
        BY <3>8 DEF EnterFrame, Revisit, Visit
      <4>2. Measured \in 0..MaxStack /\ Addr + 1 \in Nat /\ current_frame_addr \in Nat
        BY <2>1, <3>3, <3>5, <3>8, <4>1, DepthRecorded DEF EnterFrame, Visit, VTypes
      <4>3. d \in Entries /\ a \in Entries /\ i \in Entries
        BY <4>2, VerifierAssumption DEF FromFrame, FromInstruction, Entries
      <4>4. /\ Append(Append(Rest, d), a) \in Seq(Entries)
            /\ PairedList(Append(Append(Rest, d), a), frames_depth + 1, Functions)
        BY <2>1, <3>2, <4>2, ListEntered
      <4>5. PairedList(Append(Append(Append(Rest, d), a), i), frames_depth + 1, Functions)
        BY <4>2, <4>4, EntryPushed
      <4>6. Rest \o <<d, a, i>> = Append(Append(Append(Rest, d), a), i)
        BY <3>2, <4>3, ThreeAppended
      <4>7. Addr \in Functions
        BY <3>2, <4>1 DEF Functions, Op
      <4> QED
        BY <4>1, <4>5, <4>6, <4>7
    <3>9. CASE Return
      <4>1. current_frame_addr' = current_frame_addr
        BY <3>9 DEF Return
      <4>2. CASE Rest # << >> /\ Last(Rest).frame
        <5>1. workset' = Front(Front(Rest)) /\ frames_depth' = frames_depth - 1
          BY <3>9, <4>2 DEF Return
        <5>2. PairedList(Front(Front(Rest)), frames_depth - 1, Functions)
          BY <3>2, <4>2, ListLeft
        <5> QED
          BY <2>1, <4>1, <5>1, <5>2
      <4>3. CASE ~(Rest # << >> /\ Last(Rest).frame)
        <5>1. workset' = Rest /\ frames_depth' = frames_depth
          BY <3>9, <4>3 DEF Return
        <5> QED
          BY <2>1, <3>2, <4>1, <5>1
      <4> QED
        BY <4>2, <4>3
    <3> QED
      BY <2>5, <3>4, <3>6, <3>7, <3>8, <3>9 DEF VNext
  <2> QED
    BY <2>3, <2>4, <2>5
<1> QED
  BY <1>3, <1>4

(* Where control reaches each instruction: what the labels of a well-formed*)
(* program say of an instruction and of those that follow.                 *)
Labelled(a) == a \in DOMAIN code /\ labels[a].addr = a
Labelling ==
  /\ \A a \in DOMAIN code : code[a].op \in Begins => Labelled(a) /\ labels[a].depth = 0
  /\ \A a \in DOMAIN code : Labelled(a) =>
       /\ code[a].op \in Checkable /\ labels[a].depth \in Nat /\ CallsMatch(code, code[a])
       /\ \A s \in Successors(code, a) :
            /\ Labelled(s) /\ code[s].op \notin Begins
            /\ labels[s].depth = labels[a].depth + Net(code[a])

LEMMA InitLabelling == Init /\ compiled => Labelling
<1> SUFFICES ASSUME Init, compiled PROVE Labelling
  OBVIOUS
<1> DEFINE reached == Reached(code)
<1>1. labels = Labels(code, reached) /\ Disciplined(code, reached) /\ IsCode(code)
  <2>1. code \in Programs \union Unverified
    BY DEF Init
  <2> QED
    BY <2>1, ProgramsAssumption, Zenon DEF Init
<1> HIDE DEF reached
<1>2. \A r \in reached : /\ r.addr \in DOMAIN code /\ r.fn \in DOMAIN code /\ r.depth \in Nat
                          /\ r = Reach(r.addr, r.fn, r.depth)
                          /\ Onward(code, r) \subseteq reached
  BY <1>1 DEF Disciplined, Complete, Reach
<1>3. ASSUME NEW r \in reached PROVE labels[r.addr] = r
  <2>1. \A q \in reached : q.addr = r.addr => q = r
    BY <1>1, Zenon DEF Disciplined
  <2>2. (CHOOSE q \in reached : q.addr = r.addr) = r
    BY <2>1
  <2>3. r.addr \in DOMAIN code
    BY <1>2
  <2> QED
    BY <1>1, <2>2, <2>3 DEF Labels
<1>4. ASSUME NEW a \in DOMAIN code, Labelled(a)
      PROVE  labels[a] \in reached
  <2>1. DOMAIN code \subseteq Nat
    BY <1>1, CodeType
  <2>2. a # -1
    BY <2>1
  <2>3. Unlabelled.addr = -1
    BY DEF Unlabelled, Reach
  <2>4. \E r \in reached : r.addr = a
    BY <1>1, <1>4, <2>2, <2>3 DEF Labels, Labelled
  <2> QED
    BY <1>1, <2>4 DEF Labels
<1>5. ASSUME NEW a \in DOMAIN code, code[a].op \in Begins
      PROVE  Labelled(a) /\ labels[a].depth = 0
  <2>1. Reach(a, a, 0) \in reached
    BY <1>1, <1>5 DEF Disciplined, Complete, Starts
  <2>2. Reach(a, a, 0).addr = a /\ Reach(a, a, 0).depth = 0
    BY DEF Reach
  <2> QED
    BY <1>3, <2>1, <2>2 DEF Labelled
<1>6. ASSUME NEW a \in DOMAIN code, Labelled(a)
      PROVE  /\ code[a].op \in Checkable /\ labels[a].depth \in Nat /\ CallsMatch(code, code[a])
             /\ \A s \in Successors(code, a) :
                  /\ Labelled(s) /\ code[s].op \notin Begins
                  /\ labels[s].depth = labels[a].depth + Net(code[a])
  <2> DEFINE r == labels[a]
  <2>1. r \in reached /\ r.addr = a
    BY <1>4, <1>6 DEF Labelled
  <2> HIDE DEF r
  <2>2. /\ code[a].op \in Checkable /\ CallsMatch(code, code[a])
        /\ Successors(code, a) \subseteq DOMAIN code
        /\ EntersByCall(code, a)
    BY <1>1, <2>1, Zenon DEF Disciplined
  <2>3. ASSUME NEW s \in Successors(code, a)
        PROVE  /\ Labelled(s) /\ code[s].op \notin Begins
               /\ labels[s].depth = r.depth + Net(code[a])
    <3> DEFINE q == Reach(s, r.fn, r.depth + Net(code[a]))
    <3>1. s \in DOMAIN code /\ code[s].op \notin Begins
      BY <2>2 DEF EntersByCall
    <3>2. q \in Onward(code, r)
      BY <2>1, <2>3, <3>1 DEF Onward
    <3>3. q \in reached /\ q.addr = s /\ q.depth = r.depth + Net(code[a])
      BY <1>2, <2>1, <3>2 DEF Reach
    <3> HIDE DEF q
    <3>4. labels[s] = q
      BY <1>3, <3>3
    <3> QED
      BY <3>1, <3>3, <3>4 DEF Labelled
  <2>4. r.depth \in Nat
    BY <1>2, <2>1
  <2> QED
    BY <2>2, <2>3, <2>4 DEF r
<1> QED
  BY <1>5, <1>6 DEF Labelling

LEMMA BeginNet == \A i : i.op \in Begins => Net(i) = 0
BY DEF Begins, Net, StackDelta, Consuming, Producing, Arithmetic, CondJumps, Loads, References

LEMMA LabellingKept ==
  ASSUME Kept, labels' = labels, Labelling
  PROVE  Labelling'
<1>1. \A a \in DOMAIN code :
        /\ code'[a].op = code[a].op /\ code'[a].a = code[a].a
        /\ code[a].op \notin Begins => code'[a] = code[a]
  BY DEF Kept
<1>2. DOMAIN code' = DOMAIN code /\ \A a : Labelled(a)' <=> Labelled(a)
  BY DEF Kept, Labelled
<1>3. ASSUME NEW a \in DOMAIN code
      PROVE  Successors(code', a) = Successors(code, a) /\ Net(code'[a]) = Net(code[a])
  <2>1. Successors(code', a) = Successors(code, a)
    BY <1>1 DEF Successors
  <2>2. Net(code'[a]) = Net(code[a])
    BY <1>1, BeginNet, Zenon
  <2> QED
    BY <2>1, <2>2
<1>4. ASSUME NEW a \in DOMAIN code, CallsMatch(code, code[a])
      PROVE  CallsMatch(code', code'[a])
  <2>1. CASE code[a].op \in Begins
    BY <1>1, <2>1 DEF CallsMatch, Begins
  <2>2. CASE code[a].op \notin Begins
    <3>1. code'[a] = code[a]
      BY <1>1, <2>2
    <3> QED
      BY <1>1, <1>2, <1>4, <3>1, Zenon DEF CallsMatch
  <2> QED
    BY <2>1, <2>2
<1>5. ASSUME NEW a \in DOMAIN code, Labelled(a)
      PROVE  /\ code'[a].op \in Checkable /\ labels'[a].depth \in Nat /\ CallsMatch(code', code'[a])
             /\ \A s \in Successors(code', a) :
                  /\ Labelled(s) /\ code'[s].op \notin Begins
                  /\ labels'[s].depth = labels'[a].depth + Net(code'[a])
  <2>1. /\ code[a].op \in Checkable /\ labels[a].depth \in Nat /\ CallsMatch(code, code[a])
        /\ \A s \in Successors(code, a) :
             /\ Labelled(s) /\ code[s].op \notin Begins
             /\ labels[s].depth = labels[a].depth + Net(code[a])
    BY <1>5, Zenon DEF Labelling
  <2>2. \A s : Labelled(s) => s \in DOMAIN code
    BY DEF Labelled
  <2> QED
    BY <1>1, <1>3, <1>4, <2>1, <2>2, Zenon
<1>6. ASSUME NEW a \in DOMAIN code, code'[a].op \in Begins
      PROVE  Labelled(a) /\ labels'[a].depth = 0
  BY <1>1, <1>6, Zenon DEF Labelling
<1> QED
  BY <1>2, <1>5, <1>6, Zenon DEF Labelling

(* What the instructions that stay within a function do to the depth.  STA *)
(* is not among those that a well-formed program has.                      *)
Stays == frames' = frames /\ is_tmp_closure' = is_tmp_closure
Steers ==
  \/ status' # "running"
  \/ /\ Stays /\ code[ip].op \notin Begins
     /\ code[ip].op # "STA" => size' = size + Net(code[ip]) /\ ip' \in Successors(code, ip)
Bumped(n, k) == Stays /\ size' = size - n + k /\ ip' = ip + 1
Plain(op) == op \notin Terminal \union {"JMP"} \union CondJumps \union Begins
Taking == Arithmetic \union CondJumps \union {"LOW_EQ", "STI", "DROP", "ELEM", "PATT_STR"}
Adding == Loads \union References \union {"CONST", "STRING", "DUP", "CALL_LREAD", "CLOSURE"}
Keeping ==
  Stores \union Patterns
    \union {"TAG", "ARRAY", "CALL_LLENGTH", "CALL_LSTRING", "CALL_LWRITE", "SWAP", "LINE", "JMP"}

LEMMA Nets ==
  \A i : /\ i.op \in Taking => Net(i) = -1
         /\ i.op \in Adding => Net(i) = 1
         /\ i.op \in Keeping => Net(i) = 0
         /\ i.op \in {"SEXP", "CALL"} => Net(i) = 1 - i.b
         /\ i.op = "CALL_BARRAY" => Net(i) = 1 - i.a
         /\ i.op = "CALLC" => Net(i) = -i.a
BY DEF Taking, Adding, Keeping, Net, StackDelta, Consuming, Producing, Arithmetic, CondJumps, Loads,
       References, Stores, Patterns

LEMMA NextFollows ==
  ASSUME Plain(code[ip].op) \/ code[ip].op \in Begins
  PROVE  Successors(code, ip) = {ip + 1}
BY DEF Successors, Plain, Terminal, CondJumps, Begins

LEMMA StuckSteers ==
  ASSUME Stuck
  PROVE  Steers
BY DEF Stuck, Steers, interpreter!Fail, interpreter!Undefined

LEMMA BumpedSteers ==
  ASSUME ITypes, NEW n \in Int, NEW k \in Int, Bumped(n, k),
         Plain(code[ip].op),
         code[ip].op # "STA" => Net(code[ip]) = k - n
  PROVE  Steers
<1>1. Successors(code, ip) = {ip + 1} /\ size \in Int
  BY NextFollows DEF ITypes
<1>2. code[ip].op # "STA" => size' = size + Net(code[ip])
  BY <1>1 DEF Bumped
<1> QED
  BY <1>1, <1>2 DEF Bumped, Steers, Plain

LEMMA PushBumps ==
  ASSUME NEW n, NEW vals, interpreter!Push(n, vals)
  PROVE  Stuck \/ Bumped(n, Len(vals))
BY DEF interpreter!Push, interpreter!PushAt, interpreter!Trap, Stuck, Bumped, Stays

Replaced(n) == \E v : interpreter!Replace(n, <<v>>)

LEMMA ReplacedSteers ==
  ASSUME ITypes, NEW n \in Int, Replaced(n),
         Plain(code[ip].op),
         Net(code[ip]) = 1 - n
  PROVE  Steers
<1>1. PICK v : interpreter!Push(n, <<v>>)
  BY Zenon DEF Replaced, interpreter!Replace
<1>2. Len(<<v>>) = 1
  OBVIOUS
<1>3. Stuck \/ Bumped(n, 1)
  BY <1>1, <1>2, PushBumps
<1> QED
  BY <1>3, StuckSteers, BumpedSteers

LEMMA ComputingSteers ==
  ASSUME ITypes,
         \/ interpreter!ExecuteBinop \/ interpreter!ExecuteLowEq \/ interpreter!ExecuteConst
         \/ interpreter!ExecuteLength \/ interpreter!ExecuteReference
         \/ interpreter!ExecuteTag \/ interpreter!ExecuteArray \/ interpreter!ExecutePattStr
         \/ interpreter!ExecutePattern \/ interpreter!ExecuteRead \/ interpreter!ExecuteWrite
         \/ interpreter!ExecuteElem \/ interpreter!ExecuteDup \/ interpreter!ExecuteLoad
  PROVE  Steers
<1> DEFINE op == code[ip].op
<1>1. op \in (Taking \ CondJumps) \union Adding \union (Keeping \ {"JMP"}) => Plain(op)
  BY DEF Taking, Adding, Keeping, Plain, Terminal, CondJumps, Begins, Arithmetic, Loads, References,
         Stores, Patterns
<1>2. /\ op \in Taking \ CondJumps /\ Replaced(2) => Steers
      /\ op \in Adding /\ Replaced(0) => Steers
      /\ op \in Keeping \ {"JMP"} /\ Replaced(1) => Steers
  BY <1>1, Nets, ReplacedSteers
<1>3. /\ Arithmetic \subseteq Taking \ CondJumps /\ References \subseteq Adding
      /\ Loads \subseteq Adding /\ Patterns \subseteq Keeping \ {"JMP"}
      /\ {"LOW_EQ", "PATT_STR", "ELEM"} \subseteq Taking \ CondJumps
      /\ {"CONST", "CALL_LREAD", "DUP"} \subseteq Adding
      /\ {"CALL_LLENGTH", "TAG", "ARRAY", "CALL_LWRITE"} \subseteq Keeping \ {"JMP"}
  BY DEF Taking, Adding, Keeping, Arithmetic, Loads, References, Patterns, CondJumps
<1> HIDE DEF op
<1>4. CASE \/ interpreter!ExecuteBinop \/ interpreter!ExecuteLowEq \/ interpreter!ExecutePattStr
           \/ interpreter!ExecuteElem
  <2>1. Stuck \/ (op \in Arithmetic \union {"LOW_EQ", "PATT_STR", "ELEM"} /\ Replaced(2))
    <3>1. CASE interpreter!ExecuteBinop
      BY <3>1, SameBytecode, Zenon DEF interpreter!ExecuteBinop, interpreter!Execute,
         interpreter!Running, interpreter!I, interpreter!Trap, Stuck, Replaced, op
    <3>2. CASE interpreter!ExecuteLowEq
      BY <3>2, Zenon DEF interpreter!ExecuteLowEq, interpreter!Execute,
         interpreter!Running, interpreter!I, interpreter!Trap, Stuck, Replaced, op
    <3>3. CASE interpreter!ExecutePattStr
      BY <3>3, Zenon DEF interpreter!ExecutePattStr, interpreter!Execute,
         interpreter!Running, interpreter!I, interpreter!Trap, Stuck, Replaced, op
    <3>4. CASE interpreter!ExecuteElem
      BY <3>4, Zenon DEF interpreter!ExecuteElem, interpreter!Execute,
         interpreter!Running, interpreter!I, interpreter!Trap, Stuck, Replaced, op
    <3> QED
      BY <1>4, <3>1, <3>2, <3>3, <3>4
  <2> QED
    BY <1>2, <1>3, <2>1, StuckSteers
<1>5. CASE \/ interpreter!ExecuteConst \/ interpreter!ExecuteReference \/ interpreter!ExecuteRead
           \/ interpreter!ExecuteDup \/ interpreter!ExecuteLoad
  <2>1. Stuck \/ (op \in Loads \union References \union {"CONST", "CALL_LREAD", "DUP"} /\ Replaced(0))
    <3>1. CASE interpreter!ExecuteConst
      BY <3>1, Zenon DEF interpreter!ExecuteConst, interpreter!Execute,
         interpreter!Running, interpreter!I, interpreter!Trap, Stuck, Replaced, op
    <3>2. CASE interpreter!ExecuteReference
      BY <3>2, SameBytecode, Zenon DEF interpreter!ExecuteReference, interpreter!Execute,
         interpreter!Running, interpreter!I, interpreter!Trap, Stuck, Replaced, op
    <3>3. CASE interpreter!ExecuteRead
      BY <3>3, Zenon DEF interpreter!ExecuteRead, interpreter!Execute,
         interpreter!Running, interpreter!I, interpreter!Trap, Stuck, Replaced, op
    <3>4. CASE interpreter!ExecuteDup
      BY <3>4, Zenon DEF interpreter!ExecuteDup, interpreter!Execute,
         interpreter!Running, interpreter!I, interpreter!Trap, Stuck, Replaced, op
    <3>5. CASE interpreter!ExecuteLoad
      BY <3>5, SameBytecode, Zenon DEF interpreter!ExecuteLoad, interpreter!Execute,
         interpreter!Running, interpreter!I, interpreter!Trap, Stuck, Replaced, op
    <3> QED
      BY <1>5, <3>1, <3>2, <3>3, <3>4, <3>5
  <2> QED
    BY <1>2, <1>3, <2>1, StuckSteers
<1>6. CASE \/ interpreter!ExecuteLength \/ interpreter!ExecuteTag \/ interpreter!ExecuteArray
           \/ interpreter!ExecutePattern \/ interpreter!ExecuteWrite
  <2>1. Stuck \/ (/\ op \in Patterns \union {"CALL_LLENGTH", "TAG", "ARRAY", "CALL_LWRITE"}
                  /\ Replaced(1))
    <3>1. CASE interpreter!ExecuteLength
      BY <3>1, Zenon DEF interpreter!ExecuteLength, interpreter!Execute,
         interpreter!Running, interpreter!I, interpreter!Trap, Stuck, Replaced, op
    <3>2. CASE interpreter!ExecuteTag
      BY <3>2, Zenon DEF interpreter!ExecuteTag, interpreter!Execute,
         interpreter!Running, interpreter!I, interpreter!Trap, Stuck, Replaced, op
    <3>3. CASE interpreter!ExecuteArray
      BY <3>3, Zenon DEF interpreter!ExecuteArray, interpreter!Execute,
         interpreter!Running, interpreter!I, interpreter!Trap, Stuck, Replaced, op
    <3>4. CASE interpreter!ExecutePattern
      BY <3>4, SameBytecode, Zenon DEF interpreter!ExecutePattern, interpreter!Execute,
         interpreter!Running, interpreter!I, interpreter!Trap, Stuck, Replaced, op
    <3>5. CASE interpreter!ExecuteWrite
      BY <3>5, Zenon DEF interpreter!ExecuteWrite, interpreter!Execute,
         interpreter!Running, interpreter!I, interpreter!Trap, Stuck, Replaced, op
    <3> QED
      BY <1>6, <3>1, <3>2, <3>3, <3>4, <3>5
  <2> QED
    BY <1>2, <1>3, <2>1, StuckSteers
<1> QED
  BY <1>4, <1>5, <1>6

LEMMA AllocatingSteers ==
  ASSUME ITypes, IsCode(code), ip \in DOMAIN code,
         \/ interpreter!ExecuteString \/ interpreter!ExecuteToString \/ interpreter!ExecuteBarray
         \/ interpreter!ExecuteSexp \/ interpreter!ExecuteClosure
  PROVE  Steers
<1>1. interpreter!I = code[ip] /\ interpreter!I.a \in Int /\ interpreter!I.b \in Int
  BY CodeType DEF interpreter!I
<1>2. ASSUME NEW n \in Int, NEW object, interpreter!Allocate(n, object)
      PROVE  Stuck \/ Bumped(n, 1)
  <2>1. interpreter!Trap \/ interpreter!Push(n, <<interpreter!Ref(interpreter!New)>>)
    BY <1>2, Zenon DEF interpreter!Allocate
  <2>2. \A v : Len(<<v>>) = 1
    OBVIOUS
  <2> QED
    BY <2>1, <2>2, PushBumps, Zenon DEF interpreter!Trap, Stuck
<1>3. ASSUME NEW n \in Int, Bumped(n, 1), Net(code[ip]) = 1 - n,
             code[ip].op \in {"STRING", "CALL_LSTRING", "CALL_BARRAY", "SEXP", "CLOSURE"}
      PROVE  Steers
  <2>1. Plain(code[ip].op)
    BY <1>3 DEF Plain, Terminal, CondJumps, Begins
  <2> QED
    BY <1>3, <2>1, BumpedSteers
<1>4. CASE interpreter!ExecuteString
  <2>1. Stuck \/ (code[ip].op = "STRING" /\ \E object : interpreter!Allocate(0, object))
    BY <1>4, Zenon DEF interpreter!ExecuteString, interpreter!Execute,
       interpreter!Running, interpreter!I, interpreter!Trap, Stuck
  <2>2. code[ip].op = "STRING" => Net(code[ip]) = 1
    BY Nets DEF Adding
  <2> QED
    BY <1>2, <1>3, <2>1, <2>2, StuckSteers
<1>5. CASE interpreter!ExecuteToString
  <2>1. Stuck \/ (code[ip].op = "CALL_LSTRING" /\ \E object : interpreter!Allocate(1, object))
    BY <1>5, Zenon DEF interpreter!ExecuteToString, interpreter!Execute,
       interpreter!Running, interpreter!I, interpreter!Trap, Stuck
  <2>2. code[ip].op = "CALL_LSTRING" => Net(code[ip]) = 0
    BY Nets DEF Keeping
  <2> QED
    BY <1>2, <1>3, <2>1, <2>2, StuckSteers
<1>6. CASE interpreter!ExecuteBarray
  <2>1. Stuck \/ (code[ip].op = "CALL_BARRAY" /\ \E object : interpreter!Allocate(code[ip].a, object))
    BY <1>6, Zenon DEF interpreter!ExecuteBarray, interpreter!Execute,
       interpreter!Running, interpreter!I, interpreter!Trap, Stuck
  <2>2. code[ip].op = "CALL_BARRAY" => Net(code[ip]) = 1 - code[ip].a
    BY Nets
  <2> QED
    BY <1>1, <1>2, <1>3, <2>1, <2>2, StuckSteers
<1>7. CASE interpreter!ExecuteSexp
  <2>1. Stuck \/ (code[ip].op = "SEXP" /\ Bumped(code[ip].b, 1))
    BY <1>7, Zenon DEF interpreter!ExecuteSexp, interpreter!Execute,
       interpreter!Running, interpreter!I, interpreter!Trap, Stuck, Bumped, Stays
  <2>2. code[ip].op = "SEXP" => Net(code[ip]) = 1 - code[ip].b
    BY Nets
  <2> QED
    BY <1>1, <1>3, <2>1, <2>2, StuckSteers
<1>8. CASE interpreter!ExecuteClosure
  <2>1. Stuck \/ (code[ip].op = "CLOSURE" /\ size' = size + 1 /\ ip' = ip + 1 /\ Stays)
    BY <1>8, Zenon DEF interpreter!ExecuteClosure, interpreter!Execute,
       interpreter!Running, interpreter!I, interpreter!Trap, Stuck, Stays
  <2>2. code[ip].op = "CLOSURE" => Net(code[ip]) = 1
    BY Nets DEF Adding
  <2>3. size' = size + 1 => size' = size - 0 + 1
    BY DEF ITypes
  <2> QED
    BY <1>3, <2>1, <2>2, <2>3, StuckSteers DEF Bumped
<1> QED
  BY <1>4, <1>5, <1>6, <1>7, <1>8

LEMMA StoringSteers ==
  ASSUME ITypes, IsCode(code), ip \in DOMAIN code,
         \/ interpreter!ExecuteSti \/ interpreter!ExecuteStaReference
         \/ interpreter!ExecuteStore \/ interpreter!ExecuteStaElement
         \/ interpreter!ExecuteSwap \/ interpreter!ExecuteDrop
  PROVE  Steers
<1>1. ASSUME NEW n \in Int, NEW k \in Int, Bumped(n, k),
             code[ip].op # "STA" => Net(code[ip]) = k - n,
             code[ip].op \in {"STI", "STA", "SWAP", "DROP"} \union Stores
      PROVE  Steers
  <2>1. Plain(code[ip].op)
    BY <1>1 DEF Plain, Terminal, CondJumps, Stores, Begins
  <2> QED
    BY <1>1, <2>1, BumpedSteers
<1>2. /\ code[ip].op \in {"STI", "DROP"} => Net(code[ip]) = -1
      /\ code[ip].op \in {"SWAP"} \union Stores => Net(code[ip]) = 0
      /\ code[ip].op \in {"STI", "DROP", "SWAP"} \union Stores => code[ip].op # "STA"
  BY Nets DEF Taking, Keeping, Stores
<1>3. CASE interpreter!ExecuteSti
  <2>1. Stuck \/ (code[ip].op = "STI" /\ Bumped(2, 1))
    BY <1>3, Zenon DEF interpreter!ExecuteSti, interpreter!Execute, interpreter!Assigned,
       interpreter!Running, interpreter!I, interpreter!Trap, Stuck, Bumped, Stays
  <2> QED
    BY <1>1, <1>2, <2>1, StuckSteers
<1>4. CASE interpreter!ExecuteStaReference
  <2>1. Stuck \/ (code[ip].op = "STA" /\ Bumped(2, 1))
    BY <1>4, Zenon DEF interpreter!ExecuteStaReference, interpreter!Execute, interpreter!Assigned,
       interpreter!Running, interpreter!I, interpreter!Trap, Stuck, Bumped, Stays
  <2> QED
    BY <1>1, <1>2, <2>1, StuckSteers
<1>5. CASE interpreter!ExecuteStore
  <2>1. Stuck \/ (code[ip].op \in Stores /\ Bumped(1, 1))
    BY <1>5, SameBytecode, Zenon DEF interpreter!ExecuteStore, interpreter!Execute, interpreter!Assigned,
       interpreter!Running, interpreter!I, interpreter!Trap, Stuck, Bumped, Stays
  <2> QED
    BY <1>1, <1>2, <2>1, StuckSteers
<1>6. CASE interpreter!ExecuteStaElement
  <2>1. Stuck \/ (code[ip].op = "STA" /\ \E v : interpreter!Push(3, <<v>>))
    BY <1>6, Zenon DEF interpreter!ExecuteStaElement, interpreter!Execute,
       interpreter!Running, interpreter!I, interpreter!Trap, Stuck
  <2>2. \A v : Len(<<v>>) = 1
    OBVIOUS
  <2>3. Stuck \/ (code[ip].op = "STA" /\ Bumped(3, 1))
    BY <2>1, <2>2, PushBumps, Zenon
  <2> QED
    BY <1>1, <1>2, <2>3, StuckSteers
<1>7. CASE interpreter!ExecuteSwap
  <2>1. Stuck \/ (code[ip].op = "SWAP" /\ \E v, w : interpreter!Push(2, <<v, w>>))
    BY <1>7, Zenon DEF interpreter!ExecuteSwap, interpreter!Execute, interpreter!Replace,
       interpreter!Running, interpreter!I, interpreter!Trap, Stuck
  <2>2. \A v, w : Len(<<v, w>>) = 2
    OBVIOUS
  <2>3. Stuck \/ (code[ip].op = "SWAP" /\ Bumped(2, 2))
    BY <2>1, <2>2, PushBumps, Zenon
  <2> QED
    BY <1>1, <1>2, <2>3, StuckSteers
<1>8. CASE interpreter!ExecuteDrop
  <2>1. Stuck \/ (code[ip].op = "DROP" /\ interpreter!Push(1, << >>))
    BY <1>8, Zenon DEF interpreter!ExecuteDrop, interpreter!Execute, interpreter!Replace,
       interpreter!Running, interpreter!I, interpreter!Trap, Stuck
  <2>2. Len(<< >>) = 0
    OBVIOUS
  <2>3. Stuck \/ (code[ip].op = "DROP" /\ Bumped(1, 0))
    BY <2>1, <2>2, PushBumps, Zenon
  <2> QED
    BY <1>1, <1>2, <2>3, StuckSteers
<1> QED
  BY <1>3, <1>4, <1>5, <1>6, <1>7, <1>8

LEMMA JumpingSteers ==
  ASSUME ITypes,
         \/ interpreter!ExecuteJmp \/ interpreter!ExecuteCjmp \/ interpreter!ExecuteLine
         \/ interpreter!ExecuteFail \/ interpreter!ExecuteStop \/ interpreter!RunOff
  PROVE  Steers
<1>1. CASE interpreter!ExecuteJmp \/ interpreter!ExecuteLine
  <2>1. Stuck \/ /\ size' = size /\ Stays
                 /\ \/ code[ip].op = "JMP" /\ ip' = code[ip].a
                    \/ code[ip].op = "LINE" /\ ip' = ip + 1
    BY <1>1 DEF interpreter!ExecuteJmp, interpreter!ExecuteLine, interpreter!Execute,
       interpreter!Goto, interpreter!Running, interpreter!I, interpreter!Trap, Stuck, Stays
  <2>2. code[ip].op \in {"JMP", "LINE"} => Net(code[ip]) = 0
    BY Nets DEF Keeping
  <2>3. /\ code[ip].op = "JMP" => Successors(code, ip) = {code[ip].a}
        /\ code[ip].op = "LINE" => Successors(code, ip) = {ip + 1}
    BY DEF Successors, Terminal, CondJumps
  <2>4. size = size + 0
    BY DEF ITypes
  <2> QED
    BY <2>1, <2>2, <2>3, <2>4, StuckSteers DEF Steers, Begins, CondJumps
<1>2. CASE interpreter!ExecuteCjmp
  <2>1. Stuck \/ /\ size' = size - 1 /\ Stays /\ code[ip].op \in CondJumps
                 /\ ip' \in {code[ip].a, ip + 1}
    BY <1>2, SameBytecode DEF interpreter!ExecuteCjmp, interpreter!Execute,
       interpreter!Running, interpreter!I, interpreter!Trap, Stuck, Stays
  <2>2. code[ip].op \in CondJumps => Net(code[ip]) = -1
    BY Nets DEF Taking
  <2>3. code[ip].op \in CondJumps => Successors(code, ip) = {ip + 1, code[ip].a}
    BY DEF Successors, Terminal, CondJumps
  <2>4. size - 1 = size + (-1)
    BY DEF ITypes
  <2> QED
    BY <2>1, <2>2, <2>3, <2>4, StuckSteers DEF Steers, Begins, CondJumps
<1>3. CASE interpreter!ExecuteFail \/ interpreter!ExecuteStop \/ interpreter!RunOff
  <2>1. Stuck \/ status' = "done"
    BY <1>3 DEF interpreter!ExecuteFail, interpreter!ExecuteStop, interpreter!RunOff,
       interpreter!Execute, interpreter!Trap, Stuck
  <2> QED
    BY <2>1, StuckSteers DEF Steers
<1> QED
  BY <1>1, <1>2, <1>3

(* Where the interpreter is.  Each frame but the last is at a call with as *)
(* many arguments as the frame above has, and the last one is at ip, or at *)
(* a call of the function that begins there.                               *)
CallAt(c, depth, args, closure) ==
  /\ Labelled(c) /\ labels[c].depth = depth
  /\ \/ code[c].op = "CALL" /\ code[c].b = args /\ ~closure
     \/ code[c].op = "CALLC" /\ code[c].a = args /\ closure
Over(frame, n) == n - frame.base - frame.locals
Calling(i, frame, n, by_closure) ==
  CallAt(frame.ret - 1, Over(frame, n), code[i].a, code[i].op = "CBEGIN" \/ by_closure)
Executing(i, frame, n) == Labelled(i) /\ labels[i].depth = Over(frame, n)
Suspended(frame, above) ==
  CallAt(frame.ret - 1, Over(frame, above.base), above.args, above.closure)
Within(i, fs, n, by_closure) ==
  /\ i \in DOMAIN code
  /\ code[i].op \in Begins => Calling(i, fs[Len(fs)], n, by_closure)
  /\ code[i].op \notin Begins => Executing(i, fs[Len(fs)], n)
  /\ \A f \in 1..(Len(fs) - 1) : Suspended(fs[f], fs[f + 1])
Placed == status = "running" /\ frames # << >> => Within(ip, frames, size, is_tmp_closure)

(* A closure has the arguments of every CALLC.                             *)
Fits(v) ==
  \A c \in DOMAIN code : code[c].op = "CALLC" /\ v.at \in DOMAIN code => code[c].a = code[v.at].a
ClosuresFit == \A o \in DOMAIN heap : heap[o].type = "closure" => Fits(heap[o].elems[1])

LEMMA PlacedRule ==
  ASSUME UNCHANGED <<code, labels>>,
         status' = "running" /\ frames' # << >> => Within(ip', frames', size', is_tmp_closure')
  PROVE  Placed'
BY DEF Placed, Within, Calling, Executing, Suspended, CallAt, Labelled, Over

LEMMA NetType ==
  ASSUME NEW i \in Instructions
  PROVE  Net(i) \in Int
BY DeltaType DEF Net

LEMMA SteersPlaced ==
  ASSUME ITypes, IsCode(code), Labelling, Placed, status = "running", UNCHANGED <<code, labels>>,
         Steers
  PROVE  Placed'
<1> SUFFICES ASSUME status' = "running", frames' # << >>
             PROVE  Within(ip', frames', size', is_tmp_closure')
  BY PlacedRule
<1> DEFINE frame == frames[Len(frames)]
<1>1. /\ frames' = frames /\ code[ip].op \notin Begins
      /\ code[ip].op # "STA" => size' = size + Net(code[ip]) /\ ip' \in Successors(code, ip)
  BY DEF Steers, Stays
<1>2. Within(ip, frames, size, is_tmp_closure)
  BY <1>1 DEF Placed
<1>3. Labelled(ip) /\ labels[ip].depth = Over(frame, size) /\ ip \in DOMAIN code
  BY <1>1, <1>2 DEF Within, Executing
<1>4. /\ code[ip].op # "STA" /\ labels[ip].depth \in Nat
      /\ \A s \in Successors(code, ip) :
           /\ Labelled(s) /\ code[s].op \notin Begins
           /\ labels[s].depth = labels[ip].depth + Net(code[ip])
  BY <1>3 DEF Labelling, Checkable
<1>5. /\ Labelled(ip') /\ code[ip'].op \notin Begins
      /\ labels[ip'].depth = labels[ip].depth + Net(code[ip])
      /\ size' = size + Net(code[ip])
  BY <1>1, <1>4
<1>6. frame.base \in Int /\ frame.locals \in Int /\ size \in Int
  <2>1. frames \in Seq(FrameRecords) /\ frames # << >>
    BY <1>1 DEF ITypes
  <2>2. frame \in FrameRecords
    BY <2>1, LastTaken
  <2> QED
    BY <2>2 DEF FrameRecords, ITypes
<1>7. Net(code[ip]) \in Int
  BY <1>3, CodeType, NetType
<1>8. Over(frame, size') = Over(frame, size) + Net(code[ip])
  BY <1>5, <1>6, <1>7 DEF Over
<1> QED
  BY <1>1, <1>2, <1>3, <1>5, <1>8 DEF Within, Executing, Labelled

LEMMA FrameTypes ==
  ASSUME ITypes, NEW f \in DOMAIN frames
  PROVE  frames[f].base \in Int /\ frames[f].locals \in Int /\ frames[f].args \in Int
         /\ frames[f].closure \in BOOLEAN /\ frames[f].ret \in Int
<1>1. frames[f] \in FrameRecords
  BY LenProperties DEF ITypes
<1> QED
  BY <1>1 DEF FrameRecords

LEMMA BeginPlaced ==
  ASSUME ITypes, IsCode(code), Labelling, Placed, status = "running", ip \in DOMAIN code,
         UNCHANGED <<code, labels>>, interpreter!ExecuteBegin
  PROVE  Placed'
<1> SUFFICES ASSUME status' = "running", frames' # << >>
             PROVE  Within(ip', frames', size', is_tmp_closure')
  BY PlacedRule
<1> DEFINE locals == IF checking THEN code[ip].b ELSE LowerHalf(code[ip].b)
           closure == code[ip].op = "CBEGIN" \/ is_tmp_closure
           frame == [base |-> size, locals |-> locals, args |-> code[ip].a,
                     closure |-> closure, ret |-> -1]
           n == Len(frames)
<1>1. /\ code[ip].op \in Begins /\ frames' = Append(frames, frame)
      /\ size' = size + locals /\ ip' = ip + 1
  BY SameBytecode, Zenon DEF interpreter!ExecuteBegin, interpreter!Execute, interpreter!Running,
     interpreter!Trap, interpreter!Fail, interpreter!Undefined, interpreter!I, interpreter!LowerHalf,
     LowerHalf
<1>2. locals \in Int /\ size \in Int
  <2>1. code[ip].b \in Int /\ \A m \in Int : m % HalfWord \in Int
    BY CodeType, HalfWordAssumption
  <2>2. LowerHalf(code[ip].b) \in Int
    BY <2>1, Zenon DEF LowerHalf
  <2> QED
    BY <2>1, <2>2 DEF ITypes
<1>3. /\ frame.base = size /\ frame.locals = locals /\ frame.args = code[ip].a
      /\ frame.closure = closure
  OBVIOUS
<1> HIDE DEF locals, closure, frame
<1>4. /\ n \in Nat /\ Len(frames') = n + 1 /\ DOMAIN frames = 1..n
      /\ \A f \in 1..n : frames'[f] = frames[f]
      /\ frames'[n + 1] = frame
  BY <1>1, OneAppended, LenProperties DEF ITypes
<1> HIDE DEF n
<1>5. Labelled(ip + 1) /\ code[ip + 1].op \notin Begins /\ labels[ip + 1].depth = 0
  <2>1. Labelled(ip) /\ labels[ip].depth = 0
    BY <1>1 DEF Labelling
  <2>2. Net(code[ip]) = 0 /\ ip + 1 \in Successors(code, ip)
    BY <1>1, BeginNet, NextFollows
  <2>3. /\ Labelled(ip + 1) /\ code[ip + 1].op \notin Begins
        /\ labels[ip + 1].depth = labels[ip].depth + Net(code[ip])
    BY <2>1, <2>2, Zenon DEF Labelling
  <2> QED
    BY <2>1, <2>2, <2>3
<1>6. Executing(ip + 1, frame, size')
  BY <1>1, <1>2, <1>3, <1>5 DEF Executing, Over
<1>7. ASSUME NEW f \in 1..n
      PROVE  Suspended(frames'[f], frames'[f + 1])
  <2>1. Within(ip, frames, size, is_tmp_closure)
    BY <1>4 DEF Placed
  <2>2. CASE f = n
    BY <1>1, <1>3, <1>4, <2>1, <2>2 DEF Within, Calling, Suspended, closure, n
  <2>3. CASE f # n
    <3>1. f \in 1..(n - 1) /\ f + 1 \in 1..n
      BY <1>4, <2>3
    <3> QED
      BY <1>4, <2>1, <3>1 DEF Within, n
  <2> QED
    BY <2>2, <2>3
<1> QED
  BY <1>1, <1>4, <1>5, <1>6, <1>7 DEF Within, Labelled

LEMMA ReturnPlaced ==
  ASSUME ITypes, IsCode(code), Labelling, Placed, status = "running", ip \in DOMAIN code,
         UNCHANGED <<code, labels>>, interpreter!ExecuteRet
  PROVE  Placed'
<1> SUFFICES ASSUME status' = "running", frames' # << >>
             PROVE  Within(ip', frames', size', is_tmp_closure')
  BY PlacedRule
<1> DEFINE frame == Last(frames)
           outer == Front(frames)
           bottom == frame.base - frame.args - (IF frame.closure THEN 1 ELSE 0)
           v == interpreter!Top(0)
           n == Len(frames)
<1>1. /\ frames # << >> /\ frames' = outer /\ size' = bottom + Len(<<v>>)
      /\ ip' = Last(outer).ret
  BY SameEnds DEF interpreter!ExecuteRet, interpreter!Execute, interpreter!Running, interpreter!Trap,
     interpreter!Fail, interpreter!Undefined, interpreter!has_frame, interpreter!Frame,
     interpreter!PushAt
<1>2. /\ n \in Nat \ {0} /\ Len(outer) = n - 1 /\ frame = frames[n] /\ DOMAIN frames = 1..n
      /\ \A i \in 1..n - 1 : outer[i] = frames[i]
      /\ outer \in Seq(FrameRecords)
  BY <1>1, LastTaken, LenProperties DEF ITypes
<1>3. n - 1 \in 1..n /\ n - 1 > 0 /\ Last(outer) = frames[n - 1]
  <2>1. outer # << >>
    BY <1>1
  <2>2. Len(outer) # 0
    BY <1>2, <2>1, EmptySeq
  <2> HIDE DEF outer, n
  <2>3. n - 1 \in 1..n - 1
    BY <1>2, <2>2
  <2> QED
    BY <1>2, <2>3 DEF Last
<1> DEFINE caller == frames[n - 1]
           c == caller.ret - 1
           closing == IF frame.closure THEN 1 ELSE 0
<1>4. /\ caller.base \in Int /\ caller.locals \in Int /\ caller.ret \in Int
      /\ frame.base \in Int /\ frame.args \in Int /\ frame.closure \in BOOLEAN
  BY <1>2, <1>3, FrameTypes
<1>5. Within(ip, frames, size, is_tmp_closure)
  BY <1>1 DEF Placed
<1>6. CallAt(c, Over(caller, frame.base), frame.args, frame.closure)
  <2>1. n - 1 \in 1..n - 1 /\ (n - 1) + 1 = n
    BY <1>2, <1>3
  <2> QED
    BY <1>2, <1>5, <2>1 DEF Within, Suspended
<1>7. size' = frame.base - frame.args - closing + 1
  BY <1>1, <1>4
<1> HIDE DEF frame, outer, bottom, v, n, caller
<1>8. Net(code[c]) = 1 - frame.args - closing /\ Successors(code, c) = {c + 1}
  <2>1. code[c].op \in {"CALL", "CALLC"}
    BY <1>6 DEF CallAt
  <2>2. Successors(code, c) = {c + 1}
    BY <2>1 DEF Successors, Terminal, CondJumps
  <2>3. CASE code[c].op = "CALL"
    <3>1. Net(code[c]) = 1 - code[c].b /\ code[c].b = frame.args /\ ~frame.closure
      BY <1>6, <2>3, Nets DEF CallAt
    <3> QED
      BY <1>4, <2>2, <3>1
  <2>4. CASE code[c].op = "CALLC"
    <3>1. Net(code[c]) = -code[c].a /\ code[c].a = frame.args /\ frame.closure
      BY <1>6, <2>4, Nets DEF CallAt
    <3> QED
      BY <1>4, <2>2, <3>1
  <2> QED
    BY <2>1, <2>3, <2>4
<1>9. /\ Labelled(c + 1) /\ code[c + 1].op \notin Begins
      /\ labels[c + 1].depth = Over(caller, frame.base) + Net(code[c])
  <2>1. Labelled(c) /\ c \in DOMAIN code /\ labels[c].depth = Over(caller, frame.base)
    BY <1>6 DEF CallAt, Labelled
  <2> QED
    BY <1>8, <2>1 DEF Labelling
<1>10. c + 1 = caller.ret
  BY <1>4
<1>11. Over(caller, size') = Over(caller, frame.base) + Net(code[c])
  <2>1. \A b, l, s, args \in Int, k \in {0, 1} :
          (s - args - k + 1) - b - l = (s - b - l) + (1 - args - k)
    OBVIOUS
  <2>2. closing \in {0, 1}
    OBVIOUS
  <2> HIDE DEF closing
  <2>3. ((frame.base - frame.args - closing + 1) - caller.base) - caller.locals
          = (frame.base - caller.base - caller.locals) + (1 - frame.args - closing)
    BY <1>4, <2>1, <2>2
  <2> QED
    BY <1>7, <1>8, <2>3, Zenon DEF Over
<1>12. Executing(ip', frames'[Len(frames')], size')
  BY <1>1, <1>2, <1>3, <1>9, <1>10, <1>11 DEF Executing, caller
<1>13. \A f \in 1..(Len(frames') - 1) : Suspended(frames'[f], frames'[f + 1])
  <2>1. ASSUME NEW f \in 1..(n - 1 - 1)
        PROVE  Suspended(frames'[f], frames'[f + 1])
    <3>1. f \in 1..(n - 1) /\ f + 1 \in 1..(n - 1)
      BY <1>2
    <3> QED
      BY <1>1, <1>2, <1>5, <3>1 DEF Within, n
  <2> QED
    BY <1>1, <1>2, <2>1
<1> QED
  BY <1>1, <1>3, <1>9, <1>10, <1>12, <1>13 DEF Within, Labelled, caller
LEMMA EnterPlaced ==
  ASSUME ITypes, Placed, status = "running", frames # << >>, UNCHANGED <<code, labels>>,
         NEW target \in DOMAIN code, NEW by_closure \in BOOLEAN, NEW args,
         interpreter!Enter(target, by_closure),
         code[target].op \in Begins, code[target].a = args,
         \/ code[ip].op = "CALL" /\ code[ip].b = args /\ code[target].op = "BEGIN" /\ ~by_closure
         \/ code[ip].op = "CALLC" /\ code[ip].a = args /\ by_closure
  PROVE  Placed'
<1> SUFFICES Within(ip', frames', size', is_tmp_closure')
  BY PlacedRule
<1> DEFINE n == Len(frames)
<1>1. /\ frames' = [frames EXCEPT ![n].ret = ip + 1]
      /\ ip' = target /\ is_tmp_closure' = by_closure /\ size' = size
  BY Zenon DEF interpreter!Enter
<1>2. /\ n \in Nat \ {0} /\ DOMAIN frames = 1..n /\ ip \in Int
      /\ \A f \in 1..n : frames[f] \in FrameRecords
  BY LastTaken, LenProperties DEF ITypes
<1>3. /\ Len(frames') = n
      /\ \A f \in 1..(n - 1) : frames'[f] = frames[f]
      /\ \A f \in 1..n : /\ frames'[f].base = frames[f].base /\ frames'[f].locals = frames[f].locals
                        /\ frames'[f].args = frames[f].args /\ frames'[f].closure = frames[f].closure
      /\ frames'[n].ret = ip + 1
  <2> HIDE DEF n
  <2>1. \A f \in 1..n : frames'[f] = IF f = n THEN [frames[f] EXCEPT !.ret = ip + 1] ELSE frames[f]
    BY <1>1, <1>2
  <2>2. DOMAIN frames' = 1..n /\ Len(frames') = n
    <3>1. DOMAIN frames' = 1..n
      BY <1>1, <1>2
    <3>2. frames' = [f \in 1..n |-> frames'[f]]
      BY <1>1, <1>2
    <3> QED
      BY <1>2, <3>1, <3>2, LenProperties
  <2> QED
    BY <1>2, <2>1, <2>2 DEF FrameRecords
<1>4. Within(ip, frames, size, is_tmp_closure) /\ code[ip].op \notin Begins
  BY DEF Placed, Begins
<1>5. Labelled(ip) /\ labels[ip].depth = Over(frames[n], size)
  BY <1>4 DEF Within, Executing
<1>6. Calling(target, frames'[n], size, by_closure)
  <2>1. frames'[n].ret - 1 = ip /\ Over(frames'[n], size) = Over(frames[n], size)
    BY <1>2, <1>3 DEF Over
  <2>2. CallAt(ip, Over(frames[n], size), args, code[target].op = "CBEGIN" \/ by_closure)
    BY <1>5 DEF CallAt
  <2> QED
    BY <2>1, <2>2, Zenon DEF Calling
<1>7. ASSUME NEW f \in 1..(n - 1)
      PROVE  Suspended(frames'[f], frames'[f + 1])
  <2>1. f + 1 \in 1..n /\ Suspended(frames[f], frames[f + 1])
    BY <1>2, <1>4 DEF Within
  <2>2. frames'[f] = frames[f]
    BY <1>3
  <2> QED
    BY <1>3, <2>1, <2>2, Zenon DEF Suspended
<1> QED
  BY <1>1, <1>3, <1>6, <1>7, Zenon DEF Within

LEMMA CallPlaced ==
  ASSUME ITypes, IsCode(code), Labelling, Placed, ClosuresFit, status = "running",
         ip \in DOMAIN code, UNCHANGED <<code, labels>>,
         interpreter!ExecuteCall \/ interpreter!ExecuteCallc
  PROVE  Placed'
<1>1. SUFFICES ASSUME status' = "running" PROVE Placed'
  BY PlacedRule
<1>2. CASE interpreter!ExecuteCall
  <2>1. /\ code[ip].op = "CALL" /\ frames # << >> /\ code[ip].a \in DOMAIN code
        /\ interpreter!Enter(code[ip].a, FALSE)
    BY <1>1, <1>2 DEF interpreter!ExecuteCall, interpreter!Execute, interpreter!Running,
       interpreter!I, interpreter!Trap, interpreter!Fail, interpreter!Undefined, interpreter!has_frame
  <2>2. Labelled(ip)
    BY <2>1 DEF Placed, Within, Executing, Begins
  <2>3. CallsMatch(code, code[ip])
    BY <2>2 DEF Labelling
  <2>4. code[code[ip].a].op = "BEGIN" /\ code[code[ip].a].a = code[ip].b
    BY <2>1, <2>3 DEF CallsMatch
  <2> QED
    BY <2>1, <2>4, EnterPlaced DEF Begins
<1>3. CASE interpreter!ExecuteCallc
  <2> DEFINE callee == interpreter!Top(interpreter!I.a)
             target == interpreter!Elems(callee)[1].at
  <2>1. /\ code[ip].op = "CALLC" /\ frames # << >>
        /\ size - 1 - interpreter!I.a \in interpreter!Cells
        /\ interpreter!Is(callee, "closure")
        /\ target \in DOMAIN code /\ code[target].op \in interpreter!Begins
        /\ interpreter!Enter(target, TRUE)
    BY <1>1, <1>3 DEF interpreter!ExecuteCallc, interpreter!Execute, interpreter!Running,
       interpreter!I, interpreter!Trap, interpreter!Fail, interpreter!Undefined, interpreter!has_frame
  <2>2. Good(callee, heap)
    <3>1. size - 1 - interpreter!I.a \in interpreter!Cells
      BY <2>1
    <3> QED
      BY <3>1, Zenon DEF interpreter!Top, ITypes, GoodStack
  <2>3. callee.at \in DOMAIN heap /\ heap[callee.at].type = "closure"
    <3>1. interpreter!Is(callee, "closure")
      BY <2>1
    <3> HIDE DEF callee
    <3> QED
      BY <2>2, <3>1 DEF interpreter!Is, interpreter!is_object, Good
  <2> HIDE DEF callee
  <2>4. Fits(interpreter!Elems(callee)[1])
    BY <2>3, Zenon DEF ClosuresFit, interpreter!Elems
  <2>5. code[target].a = code[ip].a
    BY <2>1, <2>4, Zenon DEF Fits
  <2> HIDE DEF target
  <2> QED
    BY <2>1, <2>5, EnterPlaced, SameBytecode
<1> QED
  BY <1>2, <1>3

LEMMA StepPlaced ==
  ASSUME ITypes, IsCode(code), Labelling, Placed, ClosuresFit, UNCHANGED <<code, labels>>,
         interpreter!INext
  PROVE  Placed'
<1>1. status = "running" /\ (ip \in DOMAIN code \/ interpreter!RunOff)
  BY Running
<1>2. ASSUME Steers PROVE Placed'
  BY <1>1, <1>2, SteersPlaced
<1> QED
  BY <1>1, <1>2, ComputingSteers, AllocatingSteers, StoringSteers, JumpingSteers, BeginPlaced,
     ReturnPlaced, CallPlaced, Zenon DEF interpreter!INext

LEMMA StepFits ==
  ASSUME ITypes, IsCode(code), Labelling, Placed, ClosuresFit, UNCHANGED <<code, labels>>,
         interpreter!INext
  PROVE  ClosuresFit'
<1>1. status = "running" /\ Builds
  BY Running, StepInterpreter DEF Stepped
<1>2. ASSUME NEW o \in DOMAIN heap', heap'[o].type = "closure"
      PROVE  Fits(heap'[o].elems[1])
  <2>1. CASE o \in DOMAIN heap /\ heap[o].type = "closure" /\ heap'[o].elems[1] = heap[o].elems[1]
    BY <2>1, Zenon DEF ClosuresFit
  <2>2. CASE /\ code[ip].op = "CLOSURE" /\ frames # << >>
             /\ heap'[o].elems[1] = interpreter!Int32(code[ip].a)
    <3>1. Labelled(ip)
      BY <1>1, <2>2 DEF Placed, Within, Executing, Begins
    <3>2. CallsMatch(code, code[ip]) /\ ip \in DOMAIN code
      BY <3>1 DEF Labelling, Labelled
    <3>3. heap'[o].elems[1].at = code[ip].a
      BY <2>2 DEF interpreter!Int32
    <3> QED
      BY <2>2, <3>2, <3>3, Zenon DEF CallsMatch, Fits
  <2> QED
    BY <1>1, <1>2, <2>1, <2>2 DEF Builds
<1> QED
  BY <1>2 DEF ClosuresFit, Fits
(* The whole process: until a file is accepted, no interpreter runs.       *)
Waiting == ~checking /\ verdict # "accepted" => frames = << >> /\ heap = << >>
DepthInv ==
  /\ TypesInv /\ Nested /\ Waiting
  /\ compiled => Labelling /\ Placed /\ ClosuresFit

LEMMA InitNested == Init => Nested
<1> SUFFICES ASSUME Init PROVE Nested
  OBVIOUS
<1>1. /\ stack_sizes = [a \in DOMAIN code |-> NoValue] /\ workset = <<FromInstruction(Entry)>>
      /\ frames_depth = 0 /\ current_frame_addr = Entry
  BY DEF Init, VInit
<1>2. IsCode(code) /\ Entry \in DOMAIN code
  <2>1. code \in Programs \union Unverified
    BY DEF Init
  <2> QED
    BY <2>1, ProgramsAssumption, Zenon
<1>3. Entry \in Nat
  BY <1>2, CodeType
<1>4. PairedList(workset, 0, Functions)
  <2>1. PairsAt({}, << >>, Functions)
    BY DEF PairsAt
  <2>2. Cardinality({}) = 0 /\ {} \in SUBSET (DOMAIN << >>)
    BY FS_EmptySet
  <2>3. << >> \in Seq(Entries) /\ PairedList(<< >>, 0, Functions)
    BY <2>1, <2>2 DEF PairedList
  <2>4. PairedList(Append(<< >>, FromInstruction(Entry)), 0, Functions)
    BY <1>3, <2>3, EntryPushed, Zenon
  <2>5. Append(<< >>, FromInstruction(Entry)) = <<FromInstruction(Entry)>>
    BY <1>3 DEF FromInstruction
  <2> QED
    BY <1>1, <2>4, <2>5
<1> QED
  BY <1>1, <1>2, <1>4 DEF Nested, Functions

LEMMA InitDepthInv == Init => DepthInv
<1> SUFFICES ASSUME Init PROVE DepthInv
  OBVIOUS
<1>1. frames = << >> /\ heap = << >>
  BY DEF Init, interpreter!IInit
<1>2. Waiting /\ Placed /\ ClosuresFit
  BY <1>1 DEF Waiting, Placed, ClosuresFit
<1> QED
  BY <1>2, InitTypesInv, InitNested, InitLabelling DEF DepthInv

LEMMA NextDepthInv == DepthInv /\ [Next]_vars => DepthInv'
<1> SUFFICES ASSUME DepthInv, [Next]_vars PROVE DepthInv'
  OBVIOUS
<1>1. TypesInv /\ TypesInv' /\ VTypes /\ Paired /\ ITypes /\ IsCode(code)
  BY NextTypesInv DEF DepthInv, TypesInv, VerifierInv, VTypes
<1>2. Entry \in DOMAIN code
  BY <1>1 DEF TypesInv, VerifierInv, Scanned, Seen, VTypes
<1>3. CASE verify
  <2>1. /\ ~checking /\ VNext /\ checking' = checking
        /\ UNCHANGED <<frames, heap, labels, compiled>>
    BY <1>3 DEF verify, only_ivars, aux
  <2>2. verdict = "running"
    BY <2>1 DEF VNext, LeaveFrame, Revisit, Advance, Jump, CondJump, Call, EnterFrame, Return, Visit,
                Reject, Accept, Visiting
  <2>3. frames' = << >> /\ heap' = << >>
    BY <2>1, <2>2 DEF DepthInv, Waiting
  <2>4. Waiting' /\ Placed' /\ ClosuresFit'
    BY <2>3 DEF Waiting, Placed, ClosuresFit
  <2>5. Kept /\ Nested'
    BY <1>1, <1>2, <2>1, CodeKept, StepNested DEF DepthInv
  <2>6. compiled' => Labelling'
    BY <2>1, <2>5, LabellingKept DEF DepthInv
  <2> QED
    BY <1>1, <2>4, <2>5, <2>6 DEF DepthInv
<1>4. CASE interpret
  <2>1. /\ checking \/ verdict = "accepted"
        /\ interpreter!INext
        /\ UNCHANGED <<code, checking, verdict, labels, compiled,
                      stack_sizes, workset, frames_depth, current_frame_addr>>
    BY <1>4, CodeUnwritten DEF interpret, only_vvars, aux
  <2>2. Nested' /\ Waiting'
    BY <2>1 DEF DepthInv, Nested, Functions, Waiting
  <2>3. compiled' => Labelling'
    BY <2>1 DEF DepthInv, Labelling, Labelled
  <2>4. compiled' => Placed' /\ ClosuresFit'
    BY <1>1, <2>1, StepPlaced, StepFits DEF DepthInv
  <2> QED
    BY <1>1, <2>2, <2>3, <2>4 DEF DepthInv
<1>5. CASE UNCHANGED vars
  <2>1. UNCHANGED <<code, checking, verdict, labels, compiled, stack_sizes, workset, frames_depth,
                    current_frame_addr, ip, frames, size, is_tmp_closure, heap, status>>
    BY <1>5 DEF vars, vvars, only_ivars, aux
  <2>2. Nested' /\ Waiting'
    BY <2>1 DEF DepthInv, Nested, Functions, Waiting
  <2>3. compiled' => Labelling'
    BY <2>1 DEF DepthInv, Labelling, Labelled
  <2>4. compiled' => Placed' /\ ClosuresFit'
    <3>1. Placed => Placed'
      BY <2>1, PlacedRule DEF Placed
    <3>2. ClosuresFit => ClosuresFit'
      BY <2>1 DEF ClosuresFit, Fits
    <3> QED
      BY <2>1, <3>1, <3>2 DEF DepthInv
  <2> QED
    BY <1>1, <2>2, <2>3, <2>4 DEF DepthInv
<1> QED
  BY <1>3, <1>4, <1>5 DEF Next

(* In a well-formed program the stack of a function has the same depth     *)
(* whenever an instruction is executed, through whatever calls, closures   *)
(* and returns the interpreter came there: every execute_* of              *)
(* interpreter.cpp moves the stack as get_stack_delta of the verifier says.*)
THEOREM DepthsAreStatic == Spec => []DepthIsStatic
<1>1. DepthInv => DepthIsStatic
  <2> SUFFICES ASSUME DepthInv, compiled, status = "running", frames # << >>,
                      code[ip].op \notin Begins
               PROVE  size - Last(frames).base - Last(frames).locals = labels[ip].depth
    BY DEF DepthIsStatic
  <2> QED
    BY DEF DepthInv, Placed, Within, Executing, Over, Last
<1> QED
  BY <1>1, InitDepthInv, NextDepthInv, PTL DEF Spec
-----------------------------------------------------------------------------
(* Where control goes.  In what follows Returns and Flow(ip) have been     *)
(* looked at as long as control is not in a closure.                       *)

LEMMA FollowersRule ==
  ASSUME UNCHANGED <<code, stack_sizes>>,
         \A f \in DOMAIN frames' : Outside(frames', f) => Verified(frames'[f].ret),
         ~InClosure' => Verified(ip')
  PROVE  Followers'
BY DEF Followers, Outside, Verified

LEMMA AllOutside ==
  ASSUME ITypes, \A f \in DOMAIN frames : ~frames[f].closure
  PROVE  \A f \in DOMAIN frames : Outside(frames, f)
<1>1. Len(frames) \in Nat /\ DOMAIN frames = 1..Len(frames)
  BY LenProperties DEF ITypes
<1> QED
  BY <1>1 DEF Outside

LEMMA AllVerified ==
  ASSUME ITypes, VerifierInv, workset = << >>, Followers, ip \in DOMAIN code, ~InClosure
  PROVE  \A b \in Returns \union Flow(ip) : Verified(b)
<1>1. \A b \in Flow(ip) : Verified(b)
  BY AllFollowed DEF Followers
<1>2. -1 \notin DOMAIN code
  <2>1. DOMAIN code \subseteq Nat
    BY CodeType DEF VerifierInv, VTypes
  <2> QED
    BY <2>1
<1>3. \A f \in DOMAIN frames : Verified(frames[f].ret)
  BY AllOutside DEF Followers, InClosure
<1> QED
  BY <1>1, <1>2, <1>3 DEF Returns, Verified

LEMMA SteersFollowed ==
  ASSUME ITypes, UNCHANGED <<code, stack_sizes>>, Followers, Moves, Steers, status' = "running",
         ~InClosure => \A b \in Returns \union Flow(ip) : Verified(b)
  PROVE  Followers'
<1>1. /\ frames' = frames /\ is_tmp_closure' = is_tmp_closure /\ code[ip].op \notin Begins
      /\ code[ip].op # "STA" => ip' \in Successors(code, ip)
  BY DEF Steers, Stays
<1>2. ip' \in Returns \union Flow(ip)
  <2>1. CASE code[ip].op # "CALLC"
    BY <2>1 DEF Moves
  <2>2. CASE code[ip].op = "CALLC"
    BY <1>1, <2>2 DEF Successors, Terminal, CondJumps, Flow
  <2> QED
    BY <2>1, <2>2
<1>3. ~InClosure' => ~InClosure
  BY <1>1 DEF InClosure
<1> QED
  BY <1>1, <1>2, <1>3, FollowersRule DEF Followers, Outside

LEMMA AnyAppended ==
  ASSUME NEW S, NEW s \in Seq(S), NEW x
  PROVE  /\ Len(s) \in Nat /\ DOMAIN s = 1..Len(s) /\ DOMAIN Append(s, x) = 1..Len(s) + 1
         /\ \A i \in 1..Len(s) : Append(s, x)[i] = s[i]
         /\ Append(s, x)[Len(s) + 1] = x
<1> DEFINE T == S \union {x}
<1>1. Len(s) \in Nat /\ DOMAIN s = 1..Len(s) /\ s \in [1..Len(s) -> T]
  BY LenProperties
<1>2. s \in Seq(T) /\ x \in T
  BY <1>1, SeqDef
<1> HIDE DEF T
<1>3. /\ Append(s, x) \in Seq(T) /\ Len(Append(s, x)) = Len(s) + 1
      /\ \A i \in 1..Len(s) : Append(s, x)[i] = s[i]
      /\ Append(s, x)[Len(s) + 1] = x
  BY <1>2, OneAppended
<1> QED
  BY <1>1, <1>3, LenProperties

LEMMA BeginFollowed ==
  ASSUME ITypes, UNCHANGED <<code, stack_sizes>>, Followers, Moves, status' = "running",
         interpreter!ExecuteBegin,
         ~InClosure => \A b \in Returns \union Flow(ip) : Verified(b)
  PROVE  Followers'
<1> DEFINE locals == IF checking THEN interpreter!I.b ELSE LowerHalf(interpreter!I.b)
           frame == [base |-> size, locals |-> locals, args |-> interpreter!I.a,
                     closure |-> interpreter!I.op = "CBEGIN" \/ is_tmp_closure, ret |-> -1]
<1>1. /\ interpreter!I.op \in Begins /\ frames' = Append(frames, frame)
      /\ is_tmp_closure' = IF interpreter!I.op = "BEGIN" THEN FALSE ELSE is_tmp_closure
  BY SameBytecode, Zenon DEF interpreter!ExecuteBegin, interpreter!Execute, interpreter!Running,
     interpreter!Trap, interpreter!Fail, interpreter!Undefined, interpreter!LowerHalf, LowerHalf
<1>2. frame.ret = -1 /\ (~frame.closure => interpreter!I.op # "CBEGIN" /\ ~is_tmp_closure)
  OBVIOUS
<1> HIDE DEF locals, frame
<1> DEFINE n == Len(frames)
<1>3. /\ n \in Nat /\ DOMAIN frames = 1..n /\ DOMAIN frames' = 1..n + 1
      /\ \A f \in 1..n : frames'[f] = frames[f]
      /\ frames'[n + 1] = frame
  <2>1. frames \in Seq(FrameRecords) /\ frames' = Append(frames, frame)
    BY <1>1, Zenon DEF ITypes
  <2>2. /\ n \in Nat /\ DOMAIN frames = 1..n /\ DOMAIN Append(frames, frame) = 1..n + 1
        /\ \A f \in 1..n : Append(frames, frame)[f] = frames[f]
        /\ Append(frames, frame)[n + 1] = frame
    BY <2>1, AnyAppended, Zenon
  <2> QED
    BY <2>1, <2>2
<1> HIDE DEF n
<1>4. n + 1 \in DOMAIN frames' /\ \A f \in DOMAIN frames : f \in DOMAIN frames' /\ f \in 1..n
  BY <1>3
<1>5. ASSUME NEW f \in DOMAIN frames', Outside(frames', f)
      PROVE  Verified(frames'[f].ret)
  <2>1. CASE f = n + 1
    <3>1. -1 \in Returns
      BY DEF Returns
    <3>2. ~InClosure
      <4>1. \A g \in 1..n + 1 : ~frames'[g].closure
        BY <1>5, <2>1 DEF Outside
      <4>2. \A g \in DOMAIN frames : ~frames[g].closure
        BY <1>3, <1>4, <4>1
      <4>3. ~is_tmp_closure
        BY <1>2, <1>3, <4>1
      <4> QED
        BY <4>2, <4>3 DEF InClosure
    <3> QED
      BY <1>2, <1>3, <2>1, <3>1, <3>2
  <2>2. CASE f # n + 1
    <3>1. f \in 1..n /\ \A g \in 1..f : g \in 1..n
      BY <1>3, <2>2
    <3>2. Outside(frames, f)
      BY <1>3, <1>5, <3>1 DEF Outside
    <3> QED
      BY <1>3, <3>1, <3>2 DEF Followers
  <2> QED
    BY <2>1, <2>2
<1>6. ASSUME ~InClosure'
      PROVE  Verified(ip')
  <2>1. \A g \in DOMAIN frames' : ~frames'[g].closure
    BY <1>6 DEF InClosure
  <2>2. ~is_tmp_closure /\ \A g \in DOMAIN frames : ~frames[g].closure
    BY <1>2, <1>3, <1>4, <2>1
  <2>3. code[ip].op # "CALLC"
    BY <1>1 DEF interpreter!I, Begins
  <2>4. ~InClosure
    BY <2>2 DEF InClosure
  <2> QED
    BY <2>3, <2>4 DEF Moves
<1> QED
  BY <1>5, <1>6, FollowersRule

(* A return leads to what the frame below keeps, also out of a closure.    *)
LEMMA ReturnFollowed ==
  ASSUME ITypes, UNCHANGED <<code, stack_sizes>>, Followers, status = "running", status' = "running",
         interpreter!ExecuteRet
  PROVE  Followers'
<1> DEFINE outer == Front(frames)
           bottom == Last(frames).base - Last(frames).args - (IF Last(frames).closure THEN 1 ELSE 0)
<1>1. /\ frames # << >> /\ outer # << >>
      /\ interpreter!PushAt(bottom, <<interpreter!Top(0)>>, Last(outer).ret, outer)
  BY SameEnds DEF interpreter!ExecuteRet, interpreter!Execute, interpreter!Running, interpreter!Trap,
     interpreter!Fail, interpreter!Undefined, interpreter!has_frame, interpreter!Frame
<1> HIDE DEF bottom
<1>2. frames' = outer /\ ip' = Last(outer).ret
  BY <1>1 DEF interpreter!PushAt, interpreter!Trap, interpreter!Fail, interpreter!Undefined
<1> DEFINE n == Len(frames) - 1
<1>3. /\ n \in Nat \ {0} /\ DOMAIN frames = 1..n + 1 /\ DOMAIN outer = 1..n
      /\ \A f \in 1..n : outer[f] = frames[f]
      /\ Last(outer) = outer[n]
  <2>1. frames \in Seq(FrameRecords)
    BY DEF ITypes
  <2>2. /\ Len(frames) \in Nat \ {0} /\ outer \in Seq(FrameRecords)
        /\ Len(outer) = Len(frames) - 1
        /\ \A i \in 1..Len(frames) - 1 : outer[i] = frames[i]
    BY <1>1, <2>1, LastTaken
  <2> HIDE DEF outer
  <2>3. Len(outer) \in Nat \ {0} /\ Last(outer) = outer[Len(outer)]
    BY <1>1, <2>2, LastTaken
  <2>4. DOMAIN outer = 1..Len(outer) /\ DOMAIN frames = 1..Len(frames)
    BY <2>1, <2>2, LenProperties
  <2> QED
    BY <2>2, <2>3, <2>4
<1> HIDE DEF outer, n
<1>4. ASSUME NEW f \in DOMAIN frames', Outside(frames', f)
      PROVE  Verified(frames'[f].ret)
  <2>1. f \in 1..n /\ \A g \in 1..f : g \in 1..n
    BY <1>2, <1>3
  <2>2. Outside(frames, f) /\ f \in DOMAIN frames
    BY <1>2, <1>3, <1>4, <2>1 DEF Outside
  <2> QED
    BY <1>2, <1>3, <2>1, <2>2 DEF Followers
<1>5. ASSUME ~InClosure'
      PROVE  Verified(ip')
  <2>1. \A g \in DOMAIN frames' : ~frames'[g].closure
    BY <1>5 DEF InClosure
  <2>2. n \in DOMAIN frames' /\ Outside(frames', n)
    BY <1>2, <1>3, <2>1 DEF Outside
  <2> QED
    BY <1>2, <1>3, <1>4, <2>2
<1> QED
  BY <1>4, <1>5, FollowersRule

LEMMA EnterFollowed ==
  ASSUME ITypes, UNCHANGED <<code, stack_sizes>>, Followers, Moves, status' = "running",
         frames # << >>, code[ip].op \in {"CALL", "CALLC"},
         NEW target, NEW by_closure \in BOOLEAN, interpreter!Enter(target, by_closure),
         by_closure => code[target].op \in Begins,
         code[ip].op = "CALLC" => by_closure,
         ~InClosure => \A b \in Returns \union Flow(ip) : Verified(b)
  PROVE  Followers'
<1> DEFINE n == Len(frames)
           r == [frames[n] EXCEPT !.ret = ip + 1]
<1>1. frames' = [frames EXCEPT ![n] = r] /\ ip' = target /\ is_tmp_closure' = by_closure
  BY DEF interpreter!Enter
<1>2. n \in Nat \ {0} /\ DOMAIN frames = 1..n /\ frames[n] \in FrameRecords
  <2>1. frames \in Seq(FrameRecords)
    BY DEF ITypes
  <2> QED
    BY <2>1, LastTaken, LenProperties
<1>3. r.closure = frames[n].closure
  BY <1>2 DEF FrameRecords
<1> HIDE DEF r, n
<1>4. /\ DOMAIN frames' = 1..n
      /\ \A f \in 1..n : frames'[f].closure = frames[f].closure
      /\ \A f \in 1..n : f # n => frames'[f] = frames[f]
  BY <1>1, <1>2, <1>3
<1>5. code[ip].op \notin Begins
  BY DEF Begins
<1>6. ASSUME NEW f \in DOMAIN frames', Outside(frames', f)
      PROVE  Verified(frames'[f].ret)
  <2>1. Outside(frames, f)
    BY <1>2, <1>4, <1>6 DEF Outside
  <2>2. CASE f = n
    <3>1. ~InClosure
      BY <1>2, <1>5, <2>1, <2>2 DEF InClosure, Outside
    <3>2. frames'[f].ret \in Returns \union Flow(ip)
      BY <1>6 DEF Moves
    <3> QED
      BY <3>1, <3>2
  <2>3. CASE f # n
    BY <1>2, <1>4, <1>6, <2>1, <2>3 DEF Followers
  <2> QED
    BY <2>2, <2>3
<1>7. ASSUME ~InClosure'
      PROVE  Verified(ip')
  <2>1. ~by_closure
    BY <1>1, <1>7 DEF InClosure
  <2>2. ~InClosure
    BY <1>2, <1>4, <1>5, <1>7 DEF InClosure
  <2> QED
    BY <2>1, <2>2 DEF Moves
<1> QED
  BY <1>6, <1>7, FollowersRule

LEMMA CallFollowed ==
  ASSUME ITypes, UNCHANGED <<code, stack_sizes>>, Followers, Moves, status' = "running",
         interpreter!ExecuteCall \/ interpreter!ExecuteCallc,
         ~InClosure => \A b \in Returns \union Flow(ip) : Verified(b)
  PROVE  Followers'
<1>1. CASE interpreter!ExecuteCall
  <2>1. code[ip].op = "CALL" /\ frames # << >> /\ interpreter!Enter(code[ip].a, FALSE)
    BY <1>1 DEF interpreter!ExecuteCall, interpreter!Execute, interpreter!Running,
       interpreter!I, interpreter!Trap, interpreter!Fail, interpreter!Undefined, interpreter!has_frame
  <2> QED
    BY <2>1, EnterFollowed
<1>2. CASE interpreter!ExecuteCallc
  <2> DEFINE target == interpreter!Elems(interpreter!Top(interpreter!I.a))[1].at
  <2>1. /\ code[ip].op = "CALLC" /\ frames # << >>
        /\ code[target].op \in interpreter!Begins /\ interpreter!Enter(target, TRUE)
    BY <1>2 DEF interpreter!ExecuteCallc, interpreter!Execute, interpreter!Running,
       interpreter!I, interpreter!Trap, interpreter!Fail, interpreter!Undefined, interpreter!has_frame
  <2> HIDE DEF target
  <2> QED
    BY <2>1, EnterFollowed, SameBytecode
<1> QED
  BY <1>1, <1>2

(* A step of the interpreter goes on to, and keeps for a return, only what *)
(* has a depth, unless it is into a closure or within one.                 *)
LEMMA StepFollowed ==
  ASSUME TypesInv, interpreter!INext, workset = << >>, UNCHANGED stack_sizes, Followers,
         status' = "running"
  PROVE  Followers'
<1>1. IsCode(code) /\ ITypes /\ VerifierInv /\ UNCHANGED code
  BY CodeUnwritten DEF TypesInv, VerifierInv, VTypes
<1>2. status = "running" /\ ip \in DOMAIN code /\ Moves
  <2>1. ~interpreter!RunOff
    BY DEF interpreter!RunOff, interpreter!Trap, interpreter!Fail, interpreter!Undefined
  <2> QED
    BY <1>1, <2>1, Running, StepInterpreter DEF Stepped
<1>3. ~InClosure => \A b \in Returns \union Flow(ip) : Verified(b)
  BY <1>1, <1>2, AllVerified
<1>4. ASSUME Steers PROVE Followers'
  BY <1>1, <1>2, <1>3, <1>4, SteersFollowed
<1> QED
  BY <1>1, <1>2, <1>3, <1>4, ComputingSteers, AllocatingSteers, StoringSteers, JumpingSteers,
     BeginFollowed, ReturnFollowed, CallFollowed, Zenon DEF interpreter!INext

(* As long as an interpreter has not been let run, it is where it starts:  *)
(* at the first address, which main has to have for the verifier to have   *)
(* looked at it.                                                           *)
ControlInv == TypesInv /\ Control

LEMMA InitControlInv == Init => ControlInv
<1> SUFFICES ASSUME Init PROVE ControlInv
  OBVIOUS
<1>1. ip = 0 /\ frames = << >> /\ heap = << >> /\ ~is_tmp_closure
  BY DEF Init, interpreter!IInit
<1>2. verdict = "running"
  BY DEF Init, VInit
<1> QED
  BY <1>1, <1>2, InitTypesInv DEF ControlInv, Control

LEMMA EndFollowed == VerifierInv /\ workset = << >> => Verified(Entry)
BY AllFollowed

LEMMA EndFollowedNext == (VerifierInv /\ workset = << >>)' => Verified(Entry)'
BY EndFollowed, PTL

LEMMA NextControlInv ==
  ASSUME Entry = 0, ControlInv, [Next]_vars
  PROVE  ControlInv'
<1>1. TypesInv /\ TypesInv'
  BY NextTypesInv DEF ControlInv
<1>2. CASE verify
  <2>1. /\ ~checking /\ VNext /\ checking' = checking
        /\ UNCHANGED <<ip, frames, is_tmp_closure, heap, status>>
    BY <1>2 DEF verify, only_ivars
  <2>2. verdict = "running"
    BY <2>1 DEF VNext, LeaveFrame, Revisit, Advance, Jump, CondJump, Call, EnterFrame, Return, Visit,
                Reject, Accept, Visiting
  <2>3. ip = 0 /\ frames = << >> /\ heap = << >> /\ ~is_tmp_closure
    BY <2>1, <2>2 DEF ControlInv, Control
  <2>4. verdict' = "accepted" => Followers'
    <3>1. SUFFICES ASSUME verdict' = "accepted" PROVE Followers'
      OBVIOUS
    <3>2. VerifierInv' /\ workset' = << >>
      BY <1>1, <3>1 DEF TypesInv, VerifierInv, VTypes
    <3>3. Verified(0)'
      BY <3>2, EndFollowedNext
    <3>4. ip' = 0 /\ frames' = << >>
      BY <2>1, <2>3
    <3> QED
      BY <3>3, <3>4 DEF Followers, Verified
  <2>5. Control'
    BY <2>1, <2>3, <2>4 DEF Control
  <2> QED
    BY <1>1, <2>5 DEF ControlInv
<1>3. CASE interpret
  <2>1. /\ checking \/ verdict = "accepted"
        /\ interpreter!INext
        /\ UNCHANGED <<code, checking, stack_sizes, verdict>>
    BY <1>3, CodeUnwritten DEF interpret, only_vvars
  <2>2. checking => verdict = "running"
    BY Zenon DEF ControlInv, Control
  <2>3. ASSUME ~checking, status' = "running" PROVE Followers'
    <3>1. verdict = "accepted" /\ workset = << >> /\ status = "running"
      BY <1>1, <2>1, <2>3, Running DEF TypesInv, VerifierInv, VTypes
    <3>2. Followers
      BY <2>3, <3>1, Zenon DEF ControlInv, Control
    <3> QED
      BY <1>1, <2>1, <2>3, <3>1, <3>2, StepFollowed
  <2>4. Control'
    BY <2>1, <2>2, <2>3, Zenon DEF Control
  <2> QED
    BY <1>1, <2>4 DEF ControlInv
<1>4. CASE UNCHANGED vars
  <2>1. UNCHANGED <<code, checking, stack_sizes, verdict, ip, frames, is_tmp_closure, heap, status>>
    BY <1>4 DEF vars, vvars, only_ivars
  <2>2. Followers => Followers'
    BY <2>1 DEF Followers, Outside, Verified, InClosure
  <2> QED
    BY <1>1, <2>1, <2>2 DEF ControlInv, Control
<1> QED
  BY <1>2, <1>3, <1>4 DEF Next

(* Where main is the first function, whatever way the interpreter takes    *)
(* through an accepted program, it executes only what the verifier has     *)
(* looked at, unless it is in the body of a closure or in what that has    *)
(* called (interpreter.cpp, verifier.cpp).                                 *)
THEOREM OnlyVerifiedRuns == Entry = 0 => (Spec => []OnlyVerifiedCodeRuns)
<1> SUFFICES ASSUME Entry = 0 PROVE Spec => []OnlyVerifiedCodeRuns
  OBVIOUS
<1>1. ControlInv => OnlyVerifiedCodeRuns
  <2> SUFFICES ASSUME ControlInv, verdict = "accepted", status = "running", ip \in DOMAIN code,
                      ~InClosure
               PROVE  HasValue(stack_sizes[ip])
    BY DEF OnlyVerifiedCodeRuns
  <2>1. ~checking
    BY DEF ControlInv, Control
  <2>2. Verified(ip)
    BY <2>1, Zenon DEF ControlInv, Control, Followers
  <2> QED
    BY <2>2 DEF Verified
<1>2. ControlInv /\ [Next]_vars => ControlInv'
  BY NextControlInv
<1> QED
  BY <1>1, <1>2, InitControlInv, PTL DEF Spec
=============================================================================
