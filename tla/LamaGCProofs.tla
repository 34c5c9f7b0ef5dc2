---------------------------- MODULE LamaGCProofs ----------------------------
(***************************************************************************)
(* Proofs about LamaGC, for any mappings, programs, sizes of the heap, of  *)
(* the stack and of objects.                                               *)
(*                                                                         *)
(* GCTypes says what words, frames, objects and requests are, that objects *)
(* lie one behind the other, and how the settled ones and those that still *)
(* move share the heap during physical relocation.  It holds of every      *)
(* program.                                                                *)
(*                                                                         *)
(* GCSound says what the words refer to: an object of the present heap, or *)
(* the place of one while objects move.  A global variable is no root, and *)
(* a local that has not been set may hold the old address of something, so *)
(* that this is about programs that have neither (AllScanned).  Marking is *)
(* the search of a graph with its queue in the objects: what is marked or  *)
(* in the queue can be reached, and whatever else can be is referred to by *)
(* a root or a field that is still to be visited.  Relocation keeps what   *)
(* is retained: the places of the marked objects are the least set that    *)
(* has what the roots and its own objects refer to.                        *)
(*                                                                         *)
(* GCNamed says that each object has a name of its own, and that the words *)
(* that a request will take are on the stack.  With all three invariants   *)
(* each step is one of ObjectGraph: a reference changes whenever the       *)
(* object that it means is moved, and goes on meaning it (Follows).        *)
(***************************************************************************)
EXTENDS LamaGC, TLAPS, FiniteSetTheorems, SequenceTheorems, WellFoundedInduction

(* What the words of the stack and the fields of objects may be.           *)
Words == {Plain} \union (Bases \X Nat)

IsObject(obj) ==
  /\ obj = [kind |-> obj.kind, id |-> obj.id, fields |-> obj.fields,
            fwd |-> obj.fwd, mark |-> obj.mark, enq |-> obj.enq]
  /\ obj.kind \in ObjectKinds
  /\ obj.fields \in Seq(Words)
  /\ obj.fwd \in {None} \union (Bases \X Nat)
  /\ obj.mark \in BOOLEAN /\ obj.enq \in BOOLEAN

EndOf(objs, o) == o + SizeOf(objs[o])

(* The objects of the set S lie one behind the other from first to last.   *)
Tiled(objs, S, first, last) ==
  /\ \A o \in S : first <= o /\ EndOf(objs, o) <= last
  /\ \A o, p \in S : o < p => EndOf(objs, o) <= p
  /\ \A o \in S : o = first \/ \E p \in S : EndOf(objs, p) = o
  /\ \A o \in S : EndOf(objs, o) = last \/ EndOf(objs, o) \in S
  /\ first = last \/ (first \in S /\ \E o \in S : EndOf(objs, o) = last)

(* During relocation: the objects from the iterator on, those of them that *)
(* are live, the objects below free, and where a live one will be.         *)
Unmoved == {o \in DOMAIN heap.objs : gc.from <= o}
Moving == {o \in Unmoved : heap.objs[o].mark}
Settled(free) == {o \in DOMAIN heap.objs : o < free}

Place(o) == heap.objs[o].fwd[2]

(* Physical relocation with all objects below the iterator moved: those    *)
(* fill the heap up to free, and the others will fill it up to live.       *)
Sliding(free) ==
  /\ gc = [from |-> gc.from, live |-> gc.live]
  /\ gc.from \in 0..heap.current /\ gc.live \in Nat /\ free \in 0..gc.from
  /\ Tiled(heap.objs, Settled(free), 0, free)
  /\ Tiled(heap.objs, Unmoved, gc.from, heap.current)
  /\ \A p \in Moving : /\ heap.objs[p].fwd \in Bases \X Nat
                       /\ free <= Place(p) /\ Place(p) <= p
  /\ \A p, q \in Moving : p < q => Place(p) + SizeOf(heap.objs[p]) <= Place(q)
  /\ \A p \in Moving : \/ Place(p) = free
                       \/ \E q \in Moving : q < p /\ Place(q) + SizeOf(heap.objs[q]) = Place(p)
  /\ \A p \in Moving : \/ Place(p) + SizeOf(heap.objs[p]) = gc.live
                       \/ \E q \in Moving : p < q /\ Place(q) = Place(p) + SizeOf(heap.objs[p])
  /\ Moving = {} => free = gc.live
  /\ gc.live + WordsOf(request.kind, request.n) <= heap.size

FrameRecords == [base : Nat, args : Nat]

FramesOK ==
  /\ frames \in Seq(FrameRecords)
  /\ frames # <<>>
  /\ \A k \in 1..Len(frames) : frames[k].base >= Globals + 2
  /\ \A k \in 1..Len(frames) - 1 :
       frames[k].base + Locals <= frames[k + 1].base - frames[k + 1].args
  /\ Frame.base + Locals <= size

HeapOK ==
  /\ heap = [base |-> heap.base, size |-> heap.size, current |-> heap.current,
             objs |-> heap.objs]
  /\ heap.base \in Bases /\ heap.size \in Nat /\ heap.current \in 0..heap.size
  /\ heap.objs = [o \in DOMAIN heap.objs |-> heap.objs[o]]
  /\ DOMAIN heap.objs \subseteq 0..heap.current - 1
  /\ \A o \in DOMAIN heap.objs : IsObject(heap.objs[o])

RequestOK ==
  /\ request = [kind |-> request.kind, n |-> request.n, first |-> request.first,
                pops |-> request.pops, escaped |-> request.escaped]
  /\ request.kind \in ObjectKinds
  /\ request.n \in Nat /\ request.pops \in Nat /\ request.first \in Nat \ {0}
  /\ request.first + request.n <= size + 1
  /\ request.first + request.n <= StackWords + 1
  /\ Frame.base + Locals <= size - request.pops
  /\ size - request.pops < StackWords
  /\ request.escaped \in Words \union {None}

GCTypes ==
  /\ program \in Programs
  /\ phase \in {"run", "alloc", "mark", "relocate", "again", "killed"}
  /\ size \in 2..StackWords
  /\ stack \in [0..StackWords -> Words]
  /\ FramesOK
  /\ HeapOK
  /\ phase # "relocate" => Tiled(heap.objs, DOMAIN heap.objs, 0, heap.current)
  /\ phase \in {"alloc", "mark", "relocate", "again"} => RequestOK
  /\ phase = "mark" => /\ gc = [roots |-> gc.roots, head |-> gc.head,
                                tail |-> gc.tail, fields |-> gc.fields]
                       /\ gc.roots \in Seq(Words) /\ gc.fields \in Seq(Words)
  /\ phase = "relocate" => \E free \in 0..gc.from : Sliding(free)

-----------------------------------------------------------------------------
(* Programs whose words are all initialised and all scanned.  Global       *)
(* variables are not, and locals are reserved without being set.           *)

AllScanned == Globals = 0 /\ Locals = 0

(* In a heap at base, w refers to an object of R if it is a reference.     *)
SoundAt(base, w, R) == w = Plain \/ (w[1] = base /\ HeaderOf(w) \in R)
SoundIn(w, R) == SoundAt(heap.base, w, R)

(* The roots of a collection, and the fields of the object o.              *)
RootWords == {stack[i] : i \in 1..size - 1}
               \union {stack[request.first + i - 1] : i \in 1..request.n}
               \union ({request.escaped} \ {None})

FieldsIn(o, R) == \A i \in DOMAIN heap.objs[o].fields : SoundIn(heap.objs[o].fields[i], R)

NoBits == \A o \in DOMAIN heap.objs : ~heap.objs[o].mark /\ ~heap.objs[o].enq

WordsSound(R) ==
  /\ \A i \in 0..size - 1 : SoundIn(stack[i], R)
  /\ phase # "run" => \A w \in RootWords : SoundIn(w, R)

(* What bits and queue say during marking: the slots of the queue are the  *)
(* objects below its end, those from its head on have waiting elements.    *)
Marked == {o \in DOMAIN heap.objs : heap.objs[o].mark}
Enqueued == {o \in DOMAIN heap.objs : heap.objs[o].enq}
Reached == ReachedFrom(Range(Roots))

Slots == {o \in DOMAIN heap.objs : o < gc.tail}
Waiting == {o \in Slots : gc.head <= o}
Target(o) == HeaderOf(heap.objs[o].fwd)

(* The queue is made of the first objects of the heap.                     *)
Queue ==
  /\ gc.head \in DOMAIN heap.objs \union {heap.current}
  /\ gc.tail \in DOMAIN heap.objs \union {heap.current}
  /\ gc.head <= gc.tail
  /\ \A o \in Slots : heap.objs[o].fwd \in Bases \X Nat /\ SoundIn(heap.objs[o].fwd, DOMAIN heap.objs)
  /\ \A o \in Waiting : Target(o) \in Enqueued \ Marked
  /\ \A o \in Slots \ Waiting : Target(o) \in Marked
  /\ \A o, p \in Slots : o # p => Target(o) # Target(p)
  /\ \A x \in Enqueued : \E o \in Waiting : Target(o) = x

(* What is marked or in the queue can be reached, and what else can be is  *)
(* referred to by a root or a field that is still to be visited.           *)
Frontier ==
  /\ Marked \union Enqueued \subseteq Reached
  /\ \A i \in DOMAIN gc.roots : gc.roots[i] \in RootWords
  /\ \A w \in RootWords : \/ SoundIn(w, Marked \union Enqueued)
                          \/ \E i \in DOMAIN gc.roots : gc.roots[i] = w
  /\ \A i \in DOMAIN gc.fields : SoundIn(gc.fields[i], Reached)
  /\ \A x \in Marked : \A i \in DOMAIN heap.objs[x].fields :
        \/ SoundIn(heap.objs[x].fields[i], Marked \union Enqueued)
        \/ \E j \in DOMAIN gc.fields : gc.fields[j] = heap.objs[x].fields[i]

Marking == Queue /\ Frontier

(* The offsets that objects have, or will have when relocation is over.    *)
Places(free) == Settled(free) \union {Place(p) : p \in Moving}

(* R has what the roots and the objects at the places in R refer to.       *)
Retained(free, R) ==
  /\ \A w \in RootWords : SoundIn(w, R)
  /\ \A o \in Settled(free) \intersect R : FieldsIn(o, R)
  /\ \A p \in Moving : Place(p) \in R => FieldsIn(p, R)

SlidingSound(free) ==
  /\ Sliding(free)
  /\ \A o \in Settled(free) : ~heap.objs[o].mark
  /\ WordsSound(Places(free))
  /\ Retained(free, Places(free))
  /\ \A R \in SUBSET Places(free) : Retained(free, R) => Places(free) \subseteq R

(* What the words refer to in each phase, and which bits are set.          *)
GCSound ==
  /\ stack[0] = Plain
  /\ phase \in {"run", "alloc", "mark", "again"} =>
        /\ WordsSound(DOMAIN heap.objs)
        /\ \A o \in DOMAIN heap.objs : FieldsIn(o, DOMAIN heap.objs)
  /\ phase \in {"run", "alloc", "again"} => NoBits
  /\ phase \in {"relocate", "killed"} => Enqueued = {}
  /\ phase = "mark" => Marking
  /\ phase = "relocate" => \E free \in 0..gc.from : SlidingSound(free)
  /\ CollectionIsExact

-----------------------------------------------------------------------------
(* Types *)

LEMMA Numbers ==
  ASSUME program \in Programs
  PROVE  /\ Globals \in Nat /\ Locals \in Nat /\ MaxExtraRoots \in Nat /\ MinHeap \in Nat
         /\ StackWords \in Nat /\ StackWords >= Globals + 2 + Locals
         /\ program.arrays \subseteq Nat /\ program.sexps \subseteq Nat
         /\ program.closures \subseteq Nat
BY GCAssumption DEF StackWords

LEMMA WordsOfType ==
  ASSUME NEW k \in ObjectKinds, NEW n \in Nat
  PROVE  WordsOf(k, n) \in Nat /\ WordsOf(k, n) >= 2
BY DEF WordsOf, Header, ObjectKinds

LEMMA SizeType ==
  ASSUME NEW obj, IsObject(obj)
  PROVE  SizeOf(obj) \in Nat /\ SizeOf(obj) >= 2
BY WordsOfType, LenProperties DEF SizeOf, IsObject

(* What an object has to do with a word.                                   *)
LEMMA WordType ==
  ASSUME NEW w \in Words, w # Plain
  PROVE  w \in Bases \X Nat /\ w[1] \in Bases /\ w[2] \in Nat
BY DEF Words

LEMMA FrameType ==
  ASSUME GCTypes
  PROVE  /\ Frame \in [base : Nat, args : Nat]
         /\ Len(frames) \in Nat \ {0}
         /\ Frame.base >= Globals + 2
         /\ Frame.base + Locals <= size
         /\ Frame.base + Locals \in Nat /\ Frame.base + Locals >= 2
<1>1. frames \in Seq(FrameRecords) /\ Len(frames) \in Nat \ {0}
  BY EmptySeq, LenProperties DEF GCTypes, FramesOK
<1>2. Frame \in [base : Nat, args : Nat]
  <2>1. frames[Len(frames)] \in FrameRecords
    BY <1>1, ElementOfSeq
  <2> QED BY <2>1 DEF Frame, FrameRecords
<1>3. Frame.base >= Globals + 2 /\ Frame.base + Locals <= size
  BY <1>1 DEF GCTypes, FramesOK, Frame
<1> QED BY <1>1, <1>2, <1>3, Numbers DEF GCTypes

LEMMA DepthType ==
  ASSUME GCTypes
  PROVE  /\ Depth \in Int /\ Depth >= 0 /\ Depth <= size - 2
         /\ size - Depth = Frame.base + Locals
         /\ size \in Nat /\ StackWords \in Nat /\ size >= 2 /\ size <= StackWords
<1> DEFINE bottom == Frame.base + Locals
<1>1. bottom \in Nat /\ bottom >= 2 /\ bottom <= size /\ Depth = size - bottom
  BY FrameType DEF Depth
<1>2. size \in 2..StackWords /\ StackWords \in Nat
  BY Numbers DEF GCTypes
<1> HIDE DEF bottom
<1>3. /\ Depth \in Int /\ Depth >= 0 /\ Depth <= size - 2 /\ size - Depth = bottom
      /\ size \in Nat /\ StackWords \in Nat /\ size >= 2 /\ size <= StackWords
  BY <1>1, <1>2
<1> QED BY <1>3 DEF bottom

(* A step of the program that does not reach the heap.                     *)
LEMMA RunStep ==
  ASSUME GCTypes, phase = "run", phase' = "run",
         UNCHANGED <<program, heap>>,
         stack' \in [0..StackWords -> Words], size' \in 2..StackWords, FramesOK'
  PROVE  GCTypes'
<1>1. HeapOK' BY DEF GCTypes, HeapOK, IsObject
<1>2. StackWords' = StackWords BY DEF StackWords
<1> QED BY <1>1, <1>2 DEF GCTypes

LEMMA FramesKept ==
  ASSUME FramesOK, UNCHANGED frames, Frame.base + Locals <= size'
  PROVE  FramesOK'
BY DEF FramesOK, Frame

LEMMA ReplaceTypes ==
  ASSUME GCTypes, phase = "run", NEW k \in Nat, NEW w \in Words, k <= Depth, Replace(k, w)
  PROVE  GCTypes'
<1> DEFINE bottom == Frame.base + Locals
<1>a. bottom \in Nat /\ bottom >= 2 /\ size \in Int /\ k <= size - bottom
  BY FrameType DEF Depth, GCTypes
<1>b. StackWords \in Nat /\ size \in 2..StackWords /\ stack \in [0..StackWords -> Words]
  BY Numbers DEF GCTypes
<1>1. /\ size' \in 2..StackWords /\ stack' \in [0..StackWords -> Words]
      /\ bottom <= size'
  <2> HIDE DEF bottom
  <2> QED BY <1>a, <1>b DEF Replace
<1>2. FramesOK' BY <1>1, FramesKept DEF GCTypes, Replace
<1> QED BY <1>1, <1>2, RunStep DEF Replace

LEMMA StackWord ==
  ASSUME GCTypes, NEW i \in 0..StackWords
  PROVE  stack[i] \in Words
BY DEF GCTypes

LEMMA TopWord ==
  ASSUME GCTypes, NEW k \in Nat, k < Depth
  PROVE  Top(k) \in Words
<1> DEFINE bottom == Frame.base + Locals
<1>a. bottom \in Nat /\ bottom >= 2 /\ size \in Int /\ k < size - bottom
  BY FrameType DEF Depth, GCTypes
<1>b. StackWords \in Nat /\ size \in 2..StackWords
  BY Numbers DEF GCTypes
<1>1. size - 1 - k \in 0..StackWords
  <2> HIDE DEF bottom
  <2> QED BY <1>a, <1>b
<1> QED BY <1>1, StackWord DEF Top

LEMMA FieldWord ==
  ASSUME GCTypes, NEW o \in DOMAIN heap.objs, NEW i \in DOMAIN heap.objs[o].fields
  PROVE  heap.objs[o].fields[i] \in Words
<1>1. heap.objs[o].fields \in Seq(Words)
  BY DEF GCTypes, HeapOK, IsObject
<1>2. i \in 1..Len(heap.objs[o].fields)
  BY <1>1
<1> QED BY <1>1, <1>2, ElementOfSeq

(* The variables of a function are below the top of the stack.             *)
LEMMA VariableType ==
  ASSUME GCTypes, NEW i \in Variables
  PROVE  i \in 0..size - 1 /\ (Globals = 0 => i >= 2)
<1> DEFINE n == Len(frames)
<1>1. /\ n \in Nat \ {0} /\ Frame.base \in Nat /\ Frame.args \in Nat /\ Frame.base >= Globals + 2
      /\ Frame.base + Locals <= size /\ Globals \in Nat /\ Locals \in Nat /\ size \in Nat
  BY FrameType, Numbers DEF GCTypes
<1>2. n # 1 => Frame.base - Frame.args >= 2
  <2> SUFFICES ASSUME n # 1 PROVE Frame.base - Frame.args >= 2
    OBVIOUS
  <2>1. n - 1 \in 1..Len(frames) - 1 /\ n - 1 \in 1..Len(frames) /\ n - 1 + 1 = Len(frames)
    <3> HIDE DEF n
    <3>1. n - 1 \in 1..n - 1 /\ n - 1 \in 1..n /\ n - 1 + 1 = n
      BY <1>1
    <3> QED BY <3>1 DEF n
  <2>2. /\ frames[n - 1].base >= Globals + 2
        /\ frames[n - 1].base + Locals <= frames[n - 1 + 1].base - frames[n - 1 + 1].args
    BY <2>1 DEF GCTypes, FramesOK
  <2>3. frames[n - 1] \in FrameRecords
    BY <2>1, ElementOfSeq DEF GCTypes, FramesOK
  <2>4. frames[n - 1].base \in Nat
    BY <2>3 DEF FrameRecords
  <2>5. frames[n - 1].base + Locals <= Frame.base - Frame.args
    BY <2>2, <2>1 DEF Frame
  <2> HIDE DEF n
  <2> QED BY <1>1, <2>2, <2>4, <2>5
<1> HIDE DEF n
<1>3. \/ i \in 0..Globals - 1 \/ i \in Frame.base..Frame.base + Locals - 1
      \/ n # 1 /\ i \in Frame.base - Frame.args..Frame.base - 1
  BY DEF Variables, n
<1> QED BY <1>1, <1>2, <1>3

(* The size of an object is that of its kind and number of fields.         *)
LEMMA SizesKept ==
  ASSUME NEW f, NEW g, NEW S, NEW first, NEW last, Tiled(f, S, first, last),
         \A o \in S : SizeOf(g[o]) = SizeOf(f[o])
  PROVE  Tiled(g, S, first, last)
BY DEF Tiled, EndOf

(* A step that changes the contents of objects.                            *)
LEMMA ContentsStep ==
  ASSUME HeapOK, NEW X, X = [o \in DOMAIN heap.objs |-> X[o]],
         heap' = [heap EXCEPT !.objs = X],
         \A o \in DOMAIN heap.objs : IsObject(X[o])
  PROVE  /\ HeapOK' /\ heap'.objs = X /\ DOMAIN heap'.objs = DOMAIN heap.objs
         /\ heap'.base = heap.base /\ heap'.size = heap.size /\ heap'.current = heap.current
<1>1. heap' = [base |-> heap.base, size |-> heap.size, current |-> heap.current, objs |-> X]
  BY DEF HeapOK
<1>2. /\ heap'.objs = X /\ DOMAIN heap'.objs = DOMAIN heap.objs
      /\ heap'.base = heap.base /\ heap'.size = heap.size /\ heap'.current = heap.current
  BY <1>1
<1>3. \A o \in DOMAIN heap'.objs : IsObject(heap'.objs[o])
  BY <1>2
<1> QED BY <1>1, <1>2, <1>3 DEF HeapOK

LEMMA StoreTypes ==
  ASSUME GCTypes, NEW i \in Variables, Store(i)
  PROVE  GCTypes'
<1>1. i \in 0..StackWords /\ Top(0) \in Words
  <2>1. i \in 0..size - 1 BY VariableType
  <2>2. i \in 0..StackWords BY <2>1, DepthType
  <2> QED BY <2>2, TopWord DEF Store
<1>2. stack' \in [0..StackWords -> Words] /\ size' \in 2..StackWords
  BY <1>1 DEF Store, GCTypes
<1>3. FramesOK' BY FramesKept, FrameType DEF Store, GCTypes
<1> QED BY <1>2, <1>3, RunStep DEF Store, Running

LEMMA SwapTypes ==
  ASSUME GCTypes, Swap
  PROVE  GCTypes'
<1>1. Top(0) \in Words /\ Top(1) \in Words
  BY TopWord, DepthType DEF Swap
<1>2. stack' \in [0..StackWords -> Words] /\ size' \in 2..StackWords
  BY <1>1 DEF Swap, GCTypes
<1>3. FramesOK' BY FramesKept, FrameType DEF Swap, GCTypes
<1> QED BY <1>2, <1>3, RunStep DEF Swap, Running

LEMMA DropTypes ==
  ASSUME GCTypes, Drop
  PROVE  GCTypes'
<1>1. size' \in 2..StackWords /\ Frame.base + Locals <= size'
  <2>1. Depth > 0 /\ size' = size - 1 BY DEF Drop
  <2> QED BY <2>1, DepthType
<1>2. FramesOK' BY <1>1, FramesKept DEF Drop, GCTypes
<1> QED BY <1>1, <1>2, RunStep DEF Drop, Running, GCTypes

LEMMA ElemTypes ==
  ASSUME GCTypes, Elem
  PROVE  GCTypes'
<1> DEFINE o == HeaderOf(Top(1))
<1>1. o \in DOMAIN heap.objs
  BY DEF Elem, IsAggregate, RefersToObject
<1>2. PICK i \in DOMAIN heap.objs[o].fields : Replace(2, heap.objs[o].fields[i])
  BY DEF Elem
<1>3. 2 <= Depth
  BY FrameType DEF Elem, Depth, GCTypes
<1> QED BY <1>1, <1>2, <1>3, FieldWord, ReplaceTypes DEF Elem, Running

LEMMA ObjectIs ==
  ASSUME GCTypes, NEW o \in DOMAIN heap.objs
  PROVE  /\ IsObject(heap.objs[o])
         /\ SizeOf(heap.objs[o]) \in Nat /\ SizeOf(heap.objs[o]) >= 2
         /\ o \in Nat
<1>1. IsObject(heap.objs[o]) BY DEF GCTypes, HeapOK
<1> QED BY <1>1, SizeType DEF GCTypes, HeapOK

LEMMA FieldStored ==
  ASSUME NEW obj, IsObject(obj), NEW i \in DOMAIN obj.fields, NEW w \in Words
  PROVE  /\ IsObject([obj EXCEPT !.fields[i] = w])
         /\ SizeOf([obj EXCEPT !.fields[i] = w]) = SizeOf(obj)
         /\ [obj EXCEPT !.fields[i] = w].fields = [obj.fields EXCEPT ![i] = w]
         /\ [obj EXCEPT !.fields[i] = w].mark = obj.mark
         /\ [obj EXCEPT !.fields[i] = w].enq = obj.enq
         /\ [obj EXCEPT !.fields[i] = w].id = obj.id
         /\ [obj EXCEPT !.fields[i] = w].kind = obj.kind
<1> DEFINE new == [obj EXCEPT !.fields[i] = w]
           fields == [obj.fields EXCEPT ![i] = w]
<1>1. obj.fields \in Seq(Words) /\ Len(obj.fields) \in Nat /\ DOMAIN obj.fields = 1..Len(obj.fields)
  BY LenProperties DEF IsObject
<1>2. fields \in Seq(Words) /\ Len(fields) = Len(obj.fields)
  BY <1>1, ExceptSeq
<1>3. new = [kind |-> obj.kind, id |-> obj.id, fields |-> fields,
             fwd |-> obj.fwd, mark |-> obj.mark, enq |-> obj.enq]
  <2> DEFINE k == obj.kind
             x == obj.id
             l == obj.fields
             f == obj.fwd
             m == obj.mark
             e == obj.enq
  <2>1. obj = [kind |-> k, id |-> x, fields |-> l, fwd |-> f, mark |-> m, enq |-> e]
    BY DEF IsObject
  <2>2. [[kind |-> k, id |-> x, fields |-> l, fwd |-> f, mark |-> m, enq |-> e] EXCEPT !.fields[i] = w]
          = [kind |-> k, id |-> x, fields |-> [l EXCEPT ![i] = w], fwd |-> f, mark |-> m, enq |-> e]
    <3> HIDE DEF k, x, l, f, m, e
    <3> QED OBVIOUS
  <2> QED BY <2>1, <2>2
<1> HIDE DEF new, fields
<1>4. new.kind = obj.kind /\ new.fields = fields /\ new.fwd = obj.fwd
      /\ new.mark = obj.mark /\ new.enq = obj.enq /\ new.id = obj.id
  BY <1>3
<1>5. IsObject(new) BY <1>2, <1>3, <1>4 DEF IsObject
<1>6. SizeOf(new) = SizeOf(obj) BY <1>2, <1>4 DEF SizeOf
<1> QED BY <1>4, <1>5, <1>6 DEF new, fields

(* The new contents of the heap after Sta.                                 *)
StoredIn(o, i, w) ==
  [p \in DOMAIN heap.objs |-> IF p = o THEN [heap.objs[o] EXCEPT !.fields[i] = w] ELSE heap.objs[p]]

LEMMA StoreField ==
  ASSUME GCTypes, NEW o \in DOMAIN heap.objs, NEW i \in DOMAIN heap.objs[o].fields, NEW w \in Words,
         heap' = [heap EXCEPT !.objs[o].fields[i] = w]
  PROVE  /\ HeapOK' /\ heap'.objs = StoredIn(o, i, w) /\ DOMAIN heap'.objs = DOMAIN heap.objs
         /\ heap'.base = heap.base /\ heap'.size = heap.size /\ heap'.current = heap.current
         /\ \A p \in DOMAIN heap.objs : SizeOf(heap'.objs[p]) = SizeOf(heap.objs[p])
<1> DEFINE X == StoredIn(o, i, w)
<1>1. heap.objs = [p \in DOMAIN heap.objs |-> heap.objs[p]] /\ HeapOK
  BY DEF GCTypes, HeapOK
<1>2. [heap.objs EXCEPT ![o].fields[i] = w] = X
  BY <1>1 DEF StoredIn
<1>3. heap' = [heap EXCEPT !.objs = X]
  BY <1>2
<1>4. X = [p \in DOMAIN heap.objs |-> X[p]]
  BY DEF StoredIn
<1>5. ASSUME NEW p \in DOMAIN heap.objs
      PROVE  IsObject(X[p]) /\ SizeOf(X[p]) = SizeOf(heap.objs[p])
  <2>1. IsObject(heap.objs[p]) BY ObjectIs
  <2>2. CASE p # o BY <2>1, <2>2 DEF StoredIn
  <2>3. CASE p = o BY <2>1, <2>3, FieldStored DEF StoredIn
  <2> QED BY <2>2, <2>3
<1> HIDE DEF X
<1>6. /\ HeapOK' /\ heap'.objs = X /\ DOMAIN heap'.objs = DOMAIN heap.objs
      /\ heap'.base = heap.base /\ heap'.size = heap.size /\ heap'.current = heap.current
  BY <1>1, <1>3, <1>4, <1>5, ContentsStep
<1> QED BY <1>5, <1>6 DEF X

LEMMA StaTypes ==
  ASSUME GCTypes, Sta
  PROVE  GCTypes'
<1> DEFINE o == HeaderOf(Top(2))
<1>1. o \in DOMAIN heap.objs /\ Top(0) \in Words
  BY TopWord, DepthType DEF Sta, IsAggregate, RefersToObject
<1>2. PICK i \in DOMAIN heap.objs[o].fields : heap' = [heap EXCEPT !.objs[o].fields[i] = Top(0)]
  BY DEF Sta
<1>3. /\ HeapOK' /\ DOMAIN heap'.objs = DOMAIN heap.objs /\ heap'.current = heap.current
      /\ \A p \in DOMAIN heap.objs : SizeOf(heap'.objs[p]) = SizeOf(heap.objs[p])
  BY <1>1, <1>2, StoreField
<1>4. Tiled(heap'.objs, DOMAIN heap'.objs, 0, heap'.current)
  BY <1>3, SizesKept DEF GCTypes, Sta, Running
<1>5. Depth > 2 /\ size' = size - 2 /\ phase = "run" /\ phase' = "run" /\ program' = program
      /\ frames' = frames /\ stack' = [stack EXCEPT ![size - 3] = Top(0)]
  BY DEF Sta, Running
<1>6. size' \in 2..StackWords /\ Frame.base + Locals <= size'
  BY <1>5, DepthType
<1>7. stack' \in [0..StackWords -> Words] /\ StackWords' = StackWords
  BY <1>1, <1>5 DEF GCTypes, StackWords
<1>8. FramesOK' BY <1>5, <1>6, FramesKept DEF GCTypes
<1> QED BY <1>3, <1>4, <1>5, <1>6, <1>7, <1>8 DEF GCTypes

LEMMA BeginTypes ==
  ASSUME GCTypes, NEW args \in 0..1, Begin(args)
  PROVE  GCTypes'
<1> DEFINE n == Len(frames)
           r == [base |-> size, args |-> args]
<1>1. /\ frames \in Seq(FrameRecords) /\ n \in Nat \ {0} /\ Locals \in Nat /\ Globals \in Nat
      /\ \A k \in 1..n : frames[k].base >= Globals + 2
      /\ \A k \in 1..n - 1 : frames[k].base + Locals <= frames[k + 1].base - frames[k + 1].args
  BY FrameType, Numbers DEF GCTypes, FramesOK
<1>2. /\ Depth >= args /\ frames' = Append(frames, r) /\ size' = size + Locals
      /\ size + Locals <= StackWords
      /\ stack' = stack /\ program' = program /\ phase = "run" /\ phase' = "run" /\ heap' = heap
  BY DEF Begin, Running
<1>3. size \in Nat /\ StackWords \in Nat /\ size >= 2 /\ size <= StackWords
      /\ size - args >= frames[n].base + Locals /\ size >= Globals + 2
  <2>1. size \in Nat /\ StackWords \in Nat /\ size >= 2 /\ size <= StackWords
        /\ Depth \in Int /\ size - Depth = Frame.base + Locals
    BY DepthType
  <2>2. Frame.base + Locals \in Nat /\ Frame.base \in Nat /\ Frame.base >= Globals + 2
        /\ Frame.base + Locals <= size
    BY FrameType
  <2>3. size - args >= Frame.base + Locals BY <1>2, <2>1, <2>2
  <2>4. size >= Globals + 2 BY <1>1, <2>1, <2>2
  <2>5. Frame = frames[n] BY DEF Frame
  <2> QED BY <2>1, <2>3, <2>4, <2>5
<1>4. r \in FrameRecords BY <1>3 DEF FrameRecords
<1>5. frames' \in Seq(FrameRecords) /\ Len(frames') = n + 1 /\ frames' # <<>>
      /\ \A k \in 1..n + 1 : frames'[k] = IF k = n + 1 THEN r ELSE frames[k]
  <2> DEFINE q == Append(frames, r)
  <2> HIDE DEF r
  <2>1. frames \in Seq(FrameRecords) /\ Len(frames) \in Nat BY <1>1
  <2>2. /\ q \in Seq(FrameRecords) /\ Len(q) = Len(frames) + 1 /\ q # <<>>
        /\ \A k \in 1..Len(frames) : q[k] = frames[k]
        /\ q[Len(frames) + 1] = r
    BY <2>1, <1>4, AppendProperties
  <2> HIDE DEF q
  <2>3. \A k \in 1..n + 1 : q[k] = IF k = n + 1 THEN r ELSE frames[k]
    BY <2>1, <2>2
  <2> QED BY <1>2, <2>2, <2>3 DEF q
<1> HIDE DEF n
<1>6. r.base = size /\ r.args = args OBVIOUS
<1> HIDE DEF r
<1>7. ASSUME NEW k \in 1..n + 1 PROVE frames'[k].base >= Globals + 2
  <2>1. CASE k = n + 1 BY <2>1, <1>3, <1>5, <1>6
  <2>2. CASE k # n + 1
    <3>1. k \in 1..n BY <2>2, <1>1
    <3> QED BY <3>1, <2>2, <1>1, <1>5
  <2> QED BY <2>1, <2>2
<1>8. ASSUME NEW k \in 1..n
      PROVE  frames'[k].base + Locals <= frames'[k + 1].base - frames'[k + 1].args
  <2>1. CASE k = n
    BY <2>1, <1>1, <1>3, <1>5, <1>6
  <2>2. CASE k # n
    <3>1. k \in 1..n - 1 /\ k + 1 \in 1..n + 1 /\ k + 1 # n + 1 /\ k # n + 1 BY <2>2, <1>1
    <3> QED BY <3>1, <1>1, <1>5
  <2> QED BY <2>1, <2>2
<1>9. frames'[n + 1].base + Locals <= size'
  BY <1>1, <1>2, <1>3, <1>5, <1>6
<1>10. FramesOK'
  <2>1. Len(frames') - 1 = n BY <1>1, <1>5
  <2> QED BY <1>1, <1>5, <1>7, <1>8, <1>9, <2>1 DEF FramesOK, Frame
<1>11. size' \in 2..StackWords BY <1>1, <1>2, <1>3
<1> QED BY <1>2, <1>10, <1>11, RunStep DEF GCTypes

LEMMA EndTypes ==
  ASSUME GCTypes, End
  PROVE  GCTypes' /\ size' - 1 < size /\ size' - 1 >= 2
<1> DEFINE n == Len(frames)
           b == Frame.base - Frame.args
<1>1. /\ frames \in Seq(FrameRecords) /\ n \in Nat \ {0} /\ Locals \in Nat /\ Globals \in Nat
      /\ \A k \in 1..n : frames[k].base >= Globals + 2
      /\ \A k \in 1..n - 1 : frames[k].base + Locals <= frames[k + 1].base - frames[k + 1].args
      /\ Frame.base + Locals <= size /\ Frame \in FrameRecords
  BY FrameType, Numbers DEF GCTypes, FramesOK, FrameRecords
<1>2. /\ n > 1 /\ Depth > 0 /\ frames' = SubSeq(frames, 1, n - 1) /\ size' = b + 1
      /\ stack' = [stack EXCEPT ![b] = Top(0)]
      /\ program' = program /\ phase = "run" /\ phase' = "run" /\ heap' = heap
  BY DEF End, Running
<1>3. size \in Nat /\ StackWords \in Nat /\ size >= 2 /\ size <= StackWords /\ size > Frame.base + Locals
  BY <1>2, DepthType
<1>4. Top(0) \in Words BY <1>2, TopWord
<1>a. n \in Nat /\ frames[n] = Frame BY <1>1 DEF Frame
<1>b. \A k \in 1..n : frames[k] \in FrameRecords
  BY <1>1, ElementOfSeq
<1>5. n - 1 \in 1..n - 1 /\ n - 1 + 1 = n /\ n - 1 \in 1..n /\ n - 1 \in Nat
  <2> HIDE DEF n
  <2> QED BY <1>1, <1>2
<1>6. frames' \in Seq(FrameRecords) /\ Len(frames') = n - 1
      /\ \A k \in 1..n - 1 : frames'[k] = frames[k]
  BY <1>1, <1>2, <1>5, SubSeqProperties
<1> HIDE DEF n
<1>7. frames[n - 1].base + Locals <= b /\ frames[n - 1].base \in Nat /\ frames[n - 1].base >= Globals + 2
  BY <1>1, <1>5, <1>a, <1>b DEF FrameRecords
<1>8. b \in Int /\ b <= Frame.base /\ Frame.base \in Nat
  BY <1>1 DEF FrameRecords
<1> HIDE DEF b
<1>9. frames' # <<>>
  <2>1. Len(frames') # 0 BY <1>5, <1>6
  <2> QED BY <2>1, EmptySeq
<1>10. ASSUME NEW k \in 1..n - 1
       PROVE  frames'[k].base >= Globals + 2
  <2>1. k \in 1..n BY <1>a
  <2> QED BY <2>1, <1>1, <1>6
<1>11. ASSUME NEW k \in 1..n - 1 - 1
       PROVE  frames'[k].base + Locals <= frames'[k + 1].base - frames'[k + 1].args
  <2>1. k \in 1..n - 1 /\ k + 1 \in 1..n - 1 BY <1>5
  <2> QED BY <2>1, <1>1, <1>6
<1>12. b >= 2 /\ b < size /\ frames'[n - 1].base + Locals <= size'
  <2>1. b >= Globals + 2 + Locals
    <3> DEFINE a == frames[n - 1].base
    <3>1. a \in Nat /\ a >= Globals + 2 /\ a + Locals <= b BY <1>7
    <3> HIDE DEF a
    <3> QED BY <3>1, <1>1, <1>8
  <2>2. b >= 2 BY <2>1, <1>1, <1>8
  <2>3. b < size BY <1>1, <1>3, <1>8
  <2>4. frames'[n - 1] = frames[n - 1] BY <1>5, <1>6
  <2>5. frames[n - 1].base + Locals <= b + 1 BY <1>1, <1>7, <1>8
  <2> QED BY <1>2, <2>2, <2>3, <2>4, <2>5
<1>13. FramesOK'
  <2>1. Globals' = Globals /\ Locals' = Locals OBVIOUS
  <2> QED BY <1>1, <1>6, <1>9, <1>10, <1>11, <1>12 DEF FramesOK, Frame
<1>14. size' \in 2..StackWords /\ stack' \in [0..StackWords -> Words]
  <2>1. stack \in [0..StackWords -> Words] BY DEF GCTypes
  <2> QED BY <1>2, <1>3, <1>4, <1>8, <1>12, <2>1
<1> QED BY <1>2, <1>3, <1>8, <1>12, <1>13, <1>14, RunStep

(* A request for an allocation.                                            *)
LEMMA AskTypes ==
  ASSUME GCTypes, Running, NEW kind \in ObjectKinds, NEW n \in Nat, NEW first \in Nat \ {0},
         NEW pops \in Nat, NEW escaped \in Words \union {None},
         Ask([kind |-> kind, n |-> n, first |-> first, pops |-> pops, escaped |-> escaped]),
         stack' \in [0..StackWords -> Words], size' \in 2..StackWords,
         first + n <= size' + 1,
         Frame.base + Locals <= size' - pops, size' - pops < StackWords
  PROVE  GCTypes'
<1>1. /\ request' = [kind |-> kind, n |-> n, first |-> first, pops |-> pops, escaped |-> escaped]
      /\ phase' \in {"killed", "alloc"} /\ program' = program /\ frames' = frames /\ heap' = heap
      /\ phase = "run"
  BY DEF Ask, Running
<1>2. /\ request'.kind = kind /\ request'.n = n /\ request'.first = first
      /\ request'.pops = pops /\ request'.escaped = escaped
  BY <1>1
<1>3. StackWords' = StackWords /\ Frame' = Frame
  BY <1>1 DEF StackWords, Frame
<1>4. StackWords \in Nat /\ size' \in Nat /\ size' <= StackWords
  <2>1. StackWords \in Nat BY Numbers DEF GCTypes
  <2> QED BY <2>1
<1>5. RequestOK'
  <2>1. \A m \in Nat : \A s, t \in Nat : m <= s + 1 /\ s <= t => m <= t + 1 OBVIOUS
  <2>0. first + n \in Nat OBVIOUS
  <2>3. first + n <= size' + 1 OBVIOUS
  <2>2. first + n <= StackWords + 1 BY <1>4, <2>1, <2>0, <2>3
  <2> QED BY <1>1, <1>2, <1>3, <2>2 DEF RequestOK
<1>6. Frame.base + Locals <= size'
  <2>1. Frame.base + Locals \in Nat BY FrameType
  <2> QED BY <2>1, <1>4
<1>7. FramesOK' BY <1>1, <1>6, FramesKept DEF GCTypes
<1>8. HeapOK' BY <1>1 DEF GCTypes, HeapOK, IsObject
<1>9. Tiled(heap'.objs, DOMAIN heap'.objs, 0, heap'.current)
  BY <1>1 DEF GCTypes
<1> QED BY <1>1, <1>3, <1>5, <1>7, <1>8, <1>9 DEF GCTypes

LEMMA NewStringTypes ==
  ASSUME GCTypes, NewString
  PROVE  GCTypes'
<1>1. Ask([kind |-> "string", n |-> 0, first |-> size, pops |-> 0, escaped |-> None])
      /\ size < StackWords /\ stack' = stack /\ size' = size /\ Running
  BY DEF NewString, MayAllocate
<1>2. size \in Nat /\ size >= 2 /\ Frame.base + Locals <= size
  BY DepthType, FrameType
<1>3. "string" \in ObjectKinds BY DEF ObjectKinds
<1> QED BY <1>1, <1>2, <1>3, AskTypes DEF GCTypes

LEMMA RenderStringTypes ==
  ASSUME GCTypes, RenderString
  PROVE  GCTypes'
<1>1. Ask([kind |-> "string", n |-> 0, first |-> size - 1, pops |-> 0, escaped |-> Top(0)])
      /\ Depth > 0 /\ stack' = stack /\ size' = size - 1 /\ Running
  BY DEF RenderString, MayAllocate
<1>2. size - 1 \in Nat \ {0} /\ size' \in 2..StackWords /\ Frame.base + Locals <= size' - 0
      /\ size' - 0 < StackWords /\ size - 1 + 0 <= size' + 1
  BY <1>1, DepthType
<1>3. "string" \in ObjectKinds BY DEF ObjectKinds
<1>4. Top(0) \in Words BY <1>1, TopWord
<1> QED BY <1>1, <1>2, <1>3, <1>4, AskTypes DEF GCTypes

LEMMA NewArrayTypes ==
  ASSUME GCTypes, NEW n \in Nat, NewArray(n)
  PROVE  GCTypes'
<1>1. Ask([kind |-> "array", n |-> n, first |-> size - n, pops |-> n, escaped |-> None])
      /\ Depth >= n /\ size - n < StackWords /\ stack' = stack /\ size' = size /\ Running
  BY DEF NewArray, MayAllocate
<1>2. size - n \in Nat \ {0} /\ size' \in 2..StackWords /\ Frame.base + Locals <= size' - n
      /\ size - n + n <= size' + 1
  BY <1>1, DepthType
<1>3. "array" \in ObjectKinds BY DEF ObjectKinds
<1> QED BY <1>1, <1>2, <1>3, AskTypes DEF GCTypes

LEMMA NewSexpTypes ==
  ASSUME GCTypes, NEW n \in Nat, NewSexp(n)
  PROVE  GCTypes'
<1>1. Ask([kind |-> "sexp", n |-> n, first |-> size - n, pops |-> n, escaped |-> None])
      /\ Depth >= n /\ size - n < StackWords /\ stack' = [stack EXCEPT ![size] = Plain]
      /\ size' = size /\ Running
  BY DEF NewSexp, MayAllocate
<1>2. size - n \in Nat \ {0} /\ size' \in 2..StackWords /\ Frame.base + Locals <= size' - n
      /\ size - n + n <= size' + 1
  BY <1>1, DepthType
<1>3. "sexp" \in ObjectKinds BY DEF ObjectKinds
<1>4. stack' \in [0..StackWords -> Words]
  BY <1>1 DEF GCTypes, Words
<1> QED BY <1>1, <1>2, <1>3, <1>4, AskTypes

LEMMA NewClosureTypes ==
  ASSUME GCTypes, NEW n \in Nat, NewClosure(n)
  PROVE  GCTypes'
<1>1. Ask([kind |-> "closure", n |-> n + 1, first |-> size + 1, pops |-> n + 1, escaped |-> None])
      /\ size + n + 1 <= StackWords /\ size' = size + n + 1 /\ Running
  BY DEF NewClosure, MayAllocate
<1>2. PICK captured \in [1..n -> Variables] :
        stack' = [i \in DOMAIN stack |->
                   IF i = size THEN Plain
                   ELSE IF i \in size + 1..size + n THEN stack[captured[i - size]]
                   ELSE stack[i]]
  BY DEF NewClosure
<1>3. size + 1 \in Nat \ {0} /\ size' \in 2..StackWords /\ Frame.base + Locals <= size' - (n + 1)
      /\ size + 1 + (n + 1) <= size' + 1 /\ size' - (n + 1) < StackWords /\ n + 1 \in Nat
  <2>1. size' - (n + 1) = size /\ n + 1 \in Nat /\ size + 1 \in Nat \ {0}
        /\ size' \in 2..StackWords /\ size < StackWords /\ size + 1 + (n + 1) <= size' + 1
    <3>1. size + n + 1 <= StackWords /\ size' = size + n + 1 BY <1>1
    <3>2. size \in Nat /\ StackWords \in Nat /\ size >= 2 BY DepthType
    <3> QED BY <3>1, <3>2
  <2>2. Frame.base + Locals <= size BY FrameType
  <2> QED BY <2>1, <2>2
<1>4. "closure" \in ObjectKinds BY DEF ObjectKinds
<1>5. stack' \in [0..StackWords -> Words]
  <2>1. DOMAIN stack = 0..StackWords BY DEF GCTypes
  <2>2. ASSUME NEW i \in 0..StackWords, i \in size + 1..size + n
        PROVE  stack[captured[i - size]] \in Words
    <3>1. i - size \in 1..n BY <2>2, DepthType
    <3>2. captured[i - size] \in 0..StackWords BY <3>1, VariableType, DepthType
    <3> QED BY <3>2, StackWord
  <2>3. Plain \in Words BY DEF Words
  <2>4. \A i \in 0..StackWords : stack[i] \in Words BY StackWord
  <2> QED BY <1>2, <2>1, <2>2, <2>3, <2>4
<1> QED BY <1>1, <1>3, <1>4, <1>5, AskTypes

-----------------------------------------------------------------------------

LEMMA TiledAppend ==
  ASSUME NEW f, NEW g, NEW S \in SUBSET Int, NEW first \in Nat, NEW last \in Nat, first <= last,
         Tiled(f, S, first, last),
         \A o \in S : SizeOf(g[o]) = SizeOf(f[o]),
         \A o \in S \union {last} : SizeOf(g[o]) \in Nat /\ SizeOf(g[o]) > 0
  PROVE  Tiled(g, S \union {last}, first, EndOf(g, last))
<1> DEFINE E(o) == EndOf(g, o)
<1>1. \A o \in S \union {last} : E(o) \in Int /\ o < E(o) /\ o \in Int
  BY DEF EndOf
<1>2. /\ \A o \in S : first <= o /\ E(o) <= last
      /\ \A o, p \in S : o < p => E(o) <= p
      /\ \A o \in S : o = first \/ \E p \in S : E(p) = o
      /\ \A o \in S : E(o) = last \/ E(o) \in S
      /\ first = last \/ (first \in S /\ \E o \in S : E(o) = last)
  BY DEF Tiled, EndOf
<1> HIDE DEF E
<1>3. /\ \A o \in S \union {last} : first <= o /\ E(o) <= E(last)
      /\ \A o, p \in S \union {last} : o < p => E(o) <= p
      /\ \A o \in S \union {last} : o = first \/ \E p \in S \union {last} : E(p) = o
      /\ \A o \in S \union {last} : E(o) = E(last) \/ E(o) \in S \union {last}
      /\ first \in S \union {last} /\ \E o \in S \union {last} : E(o) = E(last)
  <2>1. \A o \in S \union {last} : first <= o /\ E(o) <= E(last)
    BY <1>1, <1>2
  <2>2. \A o, p \in S \union {last} : o < p => E(o) <= p
    BY <1>1, <1>2
  <2> QED BY <1>1, <1>2, <2>1, <2>2
<1> QED BY <1>3 DEF Tiled, E

LEMMA AllocateTypes ==
  ASSUME GCTypes, Allocate
  PROVE  GCTypes'
<1> DEFINE n == request.n
           F == [i \in 1..n |-> stack[request.first + i - 1]]
           new == [kind |-> request.kind, id |-> NewId, fields |-> F,
                   fwd |-> None, mark |-> FALSE, enq |-> FALSE]
           D == DOMAIN heap.objs
           c == heap.current
           X == [o \in D \union {c} |-> IF o = c THEN new ELSE heap.objs[o]]
<1>1. /\ phase \in {"alloc", "again"} /\ program' = program /\ frames' = frames
      /\ RequestOK /\ HeapOK /\ FramesOK /\ size \in 2..StackWords
      /\ stack \in [0..StackWords -> Words] /\ Tiled(heap.objs, D, 0, c)
  BY DEF Allocate, GCTypes
<1>2. StackWords \in Nat /\ StackWords' = StackWords
  BY <1>1, Numbers DEF GCTypes, StackWords
<1>3. CASE ~Fits
  <2>1. phase' = "killed" /\ stack' = stack /\ size' = size /\ heap' = heap
    BY <1>3 DEF Allocate
  <2>2. HeapOK' BY <2>1, <1>1 DEF HeapOK, IsObject
  <2>3. FramesOK' BY <2>1, <1>1, FramesKept DEF FramesOK
  <2> QED BY <1>1, <1>2, <2>1, <2>2, <2>3 DEF GCTypes
<1>4. CASE Fits
  <2>1. /\ heap' = [heap EXCEPT !.current = @ + SizeOf(new), !.objs = X]
        /\ stack' = [stack EXCEPT ![size - request.pops] = ContentOf(heap.base, heap.current)]
        /\ size' = size - request.pops + 1
        /\ phase' = "run"
    BY <1>4 DEF Allocate
  <2>2. /\ n \in Nat /\ request.first \in Nat \ {0} /\ request.first + n <= StackWords + 1
        /\ request.pops \in Nat /\ Frame.base + Locals <= size - request.pops
        /\ size - request.pops < StackWords /\ request.kind \in ObjectKinds
    BY <1>1 DEF RequestOK
  <2>3. F \in Seq(Words) /\ Len(F) = n
    <3>1. ASSUME NEW i \in 1..n PROVE stack[request.first + i - 1] \in Words
      <4> HIDE DEF n
      <4>1. request.first + i - 1 \in 0..StackWords BY <1>2, <2>2
      <4> QED BY <4>1, StackWord
    <3>2. F \in [1..n -> Words] BY <3>1
    <3> HIDE DEF n, F
    <3> QED BY <3>2, <2>2
  <2> HIDE DEF F
  <2>4. /\ IsObject(new) /\ SizeOf(new) = WordsOf(request.kind, n)
    <3>1. new.kind = request.kind /\ new.fields = F OBVIOUS
    <3> QED BY <2>2, <2>3, <3>1 DEF IsObject, SizeOf
  <2>5. SizeOf(new) \in Nat /\ SizeOf(new) >= 2 BY <2>4, SizeType
  <2> HIDE DEF new
  <2>6. c \in Nat /\ heap.size \in Nat /\ c + SizeOf(new) <= heap.size /\ D \subseteq 0..c - 1
    BY <1>1, <1>4, <2>4 DEF HeapOK, Fits
  <2>7. /\ heap' = [base |-> heap.base, size |-> heap.size, current |-> c + SizeOf(new), objs |-> X]
    BY <1>1, <2>1 DEF HeapOK
  <2>8. /\ heap'.base = heap.base /\ heap'.size = heap.size /\ heap'.current = c + SizeOf(new)
        /\ heap'.objs = X
    BY <2>7
  <2>9. ASSUME NEW o \in D \union {c}
        PROVE  IsObject(X[o]) /\ (o \in D => X[o] = heap.objs[o])
    BY <2>4, <2>6, <1>1 DEF HeapOK
  <2>10. DOMAIN X = D \union {c} /\ X[c] = new OBVIOUS
  <2> HIDE DEF X
  <2>11. HeapOK'
    <3>1. D \union {c} \subseteq 0..heap'.current - 1 BY <2>5, <2>6, <2>8
    <3>2. X = [o \in DOMAIN X |-> X[o]] BY DEF X
    <3>3. heap'.current \in 0..heap'.size BY <2>5, <2>6, <2>8
    <3> QED BY <1>1, <2>6, <2>7, <2>8, <2>9, <2>10, <3>1, <3>2, <3>3 DEF HeapOK
  <2>12. Tiled(heap'.objs, DOMAIN heap'.objs, 0, heap'.current)
    <3>1. \A o \in D : SizeOf(X[o]) = SizeOf(heap.objs[o])
      BY <2>9
    <3>2. \A o \in D \union {c} : SizeOf(X[o]) \in Nat /\ SizeOf(X[o]) > 0
      BY <2>9, SizeType
    <3>3. Tiled(X, D \union {c}, 0, EndOf(X, c))
      BY <1>1, <2>6, <3>1, <3>2, TiledAppend
    <3> QED BY <2>8, <2>10, <3>3 DEF EndOf
  <2>13. size' \in 2..StackWords /\ Frame.base + Locals <= size'
    <3>1. size \in Nat /\ Frame.base + Locals \in Nat /\ Frame.base + Locals >= 2
      BY <1>1, FrameType
    <3> QED BY <1>2, <2>1, <2>2, <3>1
  <2>14. stack' \in [0..StackWords -> Words]
    <3>1. ContentOf(heap.base, heap.current) \in Words
      BY <1>1 DEF ContentOf, HeapOK, Header, Words
    <3> QED BY <1>1, <2>1, <3>1
  <2>15. FramesOK' BY <1>1, <2>13, FramesKept
  <2> QED BY <1>1, <1>2, <2>1, <2>11, <2>12, <2>13, <2>14, <2>15 DEF GCTypes
<1> QED BY <1>3, <1>4

-----------------------------------------------------------------------------
(* Marking *)

(* Two states of an object.                                                *)
SameNode(x, y) == x.id = y.id /\ x.kind = y.kind

(* An object with another forward address and other bits.                  *)
WithBits(obj, f, m, e) ==
  [kind |-> obj.kind, id |-> obj.id, fields |-> obj.fields, fwd |-> f, mark |-> m, enq |-> e]

Forwards == {None} \union (Bases \X Nat)

LEMMA BitsType ==
  ASSUME NEW obj, IsObject(obj), NEW f \in Forwards, NEW m \in BOOLEAN,
         NEW e \in BOOLEAN
  PROVE  /\ IsObject(WithBits(obj, f, m, e))
         /\ SizeOf(WithBits(obj, f, m, e)) = SizeOf(obj)
         /\ WithBits(obj, f, m, e).fields = obj.fields /\ WithBits(obj, f, m, e).fwd = f
         /\ WithBits(obj, f, m, e).mark = m /\ WithBits(obj, f, m, e).enq = e
         /\ SameNode(WithBits(obj, f, m, e), obj)
<1> DEFINE new == WithBits(obj, f, m, e)
<1>1. /\ new.kind = obj.kind /\ new.id = obj.id /\ new.fields = obj.fields /\ new.fwd = f
      /\ new.mark = m /\ new.enq = e
  BY DEF WithBits
<1>2. new = [kind |-> new.kind, id |-> new.id, fields |-> new.fields,
             fwd |-> new.fwd, mark |-> new.mark, enq |-> new.enq]
  BY DEF WithBits
<1> HIDE DEF new
<1>3. IsObject(new) BY <1>1, <1>2 DEF IsObject, Forwards
<1> QED BY <1>1, <1>3 DEF new, SizeOf, SameNode

LEMMA ExceptBits ==
  ASSUME NEW obj, IsObject(obj), NEW f, NEW m, NEW e
  PROVE  /\ [obj EXCEPT !.fwd = f, !.enq = e] = WithBits(obj, f, obj.mark, e)
         /\ [obj EXCEPT !.enq = e, !.mark = m] = WithBits(obj, obj.fwd, m, e)
         /\ [obj EXCEPT !.fwd = f] = WithBits(obj, f, obj.mark, obj.enq)
         /\ [obj EXCEPT !.mark = m] = WithBits(obj, obj.fwd, m, obj.enq)
<1> DEFINE k == obj.kind
           x == obj.id
           l == obj.fields
           g == obj.fwd
           n == obj.mark
           d == obj.enq
           r == [kind |-> k, id |-> x, fields |-> l, fwd |-> g, mark |-> n, enq |-> d]
<1>1. obj = r BY DEF IsObject
<1>2. /\ [r EXCEPT !.fwd = f, !.enq = e]
           = [kind |-> k, id |-> x, fields |-> l, fwd |-> f, mark |-> n, enq |-> e]
      /\ [r EXCEPT !.enq = e, !.mark = m]
           = [kind |-> k, id |-> x, fields |-> l, fwd |-> g, mark |-> m, enq |-> e]
      /\ [r EXCEPT !.fwd = f]
           = [kind |-> k, id |-> x, fields |-> l, fwd |-> f, mark |-> n, enq |-> d]
      /\ [r EXCEPT !.mark = m]
           = [kind |-> k, id |-> x, fields |-> l, fwd |-> g, mark |-> m, enq |-> d]
  <2> HIDE DEF k, x, l, g, n, d
  <2> DEFINE rf == [kind |-> k, id |-> x, fields |-> l, fwd |-> f, mark |-> n, enq |-> d]
             re == [kind |-> k, id |-> x, fields |-> l, fwd |-> g, mark |-> n, enq |-> e]
  <2>a. [r EXCEPT !.fwd = f] = rf /\ [r EXCEPT !.enq = e] = re
    OBVIOUS
  <2>b. /\ [rf EXCEPT !.enq = e] = [kind |-> k, id |-> x, fields |-> l, fwd |-> f, mark |-> n, enq |-> e]
        /\ [re EXCEPT !.mark = m] = [kind |-> k, id |-> x, fields |-> l, fwd |-> g, mark |-> m, enq |-> e]
    OBVIOUS
  <2>c. /\ [r EXCEPT !.fwd = f, !.enq = e] = [[r EXCEPT !.fwd = f] EXCEPT !.enq = e]
        /\ [r EXCEPT !.enq = e, !.mark = m] = [[r EXCEPT !.enq = e] EXCEPT !.mark = m]
    <3> HIDE DEF r
    <3> QED OBVIOUS
  <2>1. [r EXCEPT !.fwd = f, !.enq = e]
           = [kind |-> k, id |-> x, fields |-> l, fwd |-> f, mark |-> n, enq |-> e]
    <3> HIDE DEF r, rf
    <3> QED BY <2>a, <2>b, <2>c
  <2>2. [r EXCEPT !.enq = e, !.mark = m]
           = [kind |-> k, id |-> x, fields |-> l, fwd |-> g, mark |-> m, enq |-> e]
    <3> HIDE DEF r, re
    <3> QED BY <2>a, <2>b, <2>c
  <2>3. [r EXCEPT !.fwd = f]
           = [kind |-> k, id |-> x, fields |-> l, fwd |-> f, mark |-> n, enq |-> d]
    OBVIOUS
  <2>4. [r EXCEPT !.mark = m]
           = [kind |-> k, id |-> x, fields |-> l, fwd |-> g, mark |-> m, enq |-> d]
    OBVIOUS
  <2> QED BY <2>1, <2>2, <2>3, <2>4
<1>3. /\ [obj EXCEPT !.fwd = f, !.enq = e] = [r EXCEPT !.fwd = f, !.enq = e]
      /\ [obj EXCEPT !.enq = e, !.mark = m] = [r EXCEPT !.enq = e, !.mark = m]
      /\ [obj EXCEPT !.fwd = f] = [r EXCEPT !.fwd = f]
      /\ [obj EXCEPT !.mark = m] = [r EXCEPT !.mark = m]
  <2> HIDE DEF r
  <2> QED BY <1>1
<1> QED BY <1>2, <1>3 DEF WithBits

LEMMA MarkBits ==
  ASSUME NEW obj, IsObject(obj), NEW m, NEW e
  PROVE  [[obj EXCEPT !.enq = e] EXCEPT !.mark = m] = WithBits(obj, obj.fwd, m, e)
<1> DEFINE k == obj.kind
           x == obj.id
           l == obj.fields
           g == obj.fwd
           n == obj.mark
           d == obj.enq
           r == [kind |-> k, id |-> x, fields |-> l, fwd |-> g, mark |-> n, enq |-> d]
           s == [kind |-> k, id |-> x, fields |-> l, fwd |-> g, mark |-> n, enq |-> e]
<1>1. obj = r BY DEF IsObject
<1>2. [r EXCEPT !.enq = e] = s
  <2> HIDE DEF k, x, l, g, n, d
  <2> QED OBVIOUS
<1>3. [s EXCEPT !.mark = m] = WithBits(obj, obj.fwd, m, e)
  <2>1. WithBits(obj, obj.fwd, m, e)
          = [kind |-> k, id |-> x, fields |-> l, fwd |-> g, mark |-> m, enq |-> e]
    BY DEF WithBits
  <2> HIDE DEF k, x, l, g, n, d
  <2> QED BY <2>1
<1> HIDE DEF r, s
<1> QED BY <1>1, <1>2, <1>3

(* The objects after queue_enqueue of w at tail.                           *)
Queued(t, w) ==
  [o \in DOMAIN heap.objs |->
     WithBits(heap.objs[o], IF o = t THEN w ELSE heap.objs[o].fwd, heap.objs[o].mark,
              heap.objs[o].enq \/ o = HeaderOf(w))]

LEMMA EnqueueIs ==
  ASSUME GCTypes, NEW t, NEW w
  PROVE  /\ Enqueue([objs |-> heap.objs, tail |-> t], w).objs = Queued(t, w)
         /\ Enqueue([objs |-> heap.objs, tail |-> t], w).tail
              = t + IF t \in DOMAIN heap.objs THEN SizeOf(heap.objs[t]) ELSE Header
<1> DEFINE q == [objs |-> heap.objs, tail |-> t]
           X == [o \in DOMAIN q.objs |->
                  [q.objs[o] EXCEPT !.fwd = IF o = q.tail THEN w ELSE @,
                                    !.enq = @ \/ o = HeaderOf(w)]]
           y == q.tail + IF q.tail \in DOMAIN q.objs THEN SizeOf(q.objs[q.tail]) ELSE Header
<1>1. q.objs = heap.objs /\ q.tail = t OBVIOUS
<1>2. Enqueue(q, w) = [objs |-> X, tail |-> y] BY DEF Enqueue
<1>3. X = Queued(t, w)
  <2> DEFINE G(o) == [heap.objs[o] EXCEPT !.fwd = IF o = t THEN w ELSE @, !.enq = @ \/ o = HeaderOf(w)]
  <2>1. ASSUME NEW o \in DOMAIN heap.objs
        PROVE  G(o) = WithBits(heap.objs[o], IF o = t THEN w ELSE heap.objs[o].fwd, heap.objs[o].mark,
                               heap.objs[o].enq \/ o = HeaderOf(w))
    <3> DEFINE obj == heap.objs[o]
               f == IF o = t THEN w ELSE obj.fwd
               e == obj.enq \/ o = HeaderOf(w)
               one == WithBits(obj, f, obj.mark, obj.enq)
    <3>1. IsObject(obj) BY ObjectIs
    <3>3. [obj EXCEPT !.fwd = f] = one
      <4> HIDE DEF obj, f
      <4> QED BY <3>1, ExceptBits
    <3>5. G(o) = [[obj EXCEPT !.fwd = f] EXCEPT !.enq = [obj EXCEPT !.fwd = f].enq \/ o = HeaderOf(w)]
      OBVIOUS
    <3>6. one.enq = obj.enq
      BY DEF WithBits
    <3>2. G(o) = [[obj EXCEPT !.fwd = f] EXCEPT !.enq = e]
      <4> HIDE DEF G, one
      <4> QED BY <3>3, <3>5, <3>6
    <3>4. [one EXCEPT !.enq = e] = WithBits(obj, f, obj.mark, e)
      <4> HIDE DEF obj, f, e
      <4> QED BY DEF WithBits
    <3> HIDE DEF G, one
    <3> QED BY <3>2, <3>3, <3>4
  <2> HIDE DEF q
  <2>2. X = [o \in DOMAIN heap.objs |-> G(o)]
    BY <1>1
  <2> HIDE DEF G, X
  <2> QED BY <2>1, <2>2 DEF Queued
<1>4. y = t + IF t \in DOMAIN heap.objs THEN SizeOf(heap.objs[t]) ELSE Header
  <2> HIDE DEF q
  <2> QED BY <1>1
<1> HIDE DEF X, y
<1> QED BY <1>2, <1>3, <1>4

(* A step that makes X of the objects of the heap and changes nothing else *)
(* that the roots, or what can be reached from them, depend on.            *)
OnlyBits(X) ==
  /\ heap'.objs = X /\ DOMAIN heap'.objs = DOMAIN heap.objs
  /\ heap'.base = heap.base /\ heap'.current = heap.current
  /\ stack' = stack /\ size' = size /\ request' = request

(* A step of mark_phase, which changes nothing but bits and forward        *)
(* addresses.                                                              *)
LEMMA MarkStep ==
  ASSUME GCTypes, phase \in {"alloc", "mark"}, UNCHANGED <<interpreter, request>>,
         phase' \in {"mark", "killed"},
         NEW X, X = [o \in DOMAIN heap.objs |-> X[o]], heap' = [heap EXCEPT !.objs = X],
         \A o \in DOMAIN heap.objs : IsObject(X[o]) /\ SizeOf(X[o]) = SizeOf(heap.objs[o]),
         phase' = "mark" => /\ gc' = [roots |-> gc'.roots, head |-> gc'.head,
                                      tail |-> gc'.tail, fields |-> gc'.fields]
                            /\ gc'.roots \in Seq(Words) /\ gc'.fields \in Seq(Words)
  PROVE  GCTypes' /\ OnlyBits(X)
<1>1. /\ HeapOK' /\ heap'.objs = X /\ DOMAIN heap'.objs = DOMAIN heap.objs
      /\ heap'.current = heap.current /\ heap'.base = heap.base
  BY ContentsStep DEF GCTypes
<1>2. Tiled(heap'.objs, DOMAIN heap'.objs, 0, heap'.current)
  BY <1>1, SizesKept DEF GCTypes
<1>3. program' = program /\ stack' = stack /\ size' = size /\ frames' = frames /\ request' = request
  BY DEF interpreter
<1>4. FramesOK' BY <1>3 DEF GCTypes, FramesOK, Frame
<1>5. RequestOK' BY <1>3 DEF GCTypes, RequestOK, Frame, StackWords
<1>6. StackWords' = StackWords BY <1>3 DEF StackWords
<1>7. OnlyBits(X) BY <1>1, <1>3 DEF OnlyBits
<1> QED BY <1>1, <1>2, <1>3, <1>4, <1>5, <1>6, <1>7 DEF GCTypes

LEMMA HeapKept ==
  ASSUME GCTypes
  PROVE  /\ heap.objs = [o \in DOMAIN heap.objs |-> heap.objs[o]]
         /\ heap = [heap EXCEPT !.objs = heap.objs]
         /\ \A o \in DOMAIN heap.objs : IsObject(heap.objs[o])
BY DEF GCTypes, HeapOK

ElementsOf(s) == {s[i] : i \in DOMAIN s}

(* A concatenation has the elements of both sequences.                     *)
LEMMA ConcatElements ==
  ASSUME NEW S, NEW s \in Seq(S), NEW t \in Seq(S)
  PROVE  s \o t \in Seq(S) /\ ElementsOf(s \o t) = ElementsOf(s) \union ElementsOf(t)
<1> DEFINE r == s \o t
           m == Len(s)
           n == Len(t)
<1>1. /\ r \in Seq(S) /\ m \in Nat /\ n \in Nat /\ DOMAIN s = 1..m /\ DOMAIN t = 1..n
      /\ DOMAIN r = 1..m + n
      /\ \A i \in 1..m + n : r[i] = IF i <= m THEN s[i] ELSE t[i - m]
  <2>1. Len(r) = m + n /\ r \in Seq(S) /\ m \in Nat /\ n \in Nat
        /\ \A i \in 1..m + n : r[i] = IF i <= m THEN s[i] ELSE t[i - m]
    BY ConcatProperties, LenProperties
  <2>2. DOMAIN r = 1..Len(r) /\ DOMAIN s = 1..m /\ DOMAIN t = 1..n
    BY <2>1, LenProperties
  <2> QED BY <2>1, <2>2
<1> HIDE DEF r, m, n
<1>2. ASSUME NEW i \in 1..m + n
      PROVE  (\E j \in 1..m : r[i] = s[j]) \/ (\E j \in 1..n : r[i] = t[j])
  <2>1. CASE i <= m
    <3>1. i \in 1..m BY <2>1, <1>1
    <3> QED BY <3>1, <2>1, <1>1
  <2>2. CASE ~(i <= m)
    <3>1. i - m \in 1..n BY <2>2, <1>1
    <3> QED BY <3>1, <2>2, <1>1
  <2> QED BY <2>1, <2>2
<1>3. ASSUME NEW j \in 1..m PROVE \E i \in 1..m + n : r[i] = s[j]
  <2>1. j \in 1..m + n /\ j <= m BY <1>1
  <2> QED BY <2>1, <1>1
<1>4. ASSUME NEW j \in 1..n PROVE \E i \in 1..m + n : r[i] = t[j]
  <2>1. m + j \in 1..m + n /\ ~(m + j <= m) /\ m + j - m = j BY <1>1
  <2> QED BY <2>1, <1>1
<1>5. ASSUME NEW x \in ElementsOf(r) PROVE x \in ElementsOf(s) \/ x \in ElementsOf(t)
  <2>1. PICK i \in 1..m + n : x = r[i] BY <1>1 DEF ElementsOf
  <2>2. CASE \E j \in 1..m : r[i] = s[j]
    BY <2>1, <2>2, <1>1 DEF ElementsOf
  <2>3. CASE \E j \in 1..n : r[i] = t[j]
    BY <2>1, <2>3, <1>1 DEF ElementsOf
  <2> QED BY <2>2, <2>3, <1>2
<1>6. ASSUME NEW x \in ElementsOf(s) PROVE x \in ElementsOf(r)
  <2>1. PICK j \in 1..m : x = s[j] BY <1>1 DEF ElementsOf
  <2>2. PICK i \in 1..m + n : r[i] = s[j] BY <1>3
  <2> QED BY <2>1, <2>2, <1>1 DEF ElementsOf
<1>7. ASSUME NEW x \in ElementsOf(t) PROVE x \in ElementsOf(r)
  <2>1. PICK j \in 1..n : x = t[j] BY <1>1 DEF ElementsOf
  <2>2. PICK i \in 1..m + n : r[i] = t[j] BY <1>4
  <2> QED BY <2>1, <2>2, <1>1 DEF ElementsOf
<1>8. r \in Seq(S) /\ ElementsOf(r) = ElementsOf(s) \union ElementsOf(t)
  BY <1>1, <1>5, <1>6, <1>7
<1> QED BY <1>8 DEF r

(* The words that mark_phase starts from.                                  *)
LEMMA RootsType ==
  ASSUME GCTypes, RequestOK
  PROVE  /\ Roots \in Seq(Words)
         /\ ElementsOf(Roots) = RootWords
<1> DEFINE m == size - 1
           n == request.n
           A == [i \in 1..m |-> stack[i]]
           B == [i \in 1..n |-> stack[request.first + i - 1]]
           C == IF request.escaped = None THEN <<>> ELSE <<request.escaped>>
<1>1. /\ m \in Nat /\ n \in Nat /\ StackWords \in Nat /\ m < StackWords
      /\ request.first \in Nat \ {0} /\ request.first + n <= StackWords + 1
  <2>1. size - 1 \in Nat /\ StackWords \in Nat /\ size - 1 < StackWords BY DepthType
  <2> QED BY <2>1 DEF RequestOK
<1>2. A \in Seq(Words) /\ Len(A) = m /\ \A i \in 1..m : A[i] = stack[i]
  <2>1. \A i \in 1..m : stack[i] \in Words
    <3> HIDE DEF m
    <3> QED BY <1>1, StackWord
  <2>2. A \in [1..m -> Words] BY <2>1
  <2>3. \A i \in 1..m : A[i] = stack[i] OBVIOUS
  <2> HIDE DEF m, A
  <2> QED BY <1>1, <2>2, <2>3
<1>3. B \in Seq(Words) /\ Len(B) = n /\ \A i \in 1..n : B[i] = stack[request.first + i - 1]
  <2>1. ASSUME NEW i \in 1..n PROVE stack[request.first + i - 1] \in Words
    <3> HIDE DEF n
    <3>1. request.first + i - 1 \in 0..StackWords BY <1>1
    <3> QED BY <3>1, StackWord
  <2>2. B \in [1..n -> Words] BY <2>1
  <2>3. \A i \in 1..n : B[i] = stack[request.first + i - 1] OBVIOUS
  <2> HIDE DEF n, B
  <2> QED BY <1>1, <2>2, <2>3
<1>4. /\ C \in Seq(Words) /\ Len(C) \in Nat /\ Len(C) <= 1
      /\ \A i \in 1..Len(C) : C[i] \in {request.escaped} \ {None}
      /\ \A w \in {request.escaped} \ {None} : C[1] = w /\ Len(C) = 1
  <2>1. CASE request.escaped = None BY <2>1
  <2>2. CASE request.escaped # None
    <3>1. request.escaped \in Words BY <2>2 DEF RequestOK
    <3>2. C = <<request.escaped>> BY <2>2
    <3> QED BY <2>2, <3>1, <3>2
  <2> QED BY <2>1, <2>2
<1>5. Roots = A \o (B \o C) BY DEF Roots, Registered
<1>6. RootWords = {stack[i] : i \in 1..m} \union {stack[request.first + i - 1] : i \in 1..n}
                    \union ({request.escaped} \ {None})
  BY DEF RootWords
<1> HIDE DEF A, B, C, m, n
<1>7. ElementsOf(A) = {stack[i] : i \in 1..m}
  <2>1. DOMAIN A = 1..m BY <1>2, LenProperties
  <2> QED BY <1>2, <2>1 DEF ElementsOf
<1>8. ElementsOf(B) = {stack[request.first + i - 1] : i \in 1..n}
  <2>1. DOMAIN B = 1..n BY <1>3, LenProperties
  <2> QED BY <1>3, <2>1 DEF ElementsOf
<1>9. ElementsOf(C) = {request.escaped} \ {None}
  <2>1. DOMAIN C = 1..Len(C) BY <1>4, LenProperties
  <2>2. \A x \in ElementsOf(C) : x \in {request.escaped} \ {None}
    BY <2>1, <1>4 DEF ElementsOf
  <2>3. \A x \in {request.escaped} \ {None} : x \in ElementsOf(C)
    BY <2>1, <1>4 DEF ElementsOf
  <2> QED BY <2>2, <2>3
<1> DEFINE D == B \o C
<1>10. D \in Seq(Words) /\ ElementsOf(D) = ElementsOf(B) \union ElementsOf(C)
  BY <1>3, <1>4, ConcatElements
<1>11. Roots = A \o D BY <1>5
<1> HIDE DEF D
<1>12. Roots \in Seq(Words) /\ ElementsOf(Roots) = ElementsOf(A) \union ElementsOf(D)
  BY <1>2, <1>10, <1>11, ConcatElements
<1> QED BY <1>6, <1>7, <1>8, <1>9, <1>10, <1>12

LEMMA StartMarkTypes ==
  ASSUME GCTypes, StartMark
  PROVE  GCTypes'
<1>1. /\ phase = "alloc" /\ phase' = "mark" /\ UNCHANGED <<interpreter, request, heap>>
      /\ gc' = [roots |-> Roots, head |-> 0, tail |-> 0, fields |-> <<>>]
  BY DEF StartMark
<1>2. Roots \in Seq(Words) BY <1>1, RootsType DEF GCTypes
<1> DEFINE X == heap.objs
<1>3. /\ X = [o \in DOMAIN heap.objs |-> X[o]] /\ heap' = [heap EXCEPT !.objs = X]
      /\ \A o \in DOMAIN heap.objs : IsObject(X[o]) /\ SizeOf(X[o]) = SizeOf(heap.objs[o])
  BY <1>1, HeapKept
<1>4. <<>> \in Seq(Words) BY EmptySeq
<1> DEFINE R == Roots
<1> HIDE DEF R
<1>5. /\ gc' = [roots |-> gc'.roots, head |-> gc'.head, tail |-> gc'.tail, fields |-> gc'.fields]
      /\ gc'.roots = R /\ gc'.fields = <<>>
  BY <1>1 DEF R
<1> HIDE DEF X
<1> QED BY <1>1, <1>2, <1>3, <1>4, <1>5, MarkStep DEF R

(* What mark and the loop over the fields enqueue are addresses.           *)
LEMMA ToMarkWord ==
  ASSUME GCTypes, NEW w \in Words, ToMark(w)
  PROVE  w \in Bases \X Nat /\ w # Plain /\ w # None /\ w[1] = heap.base /\ w[2] <= heap.current
BY WordType, GCAssumption DEF ToMark, InHeap

LEMMA QueuedTypes ==
  ASSUME GCTypes, NEW t, NEW w \in Bases \X Nat
  PROVE  /\ Queued(t, w) = [o \in DOMAIN heap.objs |-> Queued(t, w)[o]]
         /\ DOMAIN Queued(t, w) = DOMAIN heap.objs
         /\ \A o \in DOMAIN heap.objs :
              /\ IsObject(Queued(t, w)[o]) /\ SizeOf(Queued(t, w)[o]) = SizeOf(heap.objs[o])
              /\ Queued(t, w)[o].fields = heap.objs[o].fields
              /\ Queued(t, w)[o].fwd = IF o = t THEN w ELSE heap.objs[o].fwd
              /\ Queued(t, w)[o].mark = heap.objs[o].mark
              /\ Queued(t, w)[o].enq = (heap.objs[o].enq \/ o = HeaderOf(w))
              /\ SameNode(Queued(t, w)[o], heap.objs[o])
<1>1. /\ Queued(t, w) = [o \in DOMAIN heap.objs |-> Queued(t, w)[o]]
      /\ DOMAIN Queued(t, w) = DOMAIN heap.objs
  BY DEF Queued
<1>2. ASSUME NEW o \in DOMAIN heap.objs
      PROVE  /\ IsObject(Queued(t, w)[o]) /\ SizeOf(Queued(t, w)[o]) = SizeOf(heap.objs[o])
             /\ Queued(t, w)[o].fields = heap.objs[o].fields
             /\ Queued(t, w)[o].fwd = IF o = t THEN w ELSE heap.objs[o].fwd
             /\ Queued(t, w)[o].mark = heap.objs[o].mark
             /\ Queued(t, w)[o].enq = (heap.objs[o].enq \/ o = HeaderOf(w))
             /\ SameNode(Queued(t, w)[o], heap.objs[o])
  <2> DEFINE obj == heap.objs[o]
             f == IF o = t THEN w ELSE heap.objs[o].fwd
             m == heap.objs[o].mark
             e == (heap.objs[o].enq \/ o = HeaderOf(w))
  <2>1. IsObject(obj) BY ObjectIs
  <2>2. f \in Forwards /\ m \in BOOLEAN /\ e \in BOOLEAN
    BY <2>1 DEF IsObject, Forwards
  <2>3. Queued(t, w)[o] = WithBits(obj, f, m, e) BY DEF Queued
  <2> HIDE DEF obj, f, m, e
  <2>4. /\ IsObject(WithBits(obj, f, m, e)) /\ SizeOf(WithBits(obj, f, m, e)) = SizeOf(obj)
        /\ WithBits(obj, f, m, e).fields = obj.fields /\ WithBits(obj, f, m, e).fwd = f
        /\ WithBits(obj, f, m, e).mark = m /\ WithBits(obj, f, m, e).enq = e
        /\ SameNode(WithBits(obj, f, m, e), obj)
    BY <2>1, <2>2, BitsType
  <2> QED BY <2>3, <2>4 DEF obj, f, m, e
<1> QED BY <1>1, <1>2

LEMMA MarkRootTypes ==
  ASSUME GCTypes, MarkRoot
  PROVE  /\ GCTypes'
         /\ phase = "mark" /\ phase' = "mark"
         /\ \E i \in DOMAIN gc.roots :
              /\ ToMark(gc.roots[i]) /\ \A j \in 1..i - 1 : ~ToMark(gc.roots[j])
              /\ OnlyBits(Queued(0, gc.roots[i]))
              /\ gc'.roots = SubSeq(gc.roots, i + 1, Len(gc.roots)) /\ gc'.fields = <<>>
              /\ gc'.head = 0
              /\ gc'.tail = 0 + IF 0 \in DOMAIN heap.objs THEN SizeOf(heap.objs[0]) ELSE Header
<1>1. /\ phase = "mark" /\ phase' = "mark" /\ UNCHANGED <<interpreter, request>>
      /\ gc.roots \in Seq(Words)
  BY DEF MarkRoot, MarkDone, GCTypes
<1>2. PICK i \in DOMAIN gc.roots :
        /\ ToMark(gc.roots[i])
        /\ \A j \in 1..i - 1 : ~ToMark(gc.roots[j])
        /\ LET q == Enqueue([objs |-> heap.objs, tail |-> 0], gc.roots[i])
           IN  /\ heap' = [heap EXCEPT !.objs = q.objs]
               /\ gc' = [roots |-> SubSeq(gc.roots, i + 1, Len(gc.roots)),
                         head |-> 0, tail |-> q.tail, fields |-> <<>>]
  BY DEF MarkRoot
<1> DEFINE w == gc.roots[i]
           n == Len(gc.roots)
           X == Queued(0, w)
           r == SubSeq(gc.roots, i + 1, n)
           t == Enqueue([objs |-> heap.objs, tail |-> 0], w).tail
<1>3. i \in 1..n /\ n \in Nat /\ w \in Words
  BY <1>1, LenProperties, ElementOfSeq
<1>4. w \in Bases \X Nat BY <1>2, <1>3, ToMarkWord
<1>5. r \in Seq(Words)
  <2>1. CASE i = n
    <3>1. i + 1 > n BY <2>1, <1>3
    <3>2. r = <<>> BY <3>1, <1>1, <1>3, SubSeqProperties
    <3> QED BY <3>2, EmptySeq
  <2>2. CASE i # n
    <3> HIDE DEF n
    <3>1. i + 1 \in 1..n + 1 /\ n \in i + 1 - 1..n BY <2>2, <1>3
    <3>2. \A k \in i + 1..n : gc.roots[k] \in Words
      <4>1. \A k \in i + 1..n : k \in 1..n BY <1>3
      <4> QED BY <4>1, <1>1, ElementOfSeq DEF n
    <3> QED BY <3>1, <3>2, <1>1, <1>3, SubSeqProperties DEF n
  <2> QED BY <2>1, <2>2
<1>6. heap' = [heap EXCEPT !.objs = X] /\ gc' = [roots |-> r, head |-> 0, tail |-> t, fields |-> <<>>]
  BY <1>2, EnqueueIs
<1>7. /\ X = [o \in DOMAIN heap.objs |-> X[o]]
      /\ \A o \in DOMAIN heap.objs : IsObject(X[o]) /\ SizeOf(X[o]) = SizeOf(heap.objs[o])
  BY <1>4, QueuedTypes
<1> HIDE DEF r, t, X, w, n
<1>8. /\ gc' = [roots |-> gc'.roots, head |-> gc'.head, tail |-> gc'.tail, fields |-> gc'.fields]
      /\ gc'.roots = r /\ gc'.fields = <<>> /\ gc'.head = 0 /\ gc'.tail = t
  BY <1>6
<1>9. <<>> \in Seq(Words) BY EmptySeq
<1>10. gc'.roots \in Seq(Words) /\ gc'.fields \in Seq(Words) BY <1>5, <1>8, <1>9
<1>11. heap' = [heap EXCEPT !.objs = X] BY <1>6
<1>12. GCTypes' /\ OnlyBits(X) BY <1>1, <1>7, <1>8, <1>10, <1>11, MarkStep
<1>13. t = 0 + IF 0 \in DOMAIN heap.objs THEN SizeOf(heap.objs[0]) ELSE Header
  BY EnqueueIs DEF t
<1> QED BY <1>1, <1>2, <1>8, <1>12, <1>13 DEF X, r, w, n

(* The objects after the one at offset has been dequeued and marked.       *)
Blackened(offset) ==
  [o \in DOMAIN heap.objs |->
     IF o = offset THEN WithBits(heap.objs[o], heap.objs[o].fwd, TRUE, FALSE) ELSE heap.objs[o]]

LEMMA BlackenedTypes ==
  ASSUME GCTypes, NEW offset \in DOMAIN heap.objs
  PROVE  /\ Blackened(offset) = [o \in DOMAIN heap.objs |-> Blackened(offset)[o]]
         /\ [heap EXCEPT !.objs[offset].enq = FALSE, !.objs[offset].mark = TRUE]
              = [heap EXCEPT !.objs = Blackened(offset)]
         /\ \A o \in DOMAIN heap.objs :
              /\ IsObject(Blackened(offset)[o]) /\ SizeOf(Blackened(offset)[o]) = SizeOf(heap.objs[o])
              /\ Blackened(offset)[o].fields = heap.objs[o].fields
              /\ Blackened(offset)[o].fwd = heap.objs[o].fwd
              /\ Blackened(offset)[o].mark = IF o = offset THEN TRUE ELSE heap.objs[o].mark
              /\ Blackened(offset)[o].enq = IF o = offset THEN FALSE ELSE heap.objs[o].enq
              /\ SameNode(Blackened(offset)[o], heap.objs[o])
<1> DEFINE obj == heap.objs[offset]
           X == Blackened(offset)
<1>1. X = [o \in DOMAIN heap.objs |-> X[o]]
  BY DEF Blackened
<1>2. IsObject(obj) BY ObjectIs
<1>3. [heap EXCEPT !.objs[offset].enq = FALSE, !.objs[offset].mark = TRUE] = [heap EXCEPT !.objs = X]
  <2> DEFINE one == [heap.objs EXCEPT ![offset].enq = FALSE]
             two == [one EXCEPT ![offset].mark = TRUE]
             h == [heap EXCEPT !.objs[offset].enq = FALSE]
  <2>1. heap.objs = [o \in DOMAIN heap.objs |-> heap.objs[o]] /\ "objs" \in DOMAIN heap
    <3>1. heap = [base |-> heap.base, size |-> heap.size, current |-> heap.current, objs |-> heap.objs]
      BY DEF GCTypes, HeapOK
    <3>2. "objs" \in DOMAIN heap BY <3>1
    <3> QED BY <3>2, HeapKept
  <2>2. one = [o \in DOMAIN heap.objs |-> IF o = offset THEN [obj EXCEPT !.enq = FALSE] ELSE heap.objs[o]]
    BY <2>1
  <2>3. one[offset] = [obj EXCEPT !.enq = FALSE] /\ DOMAIN one = DOMAIN heap.objs
        /\ \A o \in DOMAIN heap.objs : o # offset => one[o] = heap.objs[o]
    <3> HIDE DEF one
    <3> QED BY <2>2
  <2>4. two = [o \in DOMAIN heap.objs |->
                 IF o = offset THEN [one[offset] EXCEPT !.mark = TRUE] ELSE one[o]]
    <3> HIDE DEF one
    <3> QED BY <2>3
  <2>5. [[obj EXCEPT !.enq = FALSE] EXCEPT !.mark = TRUE] = WithBits(obj, obj.fwd, TRUE, FALSE)
    <3> DEFINE yes == TRUE
               no == FALSE
    <3> HIDE DEF obj, yes, no
    <3>1. [[obj EXCEPT !.enq = no] EXCEPT !.mark = yes] = WithBits(obj, obj.fwd, yes, no)
      BY <1>2, MarkBits
    <3> QED BY <3>1 DEF yes, no
  <2>6. two = X
    <3> HIDE DEF one
    <3>1. \A o \in DOMAIN heap.objs :
            (IF o = offset THEN [one[offset] EXCEPT !.mark = TRUE] ELSE one[o])
              = IF o = offset THEN WithBits(heap.objs[o], heap.objs[o].fwd, TRUE, FALSE) ELSE heap.objs[o]
      BY <2>3, <2>5
    <3> HIDE DEF two
    <3> QED BY <2>4, <3>1 DEF Blackened
  <2>7. h = [heap EXCEPT !.objs = one] BY <2>1
  <2>8. h.objs = one /\ "objs" \in DOMAIN h
    <3> HIDE DEF one, h
    <3> QED BY <2>1, <2>7
  <2>9. [h EXCEPT !.objs[offset].mark = TRUE] = [h EXCEPT !.objs = two]
    <3> HIDE DEF one, h
    <3> QED BY <2>8
  <2>10. [h EXCEPT !.objs = two] = [heap EXCEPT !.objs = two]
    <3> HIDE DEF one, h, two
    <3> QED BY <2>1, <2>7
  <2>11. [heap EXCEPT !.objs[offset].enq = FALSE, !.objs[offset].mark = TRUE]
           = [h EXCEPT !.objs[offset].mark = TRUE]
    OBVIOUS
  <2> HIDE DEF h, two, X
  <2> QED BY <2>6, <2>9, <2>10, <2>11
<1>4. ASSUME NEW o \in DOMAIN heap.objs
      PROVE  /\ IsObject(X[o]) /\ SizeOf(X[o]) = SizeOf(heap.objs[o])
             /\ X[o].fields = heap.objs[o].fields
             /\ X[o].fwd = heap.objs[o].fwd
             /\ X[o].mark = IF o = offset THEN TRUE ELSE heap.objs[o].mark
             /\ X[o].enq = IF o = offset THEN FALSE ELSE heap.objs[o].enq
             /\ SameNode(X[o], heap.objs[o])
  <2>1. CASE o # offset
    <3>1. X[o] = heap.objs[o] BY <2>1 DEF Blackened
    <3> QED BY <2>1, <3>1, ObjectIs DEF SameNode
  <2>2. CASE o = offset
    <3>1. X[o] = WithBits(obj, obj.fwd, TRUE, FALSE) BY <2>2 DEF Blackened
    <3> DEFINE yes == TRUE
               no == FALSE
               fwd == obj.fwd
               new == WithBits(obj, fwd, yes, no)
    <3>2. fwd \in Forwards /\ yes \in BOOLEAN /\ no \in BOOLEAN
      BY <1>2 DEF IsObject, Forwards
    <3> HIDE DEF X, obj, yes, no, fwd
    <3>3. /\ IsObject(new) /\ SizeOf(new) = SizeOf(obj) /\ new.fields = obj.fields
          /\ new.fwd = fwd /\ new.mark = yes /\ new.enq = no /\ SameNode(new, obj)
      BY <3>2, <1>2, BitsType
    <3>4. X[o] = new BY <3>1 DEF yes, no, fwd
    <3> HIDE DEF new
    <3>5. /\ IsObject(X[o]) /\ SizeOf(X[o]) = SizeOf(obj) /\ X[o].fields = obj.fields
          /\ X[o].fwd = fwd /\ X[o].mark = yes /\ X[o].enq = no /\ SameNode(X[o], obj)
      BY <3>3, <3>4
    <3> QED BY <2>2, <3>5 DEF obj, yes, no, fwd
  <2> QED BY <2>1, <2>2
<1> QED BY <1>1, <1>3, <1>4

LEMMA MarkObjectTypes ==
  ASSUME GCTypes, MarkObject
  PROVE  /\ GCTypes' /\ phase = "mark"
         /\ gc.head \in DOMAIN heap.objs /\ RefersToObject(heap.objs[gc.head].fwd) =>
              /\ phase' = "mark" /\ OnlyBits(Blackened(Target(gc.head)))
              /\ gc'.roots = gc.roots /\ gc'.fields = heap.objs[Target(gc.head)].fields
              /\ gc'.head = NextObj(gc.head) /\ gc'.tail = gc.tail
<1> DEFINE w == heap.objs[gc.head].fwd
           offset == HeaderOf(w)
<1>1. /\ phase = "mark" /\ UNCHANGED <<interpreter, request>> /\ gc.roots \in Seq(Words)
      /\ gc = [roots |-> gc.roots, head |-> gc.head, tail |-> gc.tail, fields |-> gc.fields]
  BY DEF MarkObject, GCTypes
<1>2. CASE gc.head \in DOMAIN heap.objs /\ RefersToObject(w)
  <2>1. /\ heap' = [heap EXCEPT !.objs[offset].enq = FALSE, !.objs[offset].mark = TRUE]
        /\ gc' = [gc EXCEPT !.head = NextObj(@), !.fields = heap.objs[offset].fields]
        /\ phase' = "mark"
    BY <1>1, <1>2 DEF MarkObject
  <2>2. offset \in DOMAIN heap.objs BY <1>2 DEF RefersToObject
  <2> DEFINE X == Blackened(offset)
             F == heap.objs[offset].fields
             h == NextObj(gc.head)
  <2>3. F \in Seq(Words) BY <2>2, ObjectIs DEF IsObject
  <2>4. gc' = [roots |-> gc.roots, head |-> h, tail |-> gc.tail, fields |-> F]
    <3> DEFINE a == gc.roots
               b == gc.head
               c == gc.tail
               d == gc.fields
               g == [gc EXCEPT !.head = h]
    <3>1. gc' = [g EXCEPT !.fields = F] BY <2>1
    <3> HIDE DEF F, h
    <3>2. g = [roots |-> a, head |-> h, tail |-> c, fields |-> d]
      <4>1. gc = [roots |-> a, head |-> b, tail |-> c, fields |-> d] BY <1>1
      <4> HIDE DEF a, b, c, d
      <4> QED BY <4>1
    <3> HIDE DEF g, a, b, c, d
    <3>3. gc' = [roots |-> a, head |-> h, tail |-> c, fields |-> F] BY <3>1, <3>2
    <3> QED BY <3>3 DEF a, c
  <2>5. heap' = [heap EXCEPT !.objs = X] BY <2>1, <2>2, BlackenedTypes
  <2>6. /\ X = [o \in DOMAIN heap.objs |-> X[o]]
        /\ \A o \in DOMAIN heap.objs : IsObject(X[o]) /\ SizeOf(X[o]) = SizeOf(heap.objs[o])
    BY <2>2, BlackenedTypes
  <2> HIDE DEF X, F, h
  <2>7. /\ gc' = [roots |-> gc'.roots, head |-> gc'.head, tail |-> gc'.tail, fields |-> gc'.fields]
        /\ gc'.roots = gc.roots /\ gc'.fields = F /\ gc'.head = h /\ gc'.tail = gc.tail
    BY <2>4
  <2>8. GCTypes' /\ OnlyBits(X) BY <1>1, <2>1, <2>3, <2>5, <2>6, <2>7, MarkStep
  <2> QED BY <1>1, <2>1, <2>7, <2>8 DEF X, F, h, Target
<1>3. CASE ~(gc.head \in DOMAIN heap.objs /\ RefersToObject(w))
  <2>1. phase' = "killed" /\ UNCHANGED <<heap, gc>>
    BY <1>3 DEF MarkObject
  <2> DEFINE X == heap.objs
  <2>2. /\ X = [o \in DOMAIN heap.objs |-> X[o]] /\ heap' = [heap EXCEPT !.objs = X]
        /\ \A o \in DOMAIN heap.objs : IsObject(X[o]) /\ SizeOf(X[o]) = SizeOf(heap.objs[o])
    BY <2>1, HeapKept
  <2> HIDE DEF X
  <2> QED BY <1>1, <1>3, <2>1, <2>2, MarkStep
<1> QED BY <1>2, <1>3

LEMMA VisitFieldTypes ==
  ASSUME GCTypes, VisitField
  PROVE  /\ GCTypes' /\ phase = "mark" /\ phase' = "mark"
         /\ gc.fields \in Seq(Words) /\ gc.fields # <<>>
         /\ gc'.roots = gc.roots /\ gc'.fields = Tail(gc.fields) /\ gc'.head = gc.head
         /\ IF ToVisit(Head(gc.fields))
            THEN /\ OnlyBits(Queued(gc.tail, Head(gc.fields)))
                 /\ gc'.tail = gc.tail + IF gc.tail \in DOMAIN heap.objs
                                        THEN SizeOf(heap.objs[gc.tail]) ELSE Header
            ELSE OnlyBits(heap.objs) /\ gc'.tail = gc.tail
<1> DEFINE f == Head(gc.fields)
<1>1. /\ phase = "mark" /\ phase' = "mark" /\ UNCHANGED <<interpreter, request>>
      /\ gc.roots \in Seq(Words) /\ gc.fields \in Seq(Words) /\ gc.fields # <<>>
      /\ gc = [roots |-> gc.roots, head |-> gc.head, tail |-> gc.tail, fields |-> gc.fields]
  BY DEF VisitField, GCTypes
<1>2. f \in Words /\ Tail(gc.fields) \in Seq(Words)
  BY <1>1, HeadTailProperties
<1> DEFINE q == IF ToVisit(f) THEN Enqueue([objs |-> heap.objs, tail |-> gc.tail], f)
                ELSE [objs |-> heap.objs, tail |-> gc.tail]
           X == q.objs
           t == q.tail
           r == Tail(gc.fields)
<1>3. heap' = [heap EXCEPT !.objs = X] /\ gc' = [gc EXCEPT !.tail = t, !.fields = Tail(@)]
  BY DEF VisitField
<1>4. gc' = [roots |-> gc.roots, head |-> gc.head, tail |-> t, fields |-> r]
  <2> DEFINE a == gc.roots
             b == gc.head
             c == gc.tail
             d == gc.fields
             g == [gc EXCEPT !.tail = t]
  <2>1. gc' = [g EXCEPT !.fields = Tail(g.fields)] BY <1>3
  <2> HIDE DEF t
  <2>2. g = [roots |-> a, head |-> b, tail |-> t, fields |-> d]
    <3>1. gc = [roots |-> a, head |-> b, tail |-> c, fields |-> d] BY <1>1
    <3> HIDE DEF a, b, c, d
    <3> QED BY <3>1
  <2>3. g.fields = d
    <3> HIDE DEF g, a, b, d
    <3> QED BY <2>2
  <2> HIDE DEF g, a, b, c
  <2>4. gc' = [roots |-> a, head |-> b, tail |-> t, fields |-> Tail(d)] BY <2>1, <2>2, <2>3
  <2> QED BY <2>4 DEF a, b
<1>5. /\ X = [o \in DOMAIN heap.objs |-> X[o]]
      /\ \A o \in DOMAIN heap.objs : IsObject(X[o]) /\ SizeOf(X[o]) = SizeOf(heap.objs[o])
  <2>1. CASE ToVisit(f)
    <3>1. f \in Bases \X Nat BY <2>1, <1>2, ToMarkWord DEF ToVisit
    <3>2. X = Queued(gc.tail, f)
      <4>1. X = Enqueue([objs |-> heap.objs, tail |-> gc.tail], f).objs BY <2>1
      <4> HIDE DEF X, f
      <4> QED BY <4>1, EnqueueIs
    <3> HIDE DEF X, f
    <3> QED BY <3>1, <3>2, QueuedTypes
  <2>2. CASE ~ToVisit(f)
    <3>1. X = heap.objs BY <2>2
    <3> HIDE DEF X
    <3> QED BY <3>1, HeapKept
  <2> QED BY <2>1, <2>2
<1>6. IF ToVisit(f)
      THEN /\ X = Queued(gc.tail, f)
           /\ t = gc.tail + IF gc.tail \in DOMAIN heap.objs THEN SizeOf(heap.objs[gc.tail]) ELSE Header
      ELSE X = heap.objs /\ t = gc.tail
  <2>1. CASE ToVisit(f)
    <3> DEFINE e == Enqueue([objs |-> heap.objs, tail |-> gc.tail], f)
    <3>1. X = e.objs /\ t = e.tail BY <2>1
    <3>2. e.objs = Queued(gc.tail, f)
          /\ e.tail = gc.tail + IF gc.tail \in DOMAIN heap.objs THEN SizeOf(heap.objs[gc.tail]) ELSE Header
      <4> HIDE DEF f
      <4> QED BY EnqueueIs
    <3> HIDE DEF X, t, e
    <3> QED BY <2>1, <3>1, <3>2
  <2>2. CASE ~ToVisit(f)
    <3>1. X = heap.objs /\ t = gc.tail BY <2>2
    <3> HIDE DEF X, t
    <3> QED BY <2>2, <3>1
  <2> HIDE DEF X, t
  <2> QED BY <2>1, <2>2
<1> HIDE DEF X, t, r
<1>7. /\ gc' = [roots |-> gc'.roots, head |-> gc'.head, tail |-> gc'.tail, fields |-> gc'.fields]
      /\ gc'.roots = gc.roots /\ gc'.fields = r /\ gc'.head = gc.head /\ gc'.tail = t
  BY <1>4
<1>8. GCTypes' /\ OnlyBits(X) BY <1>1, <1>2, <1>3, <1>5, <1>7, MarkStep DEF r
<1> QED BY <1>1, <1>6, <1>7, <1>8 DEF r

LEMMA CompactGarbageTypes ==
  ASSUME GCTypes, CompactGarbage
  PROVE  GCTypes'
<1>1. /\ phase = "mark" /\ phase' = "killed" /\ UNCHANGED <<interpreter, request, heap>>
  BY DEF CompactGarbage, MarkDone
<1> DEFINE X == heap.objs
<1>2. /\ X = [o \in DOMAIN heap.objs |-> X[o]] /\ heap' = [heap EXCEPT !.objs = X]
      /\ \A o \in DOMAIN heap.objs : IsObject(X[o]) /\ SizeOf(X[o]) = SizeOf(heap.objs[o])
  BY <1>1, HeapKept
<1> HIDE DEF X
<1> QED BY <1>1, <1>2, MarkStep

-----------------------------------------------------------------------------
(* Compaction *)

LEMMA LeastOf ==
  ASSUME NEW S \in SUBSET Nat, S # {}
  PROVE  \E m \in S : \A n \in S : m <= n
<1> DEFINE R == OpToRel(<, Nat)
<1>a. IsWellFoundedOn(R, Nat) BY NatLessThanWellFounded, Zenon
<1> HIDE DEF R
<1>1. PICK m \in S : \A n \in S : ~(<<n, m>> \in R)
  BY <1>a, WFMin, Zenon
<1>2. \A n \in S : ~(n < m)
  BY <1>1 DEF OpToRel, R
<1> QED BY <1>2

LEMMA GreatestOf ==
  ASSUME NEW S \in SUBSET Nat, S # {}, NEW b \in Nat, \A n \in S : n <= b
  PROVE  \E m \in S : \A n \in S : n <= m
<1> DEFINE T == {b - n : n \in S}
<1>1. T \in SUBSET Nat /\ T # {}
  <2>1. \A n \in S : b - n \in Nat OBVIOUS
  <2> QED BY <2>1
<1>2. PICK t \in T : \A x \in T : t <= x
  <2> HIDE DEF T
  <2> QED BY <1>1, LeastOf
<1>3. PICK m \in S : t = b - m OBVIOUS
<1>4. \A n \in S : b - m <= b - n BY <1>2, <1>3
<1> QED BY <1>4

WordsBelow(b) == UNION {WordsIn(o) : o \in {x \in Live : x < b}}

Ends == DOMAIN heap.objs \union {heap.current}

LEMMA LiveIs ==
  ASSUME GCTypes, phase = "mark", NEW o \in Live
  PROVE  /\ o \in DOMAIN heap.objs /\ o \in Nat /\ heap.objs[o].mark
         /\ NextObj(o) = o + SizeOf(heap.objs[o])
         /\ SizeOf(heap.objs[o]) \in Nat /\ SizeOf(heap.objs[o]) >= 2
         /\ NextObj(o) \in Nat /\ NextObj(o) <= heap.current
         /\ \A b \in Ends : o < b => NextObj(o) <= b
         /\ IsFiniteSet(WordsIn(o)) /\ Cardinality(WordsIn(o)) = SizeOf(heap.objs[o])
<1>1. o \in DOMAIN heap.objs /\ heap.objs[o].mark BY DEF Live
<1>2. SizeOf(heap.objs[o]) \in Nat /\ SizeOf(heap.objs[o]) >= 2 /\ o \in Nat
  BY <1>1, ObjectIs
<1>3. NextObj(o) = o + SizeOf(heap.objs[o]) /\ NextObj(o) = EndOf(heap.objs, o)
  BY DEF NextObj, EndOf
<1>4. NextObj(o) <= heap.current /\ \A b \in Ends : o < b => NextObj(o) <= b
  BY <1>1, <1>3 DEF GCTypes, Tiled, Ends
<1>5. IsFiniteSet(WordsIn(o)) /\ Cardinality(WordsIn(o)) = SizeOf(heap.objs[o])
  <2> DEFINE l == NextObj(o) - 1
             s == SizeOf(heap.objs[o])
             e == NextObj(o)
  <2>1. e = o + s /\ l = e - 1 /\ s \in Nat /\ s >= 2 BY <1>2, <1>3
  <2> HIDE DEF l, s, e
  <2>2. l \in Int /\ ~(o > l) /\ l - o + 1 = s BY <1>2, <2>1
  <2>3. o \in Int /\ l \in Int BY <1>2, <2>2
  <2>4. IsFiniteSet(o..l) /\ Cardinality(o..l) = IF o > l THEN 0 ELSE l - o + 1
    BY <2>3, FS_Interval
  <2>5. IsFiniteSet(o..l) /\ Cardinality(o..l) = s BY <2>2, <2>4
  <2> QED BY <2>5 DEF WordsIn, l, s
<1> QED BY <1>1, <1>2, <1>3, <1>4, <1>5

LEMMA EndsType ==
  ASSUME GCTypes
  PROVE  Ends \subseteq Nat /\ \A b \in Ends : b <= heap.current
BY DEF GCTypes, HeapOK, Ends

LEMMA WordsBelowType ==
  ASSUME GCTypes, phase = "mark", NEW b \in Ends
  PROVE  /\ b \in Nat /\ WordsBelow(b) \subseteq 0..b - 1
         /\ IsFiniteSet(WordsBelow(b)) /\ LiveSizeBelow(b) = Cardinality(WordsBelow(b))
         /\ LiveSizeBelow(b) \in Nat /\ LiveSizeBelow(b) <= b
<1>1. b \in Nat BY EndsType
<1>2. ASSUME NEW x \in WordsBelow(b) PROVE x \in 0..b - 1
  <2>1. PICK o \in Live : o < b /\ x \in WordsIn(o)
    BY DEF WordsBelow
  <2>2. x \in o..NextObj(o) - 1 /\ o \in Nat /\ NextObj(o) \in Nat /\ NextObj(o) <= b
    BY <2>1, LiveIs DEF WordsIn
  <2> QED BY <1>1, <2>2
<1>3. LiveSizeBelow(b) = Cardinality(WordsBelow(b))
  BY DEF LiveSizeBelow, WordsBelow
<1>4. WordsBelow(b) \in SUBSET (0..b - 1) BY <1>2
<1>5. IsFiniteSet(0..b - 1) /\ Cardinality(0..b - 1) = b
  <2>1. 0 \in Int /\ b - 1 \in Int /\ IF 0 > b - 1 THEN b = 0 ELSE b - 1 - 0 + 1 = b BY <1>1
  <2> QED BY <2>1, FS_Interval
<1>6. IsFiniteSet(WordsBelow(b)) /\ Cardinality(WordsBelow(b)) <= b
  <2> DEFINE S == 0..b - 1
             W == WordsBelow(b)
  <2>1. IsFiniteSet(S) /\ Cardinality(S) = b /\ W \in SUBSET S BY <1>4, <1>5
  <2> HIDE DEF S, W
  <2>2. IsFiniteSet(W) /\ Cardinality(W) <= Cardinality(S) BY <2>1, FS_Subset
  <2> QED BY <2>1, <2>2 DEF W
<1>7. Cardinality(WordsBelow(b)) \in Nat BY <1>6, FS_CardinalityType
<1> QED BY <1>1, <1>3, <1>4, <1>6, <1>7

LEMMA FirstLive ==
  ASSUME GCTypes, NEW b, \A o \in Live : ~(o < b)
  PROVE  LiveSizeBelow(b) = 0
<1>1. WordsBelow(b) = {} BY DEF WordsBelow
<1>2. LiveSizeBelow(b) = Cardinality(WordsBelow(b)) BY DEF LiveSizeBelow, WordsBelow
<1> QED BY <1>1, <1>2, FS_EmptySet

(* The live words below an end of an object above the live object p.       *)
LEMMA LiveBelow ==
  ASSUME GCTypes, phase = "mark", NEW p \in Live, NEW b \in Ends, p < b
  PROVE  /\ LiveSizeBelow(p) + SizeOf(heap.objs[p]) <= LiveSizeBelow(b)
         /\ (\A o \in Live : o < b => o <= p)
              => LiveSizeBelow(p) + SizeOf(heap.objs[p]) = LiveSizeBelow(b)
<1> DEFINE S == WordsBelow(p)
           T == WordsIn(p)
<1>1. p \in Ends BY LiveIs DEF Ends
<1>2. /\ p \in Nat /\ b \in Nat /\ S \subseteq 0..p - 1 /\ IsFiniteSet(S)
      /\ LiveSizeBelow(p) = Cardinality(S) /\ LiveSizeBelow(p) \in Nat
      /\ IsFiniteSet(WordsBelow(b)) /\ LiveSizeBelow(b) = Cardinality(WordsBelow(b))
      /\ LiveSizeBelow(b) \in Nat
  BY <1>1, WordsBelowType
<1>3. IsFiniteSet(T) /\ Cardinality(T) = SizeOf(heap.objs[p]) /\ SizeOf(heap.objs[p]) \in Nat
  BY LiveIs
<1>4. S \intersect T = {}
  <2>1. T = p..NextObj(p) - 1 BY DEF WordsIn
  <2>2. NextObj(p) \in Nat BY LiveIs
  <2> HIDE DEF S, T
  <2> QED BY <1>2, <2>1, <2>2
<1>5. IsFiniteSet(S \union T)
      /\ Cardinality(S \union T) = LiveSizeBelow(p) + SizeOf(heap.objs[p])
  <2> HIDE DEF S, T
  <2>1. Cardinality(S \intersect T) = 0 BY <1>4, FS_EmptySet
  <2>2. /\ IsFiniteSet(S \union T)
        /\ Cardinality(S \union T) = Cardinality(S) + Cardinality(T) - Cardinality(S \intersect T)
    BY <1>2, <1>3, FS_Union
  <2> QED BY <1>2, <1>3, <2>1, <2>2
<1>6. \A o \in Live : o \in Nat BY LiveIs
<1>7. S \union T \subseteq WordsBelow(b)
  BY <1>2, <1>6 DEF WordsBelow
<1>8. (\A o \in Live : o < b => o <= p) => S \union T = WordsBelow(b)
  BY <1>2, <1>6 DEF WordsBelow
<1>9. Cardinality(S \union T) <= Cardinality(WordsBelow(b))
  BY <1>2, <1>7, FS_Subset
<1> QED BY <1>2, <1>5, <1>8, <1>9

(* An object of the heap with other fields of the same number.             *)
FieldsOf(obj) == [DOMAIN obj.fields -> Words]

WithFields(obj, f, F) == [[obj EXCEPT !.fwd = f] EXCEPT !.fields = F]

LEMMA FieldsReplaced ==
  ASSUME NEW obj, IsObject(obj), NEW F \in FieldsOf(obj), NEW f \in Forwards
  PROVE  /\ IsObject(WithFields(obj, f, F))
         /\ SizeOf(WithFields(obj, f, F)) = SizeOf(obj)
         /\ WithFields(obj, f, F).fields = F
         /\ WithFields(obj, f, F).fwd = f
         /\ WithFields(obj, f, F).mark = obj.mark
         /\ WithFields(obj, f, F).enq = obj.enq
         /\ SameNode(WithFields(obj, f, F), obj)
<1> DEFINE k == obj.kind
           x == obj.id
           l == obj.fields
           g == obj.fwd
           n == obj.mark
           d == obj.enq
           r == [kind |-> k, id |-> x, fields |-> l, fwd |-> g, mark |-> n, enq |-> d]
           s == [kind |-> k, id |-> x, fields |-> l, fwd |-> f, mark |-> n, enq |-> d]
           new == [kind |-> k, id |-> x, fields |-> F, fwd |-> f, mark |-> n, enq |-> d]
<1>1. obj = r BY DEF IsObject
<1>2. [r EXCEPT !.fwd = f] = s
  <2> HIDE DEF k, x, l, g, n, d
  <2> QED OBVIOUS
<1>3. [s EXCEPT !.fields = F] = new
  <2> HIDE DEF k, x, l, g, n, d
  <2> QED OBVIOUS
<1>4. [[obj EXCEPT !.fwd = f] EXCEPT !.fields = F] = new
  <2> HIDE DEF r, s, new
  <2> QED BY <1>1, <1>2, <1>3
<1>5. new.kind = k /\ new.id = x /\ new.fields = F /\ new.fwd = f /\ new.mark = n /\ new.enq = d
  <2> HIDE DEF k, x, n, d
  <2> QED OBVIOUS
<1>6. F \in Seq(Words) /\ Len(F) = Len(l)
  <2>1. l \in Seq(Words) BY DEF IsObject
  <2>2. Len(l) \in Nat /\ DOMAIN l = 1..Len(l) BY <2>1, LenProperties
  <2>3. F \in [1..Len(l) -> Words] BY <2>2 DEF FieldsOf
  <2> HIDE DEF l
  <2> QED BY <2>2, <2>3
<1>7. new = [kind |-> new.kind, id |-> new.id, fields |-> new.fields,
             fwd |-> new.fwd, mark |-> new.mark, enq |-> new.enq]
  OBVIOUS
<1>8. k \in ObjectKinds /\ n \in BOOLEAN /\ d \in BOOLEAN BY DEF IsObject
<1>a. WithFields(obj, f, F) = new BY <1>4 DEF WithFields
<1> HIDE DEF new, k, x, n, d, l
<1>9. IsObject(new) BY <1>5, <1>6, <1>7, <1>8 DEF IsObject, Forwards
<1>10. SizeOf(new) = WordsOf(k, Len(l)) BY <1>5, <1>6 DEF SizeOf
<1>11. SizeOf(obj) = WordsOf(k, Len(l)) BY DEF SizeOf, k, l
<1> QED BY <1>a, <1>5, <1>9, <1>10, <1>11 DEF k, x, n, d, SameNode

LEMMA ForwardSet ==
  ASSUME NEW obj, IsObject(obj), NEW f
  PROVE  /\ [obj EXCEPT !.fwd = f].fwd = f
         /\ [obj EXCEPT !.fwd = f].fields = obj.fields
<1> DEFINE k == obj.kind
           x == obj.id
           l == obj.fields
           g == obj.fwd
           n == obj.mark
           d == obj.enq
           r == [kind |-> k, id |-> x, fields |-> l, fwd |-> g, mark |-> n, enq |-> d]
<1>1. obj = r BY DEF IsObject
<1>2. [r EXCEPT !.fwd = f].fwd = f /\ [r EXCEPT !.fwd = f].fields = l
  <2> HIDE DEF k, x, l, g, n, d
  <2> QED OBVIOUS
<1> HIDE DEF r
<1> QED BY <1>1, <1>2

LEMMA LocatedIs ==
  ASSUME GCTypes, phase = "mark", NEW o \in DOMAIN heap.objs
  PROVE  /\ o \in Live => /\ Located[o] = [heap.objs[o] EXCEPT !.fwd = <<heap.base, LiveSizeBelow(o)>>]
                          /\ Located[o].fwd = <<heap.base, LiveSizeBelow(o)>>
                          /\ Located[o].fields = heap.objs[o].fields
                          /\ LiveSizeBelow(o) \in Nat
         /\ o \notin Live => Located[o] = heap.objs[o]
         /\ Located[o].fwd \in Forwards
<1> DEFINE f == <<heap.base, LiveSizeBelow(o)>>
           obj == heap.objs[o]
<1>1. Located[o] = IF o \in Live THEN [obj EXCEPT !.fwd = f] ELSE obj
  BY DEF Located
<1>2. IsObject(obj) BY ObjectIs
<1>3. LiveSizeBelow(o) \in Nat BY WordsBelowType DEF Ends
<1>4. f \in Forwards BY <1>3 DEF Forwards, GCTypes, HeapOK
<1>5. obj.fwd \in Forwards BY <1>2 DEF IsObject, Forwards
<1>6. [obj EXCEPT !.fwd = f].fwd = f /\ [obj EXCEPT !.fwd = f].fields = obj.fields
  <2> HIDE DEF f, obj
  <2> QED BY <1>2, ForwardSet
<1> QED BY <1>1, <1>3, <1>4, <1>5, <1>6

LEMMA RedirectedType ==
  ASSUME GCTypes, phase = "mark", NEW w \in Words, NEW base \in Bases
  PROVE  /\ Redirected(w, base) \in Words
         /\ w = Plain => Redirected(w, base) = Plain
         /\ RefersToObject(w) /\ HeaderOf(w) \in Live
              => Redirected(w, base) = <<base, LiveSizeBelow(HeaderOf(w)) + Header>>
<1> DEFINE o == HeaderOf(w)
           fwd == Located[o].fwd
<1>1. Redirected(w, base) = IF ~InHeap(w) THEN w
                            ELSE IF ~RefersToObject(w) THEN Plain
                            ELSE IF fwd # None /\ fwd[1] = heap.base THEN ContentOf(base, fwd[2]) ELSE Plain
  BY DEF Redirected
<1>2. Plain \in Words BY DEF Words
<1>3. RefersToObject(w) => o \in DOMAIN heap.objs BY DEF RefersToObject
<1>4. RefersToObject(w) => fwd \in Forwards BY <1>3, LocatedIs
<1>5. RefersToObject(w) /\ fwd # None => ContentOf(base, fwd[2]) \in Words
  BY <1>4 DEF Forwards, ContentOf, Words, Header
<1>6. ASSUME RefersToObject(w), o \in Live
      PROVE  Redirected(w, base) = <<base, LiveSizeBelow(o) + Header>>
  <2>1. fwd = <<heap.base, LiveSizeBelow(o)>> /\ LiveSizeBelow(o) \in Nat
    BY <1>3, <1>6, LocatedIs
  <2>2. fwd # None
    BY <2>1, GCAssumption DEF GCTypes, HeapOK
  <2>3. InHeap(w) BY <1>6 DEF RefersToObject
  <2>4. fwd[1] = heap.base /\ fwd[2] = LiveSizeBelow(o)
    BY <2>1
  <2> QED BY <1>1, <1>6, <2>2, <2>3, <2>4 DEF ContentOf
<1>7. w = Plain => ~InHeap(w) BY DEF InHeap
<1> QED BY <1>1, <1>2, <1>5, <1>6, <1>7

FixedFields(o, base) ==
  [i \in DOMAIN heap.objs[o].fields |-> Redirected(heap.objs[o].fields[i], base)]

FixedObject(o, base) ==
  WithFields(heap.objs[o], <<heap.base, LiveSizeBelow(o)>>, FixedFields(o, base))

FixedHeap(base) == [o \in DOMAIN heap.objs |-> IF o \in Live THEN FixedObject(o, base) ELSE heap.objs[o]]

LEMMA FixedHeapTypes ==
  ASSUME GCTypes, phase = "mark", NEW base \in Bases, NEW o \in DOMAIN heap.objs
  PROVE  /\ IsObject(FixedHeap(base)[o])
         /\ SizeOf(FixedHeap(base)[o]) = SizeOf(heap.objs[o])
         /\ FixedHeap(base)[o].mark = heap.objs[o].mark
         /\ FixedHeap(base)[o].enq = heap.objs[o].enq
         /\ SameNode(FixedHeap(base)[o], heap.objs[o])
         /\ o \in Live => /\ FixedHeap(base)[o].fields = FixedFields(o, base)
                          /\ FixedHeap(base)[o].fwd = <<heap.base, LiveSizeBelow(o)>>
<1> DEFINE f == <<heap.base, LiveSizeBelow(o)>>
           obj == heap.objs[o]
           F == FixedFields(o, base)
<1>1. IsObject(obj) BY ObjectIs
<1>2. CASE o \notin Live
  <2>1. FixedHeap(base)[o] = obj BY <1>2 DEF FixedHeap
  <2> QED BY <1>1, <1>2, <2>1 DEF SameNode
<1>3. CASE o \in Live
  <2>1. FixedHeap(base)[o] = WithFields(obj, f, F)
    BY <1>3 DEF FixedHeap, FixedObject
  <2>2. f \in Forwards
    <3>1. f = Located[o].fwd /\ Located[o].fwd \in Forwards BY <1>3, LocatedIs
    <3> QED BY <3>1
  <2>3. F \in FieldsOf(obj)
    BY FieldWord, RedirectedType DEF FixedFields, FieldsOf
  <2> DEFINE new == WithFields(obj, f, F)
  <2> HIDE DEF f, F, obj
  <2>4. /\ IsObject(new) /\ SizeOf(new) = SizeOf(obj) /\ new.mark = obj.mark /\ new.enq = obj.enq
        /\ new.fields = F /\ new.fwd = f /\ SameNode(new, obj)
    BY <1>1, <2>2, <2>3, FieldsReplaced
  <2>5. FixedHeap(base)[o] = new BY <2>1
  <2> HIDE DEF new
  <2>6. /\ IsObject(FixedHeap(base)[o]) /\ SizeOf(FixedHeap(base)[o]) = SizeOf(obj)
        /\ FixedHeap(base)[o].mark = obj.mark /\ FixedHeap(base)[o].enq = obj.enq
        /\ FixedHeap(base)[o].fields = F /\ FixedHeap(base)[o].fwd = f
        /\ SameNode(FixedHeap(base)[o], obj)
    BY <2>4, <2>5
  <2> QED BY <1>3, <2>6 DEF f, F, obj
<1> QED BY <1>2, <1>3

LEMMA CompactIs ==
  ASSUME GCTypes, Compact
  PROVE  \E base \in Bases \ {heap.base} :
           /\ heap' = [base |-> base, size |-> NextHeapSize, current |-> heap.current,
                       objs |-> FixedHeap(base)]
           /\ stack' = [i \in DOMAIN stack |->
                          IF i \in FixedWords THEN Redirected(stack[i], base) ELSE stack[i]]
           /\ request' = [request EXCEPT !.escaped = IF @ = None THEN @ ELSE Redirected(@, base)]
<1>0. phase = "mark" BY DEF Compact, MarkDone
<1>1. PICK base \in Bases \ {heap.base} :
       /\ heap' = [heap EXCEPT
                     !.base = base,
                     !.size = NextHeapSize,
                     !.objs = [o \in DOMAIN @ |->
                                 IF o \in Live
                                 THEN [Located[o] EXCEPT
                                         !.fields = [i \in DOMAIN @ |-> Redirected(@[i], base)]]
                                 ELSE @[o]]]
       /\ stack' = [i \in DOMAIN stack |->
                      IF i \in FixedWords THEN Redirected(stack[i], base) ELSE stack[i]]
       /\ request' = [request EXCEPT !.escaped = IF @ = None THEN @ ELSE Redirected(@, base)]
  BY DEF Compact
<1> DEFINE h1 == [heap EXCEPT !.base = base]
           h2 == [h1 EXCEPT !.size = NextHeapSize]
           X(f) == [o \in DOMAIN f |->
                      IF o \in Live
                      THEN [Located[o] EXCEPT !.fields = [i \in DOMAIN @ |-> Redirected(@[i], base)]]
                      ELSE f[o]]
           b == heap.base
           s == heap.size
           c == heap.current
           f == heap.objs
           N == NextHeapSize
<1>2. heap' = [h2 EXCEPT !.objs = X(h2.objs)] BY <1>1
<1>3. heap = [base |-> b, size |-> s, current |-> c, objs |-> f] BY DEF GCTypes, HeapOK
<1>4. X(f) = FixedHeap(base)
  <2>1. ASSUME NEW o \in DOMAIN heap.objs, o \in Live
        PROVE  [Located[o] EXCEPT !.fields = [i \in DOMAIN @ |-> Redirected(@[i], base)]]
                 = FixedObject(o, base)
    <3>1. Located[o] = [heap.objs[o] EXCEPT !.fwd = <<heap.base, LiveSizeBelow(o)>>]
          /\ Located[o].fields = heap.objs[o].fields
      BY <1>0, <2>1, LocatedIs
    <3> DEFINE L == Located[o]
    <3>2. [L EXCEPT !.fields = [i \in DOMAIN @ |-> Redirected(@[i], base)]]
            = [L EXCEPT !.fields = [i \in DOMAIN L.fields |-> Redirected(L.fields[i], base)]]
      OBVIOUS
    <3>3. [i \in DOMAIN L.fields |-> Redirected(L.fields[i], base)] = FixedFields(o, base)
      <4> HIDE DEF L
      <4> QED BY <3>1 DEF FixedFields, L
    <3> HIDE DEF L
    <3>4. [L EXCEPT !.fields = [i \in DOMAIN L.fields |-> Redirected(L.fields[i], base)]]
            = [L EXCEPT !.fields = FixedFields(o, base)]
      BY <3>3
    <3>5. FixedObject(o, base) = [L EXCEPT !.fields = FixedFields(o, base)]
      BY <3>1 DEF FixedObject, WithFields, L
    <3> QED BY <3>2, <3>4, <3>5 DEF L
  <2> DEFINE G(o) == [Located[o] EXCEPT !.fields = [i \in DOMAIN @ |-> Redirected(@[i], base)]]
  <2>2. X(f) = [o \in DOMAIN heap.objs |-> IF o \in Live THEN G(o) ELSE heap.objs[o]] OBVIOUS
  <2>3. \A o \in DOMAIN heap.objs : o \in Live => G(o) = FixedObject(o, base) BY <2>1
  <2> HIDE DEF X, G
  <2> QED BY <2>2, <2>3 DEF FixedHeap
<1> HIDE DEF X, b, s, c, N
<1>5. h1 = [base |-> base, size |-> s, current |-> c, objs |-> f]
  <2> HIDE DEF f
  <2> QED BY <1>3
<1> HIDE DEF h1
<1>6. h2 = [base |-> base, size |-> N, current |-> c, objs |-> f]
  <2> HIDE DEF f
  <2> QED BY <1>5 DEF N
<1> HIDE DEF h2
<1>7. h2.objs = f
  <2> HIDE DEF f
  <2> QED BY <1>6
<1>8. [h2 EXCEPT !.objs = X(f)] = [base |-> base, size |-> N, current |-> c, objs |-> X(f)]
  <2> HIDE DEF f
  <2> QED BY <1>6
<1>9. heap' = [base |-> base, size |-> N, current |-> c, objs |-> FixedHeap(base)]
  BY <1>2, <1>4, <1>7, <1>8
<1> QED BY <1>1, <1>9 DEF N, c

(* The new heap has room for the live objects and for the request.         *)
LEMMA HeapSizeType ==
  ASSUME GCTypes, phase = "mark"
  PROVE  /\ NextHeapSize \in Nat /\ NextHeapSize >= heap.size
         /\ LiveSizeBelow(heap.current) + WordsOf(request.kind, request.n) <= NextHeapSize
         /\ LiveSizeBelow(heap.current) \in Nat
<1> DEFINE l == LiveSizeBelow(heap.current)
           k == ExtraRoom
           w == WordsOf(request.kind, request.n)
           m == l * k
<1>1. l \in Nat BY WordsBelowType DEF Ends
<1>2. w \in Nat BY WordsOfType DEF GCTypes, RequestOK
<1>3. k \in Nat /\ k >= 1 BY GCAssumption
<1>4. m \in Nat /\ m >= l
  <2> HIDE DEF l, k
  <2> QED BY <1>1, <1>3
<1>5. MinHeap \in Nat /\ heap.size \in Nat BY Numbers DEF GCTypes, HeapOK
<1>6. NextHeapSize = Max2(Max2(m + w, MinHeap), heap.size) BY DEF NextHeapSize
<1> HIDE DEF l, k, w, m
<1>7. NextHeapSize \in Nat /\ NextHeapSize >= heap.size /\ NextHeapSize >= m + w
  BY <1>2, <1>4, <1>5, <1>6 DEF Max2
<1>8. l + w <= NextHeapSize BY <1>1, <1>2, <1>4, <1>7
<1> QED BY <1>1, <1>7, <1>8 DEF l, w

(* At the beginning of the relocation every live object has a place: its   *)
(* forward address, right behind that of the live object below it.         *)
LEMMA CompactSlides ==
  ASSUME GCTypes, Compact
  PROVE  Sliding(0)'
<1>0. phase = "mark" BY DEF Compact, MarkDone
<1>1. PICK base \in Bases \ {heap.base} :
        heap' = [base |-> base, size |-> NextHeapSize, current |-> heap.current,
                 objs |-> FixedHeap(base)]
  BY CompactIs
<1>2. gc' = [from |-> 0, live |-> LiveSizeBelow(heap.current)] BY DEF Compact
<1> DEFINE D == DOMAIN heap.objs
           f == heap.objs
           g == heap'.objs
           c == heap.current
<1>3. /\ heap'.size = NextHeapSize /\ heap'.current = c /\ DOMAIN g = D
      /\ \A o \in D : /\ IsObject(g[o]) /\ SizeOf(g[o]) = SizeOf(f[o]) /\ g[o].mark = f[o].mark
                      /\ o \in Live => g[o].fwd = <<heap.base, LiveSizeBelow(o)>>
  <2>1. /\ heap'.size = NextHeapSize /\ heap'.current = c /\ g = FixedHeap(base) BY <1>1
  <2>2. DOMAIN FixedHeap(base) = D BY DEF FixedHeap
  <2> HIDE DEF g
  <2> QED BY <1>0, <2>1, <2>2, FixedHeapTypes
<1>4. gc'.from = 0 /\ gc'.live = LiveSizeBelow(c) /\ gc' = [from |-> gc'.from, live |-> gc'.live]
  BY <1>2
<1>5. D \subseteq Nat /\ c \in Nat /\ c \in Ends /\ D \subseteq Ends /\ \A o \in D : o < c
  BY <1>0 DEF GCTypes, HeapOK, Ends
<1>6. Unmoved' = D /\ Settled(0)' = {}
  BY <1>3, <1>4, <1>5 DEF Unmoved, Settled
<1>7. Moving' = Live
  BY <1>3, <1>6 DEF Moving, Live
<1>8. \A p \in Live : /\ g[p].fwd \in Bases \X Nat /\ g[p].fwd[2] = LiveSizeBelow(p) /\ p \in D
                      /\ LiveSizeBelow(p) \in Nat /\ LiveSizeBelow(p) <= p /\ p \in Nat
  <2> SUFFICES ASSUME NEW p \in Live
               PROVE  /\ g[p].fwd \in Bases \X Nat /\ g[p].fwd[2] = LiveSizeBelow(p) /\ p \in D
                      /\ LiveSizeBelow(p) \in Nat /\ LiveSizeBelow(p) <= p /\ p \in Nat
    OBVIOUS
  <2>1. p \in D BY DEF Live
  <2>2. LiveSizeBelow(p) \in Nat /\ LiveSizeBelow(p) <= p BY <1>0, <1>5, <2>1, WordsBelowType
  <2>3. heap.base \in Bases BY DEF GCTypes, HeapOK
  <2>4. g[p].fwd = <<heap.base, LiveSizeBelow(p)>> BY <1>3, <2>1
  <2> DEFINE l == LiveSizeBelow(p)
             fwd == g[p].fwd
  <2> HIDE DEF l, fwd
  <2>5. fwd \in Bases \X Nat /\ fwd[2] = l BY <2>2, <2>3, <2>4 DEF l, fwd
  <2> QED BY <1>5, <2>1, <2>2, <2>5 DEF l, fwd
<1> DEFINE L(o) == LiveSizeBelow(o)
           S(o) == SizeOf(f[o])
<1>9. ASSUME NEW p \in Live, NEW q \in Live, p < q PROVE L(p) + S(p) <= L(q)
  <2>1. q \in Ends BY <1>5, <1>8
  <2> QED BY <1>0, <1>9, <2>1, LiveBelow
<1>10. ASSUME NEW p \in Live
       PROVE  L(p) = 0 \/ \E q \in Live : q < p /\ L(q) + S(q) = L(p)
  <2> DEFINE T == {q \in Live : q < p}
  <2>1. CASE T = {} BY <2>1, FirstLive
  <2>2. CASE T # {}
    <3>1. T \in SUBSET Nat /\ p \in Nat /\ \A q \in T : q <= p BY <1>8
    <3>2. PICK q \in T : \A x \in T : x <= q
      <4> HIDE DEF T
      <4> QED BY <2>2, <3>1, GreatestOf
    <3>3. p \in Ends BY <1>5, <1>8
    <3>4. L(q) + S(q) = L(p) BY <1>0, <3>2, <3>3, LiveBelow
    <3> QED BY <3>2, <3>4
  <2> QED BY <2>1, <2>2
<1>11. ASSUME NEW p \in Live
       PROVE  L(p) + S(p) = L(c) \/ \E q \in Live : p < q /\ L(q) = L(p) + S(p)
  <2> DEFINE T == {q \in Live : p < q}
  <2>1. CASE T = {}
    <3>1. \A o \in Live : o < c => o <= p BY <2>1, <1>8
    <3>2. p < c BY <1>5, <1>8
    <3> QED BY <1>0, <1>5, <3>1, <3>2, LiveBelow
  <2>2. CASE T # {}
    <3>1. T \in SUBSET Nat BY <1>8
    <3>2. PICK q \in T : \A x \in T : q <= x
      <4> HIDE DEF T
      <4> QED BY <2>2, <3>1, LeastOf
    <3>3. q \in Ends BY <1>5, <1>8
    <3>4. \A o \in Live : o < q => o <= p BY <3>2, <1>8
    <3>5. L(q) = L(p) + S(p) BY <1>0, <3>2, <3>3, <3>4, LiveBelow
    <3> QED BY <3>2, <3>5
  <2> QED BY <2>1, <2>2
<1>12. Live = {} => L(c) = 0 BY FirstLive
<1>13. Tiled(g, D, 0, c)
  <2>1. Tiled(f, D, 0, c) BY <1>0 DEF GCTypes
  <2> HIDE DEF f, g, D, c
  <2> QED BY <2>1, <1>3, SizesKept
<1>14. Tiled(g, {}, 0, 0) BY DEF Tiled
<1>15. request'.kind = request.kind /\ request'.n = request.n
  <2>1. PICK b \in Bases : request' = [request EXCEPT !.escaped = IF @ = None THEN @ ELSE Redirected(@, b)]
    BY CompactIs
  <2>2. request = [kind |-> request.kind, n |-> request.n, first |-> request.first,
                   pops |-> request.pops, escaped |-> request.escaped]
    BY <1>0 DEF GCTypes, RequestOK
  <2> QED BY <2>1, <2>2
<1>16. L(c) \in Nat /\ L(c) + WordsOf(request.kind, request.n) <= NextHeapSize
  BY <1>0, HeapSizeType
<1>17. \A p \in Live : Place(p)' = L(p) /\ SizeOf(heap.objs[p])' = S(p)
  BY <1>3, <1>8 DEF Place
<1> HIDE DEF D, f, c
<1>18. /\ \A p \in Live : 0 <= L(p) /\ L(p) <= p
       /\ \A p, q \in Live : p < q => L(p) + S(p) <= L(q)
       /\ \A p \in Live : L(p) = 0 \/ \E q \in Live : q < p /\ L(q) + S(q) = L(p)
       /\ \A p \in Live : L(p) + S(p) = L(c) \/ \E q \in Live : p < q /\ L(q) = L(p) + S(p)
  BY <1>8, <1>9, <1>10, <1>11
<1> HIDE DEF L, S
<1>a. /\ gc'.from = 0 /\ gc'.live = L(c) /\ 0 \in 0..c /\ 0 \in 0..0 /\ L(c) \in Nat
  BY <1>4, <1>5, <1>16 DEF L
<1>b. /\ \A p \in Moving' : /\ (heap.objs[p].fwd)' \in Bases \X Nat
                            /\ 0 <= Place(p)' /\ Place(p)' <= p
      /\ \A p, q \in Moving' : p < q => Place(p)' + SizeOf(heap.objs[p])' <= Place(q)'
      /\ \A p \in Moving' : \/ Place(p)' = 0
                            \/ \E q \in Moving' : q < p /\ Place(q)' + SizeOf(heap.objs[q])' = Place(p)'
      /\ \A p \in Moving' : \/ Place(p)' + SizeOf(heap.objs[p])' = gc'.live
                            \/ \E q \in Moving' : p < q /\ Place(q)' = Place(p)' + SizeOf(heap.objs[p])'
      /\ Moving' = {} => 0 = gc'.live
  <2> HIDE DEF g
  <2>1. \A p \in Live : (heap.objs[p].fwd)' \in Bases \X Nat BY <1>8 DEF g
  <2> QED BY <2>1, <1>7, <1>12, <1>17, <1>18, <1>a
<1>c. gc'.live + WordsOf(request'.kind, request'.n) <= heap'.size
  BY <1>3, <1>15, <1>16, <1>a DEF L
<1>d. /\ Tiled(heap'.objs, Settled(0)', 0, 0) /\ Tiled(heap'.objs, Unmoved', gc'.from, heap'.current)
  BY <1>3, <1>6, <1>13, <1>14, <1>a
<1> QED BY <1>3, <1>4, <1>a, <1>b, <1>c, <1>d DEF Sliding

LEMMA CompactTypes ==
  ASSUME GCTypes, Compact
  PROVE  GCTypes'
<1>1. /\ phase = "mark" /\ phase' = "relocate" /\ program' = program /\ size' = size /\ frames' = frames
      /\ HeapOK /\ RequestOK /\ FramesOK
  BY DEF Compact, MarkDone, GCTypes
<1>2. PICK base \in Bases \ {heap.base} :
        /\ heap' = [base |-> base, size |-> NextHeapSize, current |-> heap.current,
                    objs |-> FixedHeap(base)]
        /\ stack' = [i \in DOMAIN stack |->
                       IF i \in FixedWords THEN Redirected(stack[i], base) ELSE stack[i]]
        /\ request' = [request EXCEPT !.escaped = IF @ = None THEN @ ELSE Redirected(@, base)]
  BY CompactIs
<1>3. /\ heap'.base = base /\ heap'.size = NextHeapSize /\ heap'.current = heap.current
      /\ heap'.objs = FixedHeap(base)
  BY <1>2
<1>4. HeapOK'
  <2>1. DOMAIN FixedHeap(base) = DOMAIN heap.objs
        /\ FixedHeap(base) = [o \in DOMAIN FixedHeap(base) |-> FixedHeap(base)[o]]
    BY DEF FixedHeap
  <2>2. \A o \in DOMAIN heap.objs : IsObject(FixedHeap(base)[o]) BY <1>1, FixedHeapTypes
  <2>3. NextHeapSize \in Nat /\ heap.current \in 0..NextHeapSize
    <3>1. heap.current \in 0..heap.size /\ heap.size \in Nat BY <1>1 DEF HeapOK
    <3> QED BY <1>1, <3>1, HeapSizeType
  <2>4. DOMAIN heap.objs \subseteq 0..heap.current - 1 BY <1>1 DEF HeapOK
  <2> DEFINE X == FixedHeap(base)
  <2>5. heap' = [base |-> heap'.base, size |-> heap'.size, current |-> heap'.current,
                 objs |-> heap'.objs]
    BY <1>2, <1>3
  <2> HIDE DEF X
  <2> QED BY <1>3, <2>1, <2>2, <2>3, <2>4, <2>5 DEF HeapOK
<1>5. stack' \in [0..StackWords -> Words]
  <2>1. DOMAIN stack = 0..StackWords BY DEF GCTypes
  <2>2. \A i \in 0..StackWords : stack[i] \in Words /\ Redirected(stack[i], base) \in Words
    BY <1>1, StackWord, RedirectedType
  <2> QED BY <1>2, <2>1, <2>2
<1>6. RequestOK'
  <2> DEFINE k == request.kind
             n == request.n
             f == request.first
             p == request.pops
             e == request.escaped
             d == IF e = None THEN e ELSE Redirected(e, base)
  <2>1. request = [kind |-> k, n |-> n, first |-> f, pops |-> p, escaped |-> e]
    BY <1>1 DEF RequestOK
  <2>2. request' = [request EXCEPT !.escaped = d] BY <1>2
  <2>3. d \in Words \union {None} BY <1>1, RedirectedType DEF RequestOK
  <2> HIDE DEF k, n, f, p, e, d
  <2>4. request' = [kind |-> k, n |-> n, first |-> f, pops |-> p, escaped |-> d]
    BY <2>1, <2>2
  <2>5. /\ request'.kind = k /\ request'.n = n /\ request'.first = f /\ request'.pops = p
        /\ request'.escaped = d
        /\ request' = [kind |-> request'.kind, n |-> request'.n, first |-> request'.first,
                       pops |-> request'.pops, escaped |-> request'.escaped]
    BY <2>4
  <2>6. Frame' = Frame /\ StackWords' = StackWords BY <1>1 DEF Frame, StackWords
  <2>7. /\ k \in ObjectKinds
        /\ n \in Nat /\ p \in Nat /\ f \in Nat \ {0}
        /\ f + n <= size + 1 /\ f + n <= StackWords + 1
        /\ Frame.base + Locals <= size - p /\ size - p < StackWords
    BY <1>1 DEF RequestOK, k, n, f, p
  <2> QED BY <1>1, <2>3, <2>5, <2>6, <2>7 DEF RequestOK
<1>7. FramesOK' BY <1>1, FramesKept DEF FramesOK
<1>8. \E free \in 0..gc'.from : Sliding(free)'
  <2>1. gc'.from = 0 BY DEF Compact
  <2> QED BY <2>1, CompactSlides
<1>9. StackWords' = StackWords BY <1>1 DEF StackWords
<1> QED BY <1>1, <1>4, <1>5, <1>6, <1>7, <1>8, <1>9 DEF GCTypes

-----------------------------------------------------------------------------
(* Relocation *)

LEMMA TiledTail ==
  ASSUME NEW f, NEW S \in SUBSET Int, NEW first \in S, NEW last, Tiled(f, S, first, last),
         \A o \in S : SizeOf(f[o]) \in Nat /\ SizeOf(f[o]) > 0
  PROVE  Tiled(f, S \ {first}, EndOf(f, first), last)
<1> DEFINE E(o) == EndOf(f, o)
<1>1. \A o \in S : E(o) \in Int /\ o < E(o) /\ o \in Int
  BY DEF EndOf
<1>2. /\ \A o \in S : first <= o /\ E(o) <= last
      /\ \A o, p \in S : o < p => E(o) <= p
      /\ \A o \in S : o = first \/ \E p \in S : E(p) = o
      /\ \A o \in S : E(o) = last \/ E(o) \in S
      /\ \E o \in S : E(o) = last
  BY DEF Tiled, EndOf
<1> DEFINE T == S \ {first}
<1> HIDE DEF E
<1>3. ASSUME NEW o \in T PROVE o \in S /\ first < o /\ E(first) <= o
  <2>1. o \in S /\ o # first OBVIOUS
  <2>2. first <= o /\ o \in Int /\ first \in Int BY <1>1, <1>2, <2>1
  <2>3. first < o BY <2>1, <2>2
  <2> QED BY <1>2, <2>1, <2>3
<1>4. \A o \in T : o = E(first) \/ \E p \in T : E(p) = o
  BY <1>2
<1>5. \A o \in T : E(o) = last \/ E(o) \in T
  <2> SUFFICES ASSUME NEW o \in T, E(o) # last PROVE E(o) \in T
    OBVIOUS
  <2>1. E(o) \in S /\ first < o /\ o < E(o) BY <1>1, <1>2, <1>3
  <2> QED BY <1>1, <2>1
<1>6. E(first) = last \/ (E(first) \in T /\ \E o \in T : E(o) = last)
  <2> SUFFICES ASSUME E(first) # last PROVE E(first) \in T /\ \E o \in T : E(o) = last
    OBVIOUS
  <2>1. E(first) \in S /\ first < E(first) BY <1>1, <1>2
  <2>2. E(first) # first BY <1>1, <2>1
  <2> QED BY <1>2, <2>1, <2>2
<1>7. /\ \A o \in T : E(first) <= o /\ E(o) <= last
      /\ \A o, p \in T : o < p => E(o) <= p
  BY <1>2, <1>3
<1> HIDE DEF T
<1> QED BY <1>4, <1>5, <1>6, <1>7 DEF Tiled, E, T

(* The object at the iterator.                                             *)
LEMMA IteratorIs ==
  ASSUME GCTypes, NEW free, Sliding(free), Relocate
  PROVE  /\ phase = "relocate" /\ phase' = phase
         /\ gc.from \in DOMAIN heap.objs /\ gc.from \in Unmoved
         /\ gc.from \in Nat /\ free \in Nat /\ free <= gc.from /\ heap.current \in Nat
         /\ SizeOf(heap.objs[gc.from]) \in Nat /\ SizeOf(heap.objs[gc.from]) >= 2
         /\ NextObj(gc.from) = gc.from + SizeOf(heap.objs[gc.from])
         /\ NextObj(gc.from) = EndOf(heap.objs, gc.from)
         /\ NextObj(gc.from) \in Nat /\ NextObj(gc.from) <= heap.current
         /\ gc' = [from |-> NextObj(gc.from), live |-> gc.live]
         /\ Tiled(heap.objs, Unmoved \ {gc.from}, NextObj(gc.from), heap.current)
         /\ {o \in Unmoved : NextObj(gc.from) <= o} = Unmoved \ {gc.from}
         /\ Unmoved \subseteq DOMAIN heap.objs /\ DOMAIN heap.objs \subseteq Nat
<1> DEFINE a == gc.from
           l == gc.live
           c == heap.current
           f == heap.objs
           b == NextObj(a)
           U == Unmoved
<1>1. /\ phase = "relocate" /\ phase' = phase /\ a < c /\ gc' = [gc EXCEPT !.from = NextObj(@)]
  BY DEF Relocate
<1>2. /\ gc = [from |-> a, live |-> l] /\ a \in 0..c /\ free \in 0..a
      /\ Tiled(f, U, a, c) /\ c \in Nat
  BY DEF Sliding, GCTypes, HeapOK
<1>3. a \in U /\ U \subseteq DOMAIN f /\ DOMAIN f \subseteq Nat
  <2>1. a = c \/ a \in U BY <1>2 DEF Tiled
  <2>2. DOMAIN f \subseteq Nat BY DEF GCTypes, HeapOK
  <2> HIDE DEF f
  <2> QED BY <1>1, <1>2, <2>1, <2>2 DEF Unmoved, f
<1>4. a \in DOMAIN f BY <1>3
<1>5. SizeOf(f[a]) \in Nat /\ SizeOf(f[a]) >= 2 BY <1>4, ObjectIs
<1>6. b = a + SizeOf(f[a]) /\ b = EndOf(f, a) BY DEF NextObj, EndOf
<1>7. b <= c BY <1>2, <1>3, <1>6 DEF Tiled
<1>8. gc' = [from |-> b, live |-> l]
  <2> HIDE DEF b, l
  <2>1. [gc EXCEPT !.from = NextObj(@)] = [gc EXCEPT !.from = b] BY DEF b
  <2> DEFINE x == a
  <2>2. gc = [from |-> x, live |-> l] BY <1>2
  <2> HIDE DEF x
  <2> QED BY <1>1, <2>1, <2>2
<1>9. Tiled(f, U \ {a}, b, c)
  <2>1. \A o \in U : SizeOf(f[o]) \in Nat /\ SizeOf(f[o]) > 0 BY <1>3, ObjectIs
  <2>2. U \in SUBSET Int BY <1>3
  <2> HIDE DEF f, U, a, b, c
  <2> QED BY <1>2, <1>3, <1>6, <2>1, <2>2, TiledTail
<1>10. \A o \in U \ {a} : b <= o BY <1>9 DEF Tiled
<1> HIDE DEF f, U, b, c
<1>11. {o \in U : b <= o} = U \ {a} BY <1>2, <1>3, <1>5, <1>6, <1>10
<1>12. a \in Nat /\ free \in Nat /\ free <= a /\ b \in Nat BY <1>2, <1>5, <1>6
<1> QED BY <1>1, <1>2, <1>3, <1>4, <1>5, <1>6, <1>7, <1>8, <1>9, <1>11, <1>12 DEF f, U, b, c

(* A dead object is passed over.                                           *)
LEMMA PassOver ==
  ASSUME GCTypes, NEW free, Sliding(free), Relocate, ~heap.objs[gc.from].mark
  PROVE  /\ heap' = heap /\ Unmoved' = Unmoved \ {gc.from} /\ Moving' = Moving
         /\ Settled(free)' = Settled(free) /\ Sliding(free)'
<1>1. heap' = heap
  <2>1. heap' = [heap EXCEPT !.objs = @] BY DEF Relocate
  <2> QED BY <2>1, HeapKept
<1>2. gc'.from = NextObj(gc.from) /\ gc'.live = gc.live /\ gc' = [from |-> gc'.from, live |-> gc'.live]
  BY IteratorIs
<1>3. Unmoved' = Unmoved \ {gc.from}
  <2>1. Unmoved' = {o \in Unmoved : NextObj(gc.from) <= o}
    <3>1. NextObj(gc.from) \in Nat /\ gc.from \in Nat /\ gc.from <= NextObj(gc.from)
          /\ DOMAIN heap.objs \subseteq Nat
      BY IteratorIs
    <3>2. \A o \in DOMAIN heap.objs : NextObj(gc.from) <= o => gc.from <= o BY <3>1
    <3> QED BY <1>1, <1>2, <3>2 DEF Unmoved
  <2> QED BY <2>1, IteratorIs
<1>4. Moving' = Moving
  BY <1>1, <1>3 DEF Moving
<1>5. Settled(free)' = Settled(free) BY <1>1 DEF Settled
<1>6. free \in 0..gc'.from /\ gc'.from \in 0..heap.current
  BY <1>2, IteratorIs
<1>7. Tiled(heap.objs, Unmoved \ {gc.from}, gc'.from, heap.current)
  BY <1>2, IteratorIs
<1>8. request' = request BY DEF Relocate
<1>9. \A p : Place(p)' = Place(p) BY <1>1 DEF Place
<1> QED BY <1>1, <1>2, <1>3, <1>4, <1>5, <1>6, <1>7, <1>8, <1>9 DEF Sliding

(* A live object is moved down to where those before it end.               *)
LEMMA MoveDown ==
  ASSUME GCTypes, NEW free, Sliding(free), Relocate, heap.objs[gc.from].mark,
         NEW next, next = free + SizeOf(heap.objs[gc.from])
  PROVE  /\ HeapOK' /\ heap'.base = heap.base /\ heap'.size = heap.size /\ heap'.current = heap.current
         /\ gc.from \in Moving /\ Place(gc.from) = free /\ next \in Nat /\ free < next
         /\ Unmoved' = Unmoved \ {gc.from} /\ Moving' = Moving \ {gc.from}
         /\ Settled(next)' = Settled(free) \union {free}
         /\ \A o \in Settled(free) \union (Unmoved \ {gc.from}) :
              o \in DOMAIN heap'.objs /\ heap'.objs[o] = heap.objs[o]
         /\ free \in DOMAIN heap'.objs /\ heap'.objs[free].fields = heap.objs[gc.from].fields
         /\ heap'.objs[free].enq = heap.objs[gc.from].enq /\ ~heap'.objs[free].mark
         /\ SameNode(heap'.objs[free], heap.objs[gc.from])
         /\ DOMAIN heap'.objs \subseteq DOMAIN heap.objs \union {free}
         /\ \A o \in DOMAIN heap'.objs : o # free => heap'.objs[o] = heap.objs[o]
         /\ \A p \in Moving \ {gc.from} :
              Place(p)' = Place(p) /\ SizeOf(heap.objs[p])' = SizeOf(heap.objs[p])
         /\ Sliding(next)'
<1> DEFINE a == gc.from
           f == heap.objs
           D == DOMAIN f
           obj == f[a]
           new == Unmarked(obj)
           b == NextObj(a)
           c == heap.current
           s == SizeOf(obj)
           kept == {o \in D \ {free} : o + SizeOf(f[o]) <= free \/ free + SizeOf(new) <= o}
           X == [o \in kept \union {free} |-> IF o = free THEN new ELSE f[o]]
<1>1. /\ a \in D /\ a \in Unmoved /\ a \in Nat /\ free \in Nat /\ free <= a /\ c \in Nat
      /\ s \in Nat /\ s >= 2 /\ b = a + s /\ b \in Nat /\ b <= c
      /\ gc' = [from |-> b, live |-> gc.live]
      /\ Tiled(f, Unmoved \ {a}, b, c) /\ {o \in Unmoved : b <= o} = Unmoved \ {a}
      /\ Unmoved \subseteq D /\ D \subseteq Nat
  BY IteratorIs
<1>2. IsObject(obj) BY <1>1, ObjectIs
<1>3. a \in Moving BY <1>1 DEF Moving
<1>4. Place(a) = free
  <2>1. Place(a) = free \/ \E q \in Moving : q < a BY <1>3 DEF Sliding
  <2>2. \A q \in Moving : ~(q < a)
    <3>1. \A q \in Unmoved : a <= q BY DEF Unmoved
    <3>2. \A q \in Moving : q \in Unmoved /\ q \in Nat BY <1>1 DEF Moving
    <3> QED BY <1>1, <3>1, <3>2
  <2> QED BY <2>1, <2>2
<1>5. /\ IsObject(new) /\ SizeOf(new) = s /\ new.fields = obj.fields /\ new.enq = obj.enq /\ ~new.mark
      /\ SameNode(new, obj)
  <2> DEFINE no == FALSE
             fwd == obj.fwd
             enq == obj.enq
  <2>1. [obj EXCEPT !.mark = no] = WithBits(obj, fwd, no, enq)
    <3> DEFINE k == obj.kind
               x == obj.id
               l == obj.fields
               n == obj.mark
               r == [kind |-> k, id |-> x, fields |-> l, fwd |-> fwd, mark |-> n, enq |-> enq]
    <3>1. obj = r BY <1>2 DEF IsObject
    <3>2. [r EXCEPT !.mark = no] = [kind |-> k, id |-> x, fields |-> l, fwd |-> fwd, mark |-> no, enq |-> enq]
      <4> HIDE DEF no, k, x, l, n, fwd, enq
      <4> QED OBVIOUS
    <3> HIDE DEF no, r
    <3> QED BY <3>1, <3>2 DEF WithBits
  <2>2. new = WithBits(obj, fwd, no, enq) BY <2>1 DEF Unmarked
  <2>3. fwd \in Forwards /\ no \in BOOLEAN /\ enq \in BOOLEAN BY <1>2 DEF IsObject, Forwards
  <2>4. ~no OBVIOUS
  <2> DEFINE w == WithBits(obj, fwd, no, enq)
  <2> HIDE DEF new, no, fwd, enq, obj
  <2>5. IsObject(w) /\ SizeOf(w) = SizeOf(obj) /\ w.fields = obj.fields /\ w.mark = no /\ w.enq = enq
        /\ SameNode(w, obj)
    BY <1>2, <2>3, BitsType
  <2> HIDE DEF w
  <2>6. new = w BY <2>2 DEF w
  <2> QED BY <2>4, <2>5, <2>6 DEF s, enq
<1>6. heap' = [heap EXCEPT !.objs = X]
  <2>1. heap' = [heap EXCEPT !.objs = Moved(heap.objs, new, free)]
    <3>1. heap' = [heap EXCEPT !.objs = IF obj.mark THEN Moved(@, Unmarked(obj), obj.fwd[2]) ELSE @]
      BY DEF Relocate
    <3>2. obj.fwd[2] = free BY <1>4 DEF Place
    <3> QED BY <3>1, <3>2
  <2>2. Moved(heap.objs, new, free) = X BY DEF Moved
  <2> HIDE DEF X, new
  <2> QED BY <2>1, <2>2
<1> HIDE DEF new, obj
<1>7. heap' = [base |-> heap.base, size |-> heap.size, current |-> c, objs |-> X]
  <2> HIDE DEF X
  <2> DEFINE h == heap.base
             z == heap.size
             y == heap.objs
             x == heap.current
  <2>1. heap = [base |-> h, size |-> z, current |-> x, objs |-> y] BY DEF GCTypes, HeapOK
  <2> HIDE DEF h, z, y, x
  <2> QED BY <1>6, <2>1 DEF h, z, x
<1>8. /\ heap'.base = heap.base /\ heap'.size = heap.size /\ heap'.current = c /\ heap'.objs = X
  <2> HIDE DEF X
  <2> QED BY <1>7
<1>9. /\ DOMAIN X = kept \union {free} /\ X[free] = new
      /\ \A o \in kept : X[o] = f[o] /\ o # free /\ o \in D
      /\ X = [o \in DOMAIN X |-> X[o]]
  OBVIOUS
<1>10. kept = {o \in D : o # free /\ (EndOf(f, o) <= free \/ next <= o)}
  <2>1. free + SizeOf(new) = next BY <1>5 DEF obj
  <2> QED BY <2>1 DEF EndOf
<1> HIDE DEF X, kept
<1>11. \A o \in D : EndOf(f, o) \in Nat /\ o < EndOf(f, o) /\ IsObject(f[o]) /\ SizeOf(f[o]) \in Nat
                    /\ SizeOf(f[o]) > 0
  BY <1>1, ObjectIs DEF EndOf
<1>12. next \in Nat /\ free < next /\ next <= b /\ next = free + s BY <1>1 DEF obj
<1>13. Settled(free) \subseteq kept /\ \A o \in Settled(free) : o \in D /\ o < free
  <2>1. Tiled(f, Settled(free), 0, free) BY DEF Sliding
  <2>2. \A o \in Settled(free) : EndOf(f, o) <= free BY <2>1 DEF Tiled
  <2>3. \A o \in Settled(free) : o \in D /\ o < free BY DEF Settled
  <2>4. \A o \in Settled(free) : o # free BY <1>1, <2>3
  <2> QED BY <1>10, <2>2, <2>3, <2>4
<1>14. Unmoved \ {a} \subseteq kept
  <2> SUFFICES ASSUME NEW o \in Unmoved \ {a} PROVE o \in kept
    OBVIOUS
  <2>1. b <= o /\ o \in D /\ o \in Nat BY <1>1
  <2>2. next <= o /\ o # free BY <1>1, <1>12, <2>1
  <2> QED BY <1>10, <2>1, <2>2
<1>15. HeapOK'
  <2>1. \A o \in DOMAIN X : IsObject(X[o]) BY <1>5, <1>9, <1>11
  <2>2. DOMAIN X \subseteq 0..c - 1
    <3>1. D \subseteq 0..c - 1 BY DEF GCTypes, HeapOK
    <3>2. free \in 0..c - 1 BY <1>1
    <3> QED BY <1>9, <3>1, <3>2
  <2>3. heap.base \in Bases /\ heap.size \in Nat /\ c \in 0..heap.size BY DEF GCTypes, HeapOK
  <2>4. heap' = [base |-> heap'.base, size |-> heap'.size, current |-> heap'.current,
                 objs |-> heap'.objs]
    BY <1>7, <1>8
  <2> QED BY <1>8, <1>9, <2>1, <2>2, <2>3, <2>4 DEF HeapOK
<1>16. gc'.from = b /\ gc'.live = gc.live /\ gc' = [from |-> gc'.from, live |-> gc'.live]
  BY <1>1
<1>17. Unmoved' = Unmoved \ {a}
  <2>1. Unmoved' = {o \in DOMAIN X : b <= o} BY <1>8, <1>16 DEF Unmoved
  <2>2. ASSUME NEW o \in DOMAIN X, b <= o PROVE o \in Unmoved \ {a}
    <3>1. o # free /\ o # a BY <1>1, <1>12, <2>2
    <3>2. o \in D BY <1>9, <3>1
    <3>3. a <= o BY <1>1, <2>2, <3>2
    <3> QED BY <3>1, <3>2, <3>3 DEF Unmoved
  <2>3. \A o \in Unmoved \ {a} : b <= o /\ o \in DOMAIN X BY <1>1, <1>9, <1>14
  <2> QED BY <2>1, <2>2, <2>3
<1>18. Settled(next)' = Settled(free) \union {free}
  <2>1. Settled(next)' = {o \in DOMAIN X : o < next} BY <1>8 DEF Settled
  <2>2. ASSUME NEW o \in DOMAIN X, o < next, o # free PROVE o \in Settled(free)
    <3>1. o \in kept BY <1>9, <2>2
    <3>2. o \in D /\ (EndOf(f, o) <= free \/ next <= o) BY <1>10, <3>1
    <3>3. o \in Nat /\ EndOf(f, o) \in Nat /\ o < EndOf(f, o) BY <1>1, <1>11, <3>2
    <3>4. o < free BY <1>1, <1>12, <2>2, <3>2, <3>3
    <3> QED BY <3>2, <3>4 DEF Settled
  <2>3. ASSUME NEW o \in Settled(free) PROVE o \in DOMAIN X /\ o < next
    <3>1. o \in DOMAIN X /\ o < free /\ o \in D BY <1>9, <1>13
    <3> QED BY <1>1, <1>12, <3>1
  <2>4. free \in DOMAIN X /\ free < next BY <1>9, <1>12
  <2> QED BY <2>1, <2>2, <2>3, <2>4
<1>19. \A o \in Settled(free) \union (Unmoved \ {a}) : o \in DOMAIN X /\ X[o] = f[o]
  BY <1>9, <1>13, <1>14
<1>20. Moving' = Moving \ {a}
  BY <1>8, <1>17, <1>19 DEF Moving
<1>21. \A p \in Moving \ {a} : X[p] = f[p] /\ p \in D
  BY <1>1, <1>19 DEF Moving
<1>22. \A p \in Moving \ {a} : Place(p)' = Place(p) /\ SizeOf(heap.objs[p])' = SizeOf(f[p])
  BY <1>8, <1>21 DEF Place
<1>23. Tiled(X, Settled(free) \union {free}, 0, next)
  <2>1. Tiled(f, Settled(free), 0, free) BY DEF Sliding
  <2>2. \A o \in Settled(free) : SizeOf(X[o]) = SizeOf(f[o]) BY <1>19
  <2>3. \A o \in Settled(free) \union {free} : SizeOf(X[o]) \in Nat /\ SizeOf(X[o]) > 0
    BY <1>1, <1>5, <1>9, <1>11, <1>13, <2>2
  <2>4. EndOf(X, free) = next BY <1>5, <1>9, <1>12 DEF EndOf
  <2>5. Settled(free) \in SUBSET Int BY <1>1, <1>13
  <2> HIDE DEF f
  <2>6. Tiled(X, Settled(free) \union {free}, 0, EndOf(X, free))
    BY <1>1, <2>1, <2>2, <2>3, <2>5, TiledAppend
  <2> QED BY <2>4, <2>6
<1>24. Tiled(X, Unmoved \ {a}, b, c)
  <2>1. \A o \in Unmoved \ {a} : SizeOf(X[o]) = SizeOf(f[o]) BY <1>19
  <2> HIDE DEF f
  <2> QED BY <1>1, <2>1, SizesKept
<1> DEFINE P(p) == Place(p)
           S(p) == SizeOf(f[p])
           M == Moving
           N == Moving \ {a}
<1>25. /\ \A p \in M : p \in Nat /\ a <= p /\ P(p) <= p /\ P(p) \in Nat /\ S(p) \in Nat
                       /\ f[p].fwd \in Bases \X Nat
       /\ \A p, q \in M : p < q => P(p) + S(p) <= P(q)
       /\ \A p \in M : P(p) = free \/ \E q \in M : q < p /\ P(q) + S(q) = P(p)
       /\ \A p \in M : P(p) + S(p) = gc.live \/ \E q \in M : p < q /\ P(q) = P(p) + S(p)
  <2>1. \A p \in M : p \in D /\ a <= p BY <1>1 DEF Moving, Unmoved
  <2>2. \A p \in M : f[p].fwd \in Bases \X Nat /\ P(p) <= p BY DEF Sliding
  <2>3. \A p \in M : P(p) \in Nat BY <2>2 DEF Place
  <2> QED BY <1>1, <1>11, <2>1, <2>2, <2>3 DEF Sliding
<1>26. a \in M /\ P(a) = free /\ S(a) = s BY <1>3, <1>4 DEF obj
<1>27. request' = request BY DEF Relocate
<1> HIDE DEF P, S, M, N
<1>28. N = M \ {a} BY DEF M, N
<1>29. ASSUME NEW p \in N PROVE p \in M /\ a < p /\ next <= P(p) /\ P(p) <= p
  <2>1. p \in M /\ p # a BY <1>28
  <2>2. p \in Nat /\ a <= p /\ P(p) <= p BY <1>25, <2>1
  <2>3. a < p BY <1>1, <2>1, <2>2
  <2>4. P(a) + S(a) <= P(p) BY <1>25, <1>26, <2>1, <2>3
  <2> QED BY <1>12, <1>26, <2>1, <2>2, <2>3, <2>4
<1>30. \A p, q \in N : p < q => P(p) + S(p) <= P(q)
  BY <1>25, <1>28
<1>31. ASSUME NEW p \in N PROVE P(p) = next \/ \E q \in N : q < p /\ P(q) + S(q) = P(p)
  <2>1. P(p) # free BY <1>12, <1>25, <1>29
  <2>2. PICK q \in M : q < p /\ P(q) + S(q) = P(p) BY <1>25, <1>29, <2>1
  <2>3. CASE q = a BY <1>12, <1>26, <2>2, <2>3
  <2>4. CASE q # a BY <1>28, <2>2, <2>4
  <2> QED BY <2>3, <2>4
<1>32. ASSUME NEW p \in N PROVE P(p) + S(p) = gc.live \/ \E q \in N : p < q /\ P(q) = P(p) + S(p)
  <2>1. CASE \E q \in M : p < q /\ P(q) = P(p) + S(p)
    <3>1. PICK q \in M : p < q /\ P(q) = P(p) + S(p) BY <2>1
    <3>2. q # a BY <1>1, <1>25, <1>29, <3>1
    <3> QED BY <1>28, <3>1, <3>2
  <2> QED BY <1>25, <1>29, <2>1
<1>33. N = {} => next = gc.live
  <2> SUFFICES ASSUME N = {} PROVE next = gc.live
    OBVIOUS
  <2>1. \A q \in M : ~(a < q) BY <1>1, <1>28
  <2>2. P(a) + S(a) = gc.live BY <1>25, <1>26, <2>1
  <2> QED BY <1>12, <1>26, <2>2
<1>34. /\ \A p \in Moving' : /\ (heap.objs[p].fwd)' \in Bases \X Nat
                             /\ next <= Place(p)' /\ Place(p)' <= p
       /\ \A p, q \in Moving' : p < q => Place(p)' + SizeOf(heap.objs[p])' <= Place(q)'
       /\ \A p \in Moving' : \/ Place(p)' = next
                             \/ \E q \in Moving' : q < p /\ Place(q)' + SizeOf(heap.objs[q])' = Place(p)'
       /\ \A p \in Moving' : \/ Place(p)' + SizeOf(heap.objs[p])' = gc'.live
                             \/ \E q \in Moving' : p < q /\ Place(q)' = Place(p)' + SizeOf(heap.objs[p])'
       /\ Moving' = {} => next = gc'.live
  <2>1. Moving' = N BY <1>20 DEF N
  <2>2. \A p \in N : Place(p)' = P(p) /\ SizeOf(heap.objs[p])' = S(p) BY <1>22 DEF N, P, S
  <2>3. \A p \in N : (heap.objs[p].fwd)' \in Bases \X Nat
    <3>1. \A p \in N : X[p] = f[p] BY <1>21 DEF N
    <3>2. \A p \in N : f[p].fwd \in Bases \X Nat BY <1>25, <1>29
    <3> HIDE DEF f
    <3> QED BY <1>8, <3>1, <3>2
  <2>4. gc'.live = gc.live BY <1>16
  <2> QED BY <2>1, <2>2, <2>3, <2>4, <1>29, <1>30, <1>31, <1>32, <1>33
<1>35. gc'.live \in Nat /\ gc'.live + WordsOf(request'.kind, request'.n) <= heap'.size
  BY <1>8, <1>16, <1>27 DEF Sliding
<1>36. gc'.from \in 0..heap'.current /\ next \in 0..gc'.from
  BY <1>1, <1>8, <1>12, <1>16
<1>37. Sliding(next)'
  BY <1>8, <1>16, <1>17, <1>18, <1>23, <1>24, <1>34, <1>35, <1>36 DEF Sliding
<1>38. \A o \in DOMAIN X : o # free => X[o] = f[o] BY <1>9
<1>39. DOMAIN X \subseteq D \union {free} BY <1>9
<1> QED BY <1>3, <1>4, <1>5, <1>8, <1>9, <1>12, <1>15, <1>17, <1>18, <1>19, <1>20, <1>22, <1>37, <1>38,
           <1>39 DEF obj

LEMMA RelocateTypes ==
  ASSUME GCTypes, Relocate
  PROVE  GCTypes'
<1>1. /\ phase = "relocate" /\ phase' = "relocate" /\ UNCHANGED <<interpreter, request>>
  BY DEF Relocate
<1>2. PICK free \in 0..gc.from : Sliding(free) BY <1>1 DEF GCTypes
<1>3. HeapOK' /\ \E x \in 0..gc'.from : Sliding(x)'
  <2>1. CASE ~heap.objs[gc.from].mark
    <3>1. heap' = heap /\ Sliding(free)' BY <1>2, <2>1, PassOver
    <3>2. HeapOK' BY <3>1 DEF GCTypes, HeapOK
    <3>3. free \in 0..gc'.from BY <3>1 DEF Sliding
    <3> QED BY <3>1, <3>2, <3>3
  <2>2. CASE heap.objs[gc.from].mark
    <3>1. PICK next : next = free + SizeOf(heap.objs[gc.from]) OBVIOUS
    <3>2. HeapOK' /\ Sliding(next)' BY <1>2, <2>2, <3>1, MoveDown
    <3>3. next \in 0..gc'.from BY <3>2 DEF Sliding
    <3> QED BY <3>2, <3>3
  <2> QED BY <2>1, <2>2
<1>4. program' = program /\ stack' = stack /\ size' = size /\ frames' = frames /\ request' = request
  BY <1>1 DEF interpreter
<1>5. FramesOK' BY <1>4 DEF GCTypes, FramesOK, Frame
<1>6. RequestOK' BY <1>1, <1>4 DEF GCTypes, RequestOK, Frame, StackWords
<1>7. StackWords' = StackWords BY <1>4 DEF StackWords
<1> QED BY <1>1, <1>3, <1>4, <1>5, <1>6, <1>7 DEF GCTypes

(* Relocation is over: the live objects fill the heap.                     *)
LEMMA FinishIs ==
  ASSUME GCTypes, NEW free, Sliding(free), FinishCompact
  PROVE  /\ HeapOK' /\ gc.live = free /\ Moving = {}
         /\ heap'.base = heap.base /\ heap'.size = heap.size /\ heap'.current = free
         /\ DOMAIN heap'.objs = Settled(free)
         /\ \A o \in Settled(free) : o \in DOMAIN heap.objs /\ heap'.objs[o] = heap.objs[o]
         /\ Tiled(heap'.objs, Settled(free), 0, free)
         /\ free \in Nat /\ free <= heap.current
<1> DEFINE D == DOMAIN heap.objs
           X == [o \in {x \in D : x < gc.live} |-> heap.objs[o]]
           l == gc.live
<1>1. /\ gc.from >= heap.current /\ gc.from \in 0..heap.current /\ heap.current \in Nat
      /\ D \subseteq 0..heap.current - 1 /\ free \in 0..gc.from
  BY DEF FinishCompact, Sliding, GCTypes, HeapOK
<1>2. Moving = {}
  <2>1. ASSUME NEW o \in Unmoved PROVE FALSE
    <3>1. o \in D /\ gc.from <= o BY DEF Unmoved
    <3> QED BY <1>1, <3>1
  <2> QED BY <2>1 DEF Moving
<1>3. l = free BY <1>2 DEF Sliding
<1>4. heap' = [base |-> heap.base, size |-> heap.size, current |-> l, objs |-> X]
  <2> DEFINE b == heap.base
             s == heap.size
             c == heap.current
             f == heap.objs
             h == [heap EXCEPT !.current = l]
             Y(y) == [o \in {x \in DOMAIN y : x < gc.live} |-> y[o]]
  <2>1. heap = [base |-> b, size |-> s, current |-> c, objs |-> f] BY DEF GCTypes, HeapOK
  <2>2. heap' = [h EXCEPT !.objs = Y(h.objs)] BY DEF FinishCompact
  <2>5. X = Y(f) OBVIOUS
  <2> HIDE DEF b, s, c, f, l, Y
  <2>3. h = [base |-> b, size |-> s, current |-> l, objs |-> f]
    BY <2>1
  <2> HIDE DEF h
  <2>4. h.objs = f BY <2>3
  <2>6. heap' = [base |-> b, size |-> s, current |-> l, objs |-> Y(f)]
    BY <2>2, <2>3, <2>4
  <2> HIDE DEF X
  <2> QED BY <2>5, <2>6 DEF b, s
<1>5. DOMAIN X = Settled(free) /\ X = [o \in DOMAIN X |-> X[o]]
      /\ \A o \in Settled(free) : o \in D /\ X[o] = heap.objs[o]
  BY <1>3 DEF Settled
<1>9. \A o \in D : IsObject(heap.objs[o]) BY ObjectIs
<1> HIDE DEF X, D
<1>6. /\ heap'.base = heap.base /\ heap'.size = heap.size /\ heap'.current = free /\ heap'.objs = X
      /\ heap' = [base |-> heap'.base, size |-> heap'.size, current |-> heap'.current,
                  objs |-> heap'.objs]
  BY <1>3, <1>4
<1>7. HeapOK'
  <2>1. \A o \in DOMAIN X : IsObject(X[o]) BY <1>5, <1>9
  <2>2. heap.base \in Bases /\ heap.size \in Nat /\ free \in 0..heap.size
    BY <1>1 DEF GCTypes, HeapOK
  <2>3. DOMAIN X \subseteq 0..free - 1
    <3> SUFFICES ASSUME NEW o \in DOMAIN X PROVE o \in 0..free - 1
      OBVIOUS
    <3>1. o < free /\ o \in D BY <1>5 DEF Settled, D
    <3>2. o \in Nat /\ free \in Nat BY <1>1, <3>1
    <3> QED BY <3>1, <3>2
  <2> QED BY <1>5, <1>6, <2>1, <2>2, <2>3 DEF HeapOK
<1>8. Tiled(X, Settled(free), 0, free)
  <2>1. Tiled(heap.objs, Settled(free), 0, free) BY DEF Sliding
  <2>2. \A o \in Settled(free) : SizeOf(X[o]) = SizeOf(heap.objs[o]) BY <1>5
  <2> QED BY <2>1, <2>2, SizesKept
<1> QED BY <1>1, <1>2, <1>3, <1>5, <1>6, <1>7, <1>8 DEF D

LEMMA FinishTypes ==
  ASSUME GCTypes, FinishCompact
  PROVE  GCTypes'
<1>1. /\ phase = "relocate" /\ phase' = "again" /\ UNCHANGED <<interpreter, request>>
  BY DEF FinishCompact
<1>2. PICK free \in 0..gc.from : Sliding(free) BY <1>1 DEF GCTypes
<1>3. HeapOK' /\ Tiled(heap'.objs, DOMAIN heap'.objs, 0, heap'.current)
  BY <1>2, FinishIs
<1>4. program' = program /\ stack' = stack /\ size' = size /\ frames' = frames /\ request' = request
  BY <1>1 DEF interpreter
<1>5. FramesOK' BY <1>4 DEF GCTypes, FramesOK, Frame
<1>6. RequestOK' BY <1>1, <1>4 DEF GCTypes, RequestOK, Frame, StackWords
<1>7. StackWords' = StackWords BY <1>4 DEF StackWords
<1> QED BY <1>1, <1>3, <1>4, <1>5, <1>6, <1>7 DEF GCTypes

LEMMA ExecuteTypes ==
  ASSUME GCTypes, Execute
  PROVE  GCTypes'
<1>1. CASE Const
  <2>1. Plain \in Words /\ phase = "run" /\ 0 <= Depth /\ Replace(0, Plain)
    BY <1>1, DepthType DEF Const, Running, Words
  <2> QED BY <2>1, ReplaceTypes
<1>2. CASE Dup
  <2>1. Depth > 0 /\ phase = "run" /\ Replace(0, Top(0)) BY <1>2 DEF Dup, Running
  <2>2. Top(0) \in Words /\ 0 <= Depth BY <2>1, TopWord, DepthType
  <2> QED BY <2>1, <2>2, ReplaceTypes
<1>3. CASE \E i \in Variables : Load(i) \/ Store(i)
  <2>1. PICK i \in Variables : Load(i) \/ Store(i) BY <1>3
  <2>2. CASE Load(i)
    <3>1. i \in 0..StackWords
      <4>1. i \in 0..size - 1 /\ size \in Nat /\ StackWords \in Nat /\ size <= StackWords
        BY VariableType, DepthType
      <4> QED BY <4>1
    <3>2. stack[i] \in Words /\ 0 <= Depth BY <3>1, StackWord, DepthType
    <3>3. phase = "run" /\ Replace(0, stack[i]) BY <2>2 DEF Load, Running
    <3> QED BY <3>2, <3>3, ReplaceTypes
  <2> QED BY <2>1, <2>2, StoreTypes
<1>4. CASE \E n \in program.arrays : NewArray(n)
  BY <1>4, NewArrayTypes, Numbers DEF GCTypes
<1>5. CASE \E n \in program.sexps : NewSexp(n)
  BY <1>5, NewSexpTypes, Numbers DEF GCTypes
<1>6. CASE \E n \in program.closures : NewClosure(n)
  BY <1>6, NewClosureTypes, Numbers DEF GCTypes
<1>7. CASE \E args \in 0..1 : Begin(args) BY <1>7, BeginTypes
<1> QED BY <1>1, <1>2, <1>3, <1>4, <1>5, <1>6, <1>7, DropTypes, SwapTypes, ElemTypes, StaTypes,
           EndTypes, NewStringTypes, RenderStringTypes DEF Execute

LEMMA CollectTypes ==
  ASSUME GCTypes, Collect
  PROVE  GCTypes'
BY AllocateTypes, StartMarkTypes, MarkRootTypes, MarkObjectTypes, VisitFieldTypes, CompactTypes,
   CompactGarbageTypes, RelocateTypes, FinishTypes DEF Collect

LEMMA InitTypes ==
  ASSUME GCInit
  PROVE  GCTypes
<1> DEFINE r == [base |-> Globals + 2, args |-> 2]
<1>1. /\ program \in Programs /\ phase = "run" /\ stack = [i \in 0..StackWords |-> Plain]
      /\ size = Globals + 2 + Locals /\ frames = <<r>>
      /\ heap = [base |-> CHOOSE base \in Bases : TRUE, size |-> MinHeap, current |-> 0,
                 objs |-> [o \in {} |-> None]]
  BY DEF GCInit
<1>2. /\ Globals \in Nat /\ Locals \in Nat /\ MinHeap \in Nat /\ StackWords \in Nat
      /\ StackWords >= Globals + 2 + Locals
  BY <1>1, Numbers
<1>3. size \in 2..StackWords BY <1>1, <1>2
<1>4. stack \in [0..StackWords -> Words] BY <1>1 DEF Words
<1>5. FramesOK
  <2>1. r \in FrameRecords BY <1>2 DEF FrameRecords
  <2>2. r.base = Globals + 2 OBVIOUS
  <2> HIDE DEF r
  <2>3. frames \in Seq(FrameRecords) /\ frames # <<>> /\ Len(frames) = 1 /\ frames[1] = r
    BY <1>1, <2>1
  <2>4. Frame.base + Locals <= size BY <1>1, <1>2, <2>2, <2>3 DEF Frame
  <2>5. /\ \A k \in 1..Len(frames) : frames[k].base >= Globals + 2 BY <1>2, <2>2, <2>3
  <2>6. 1..Len(frames) - 1 = {} BY <2>3
  <2> QED BY <2>3, <2>4, <2>5, <2>6 DEF FramesOK
<1> DEFINE b == CHOOSE base \in Bases : TRUE
           X == [o \in {} |-> None]
<1>6. b \in Bases
  <2>1. Bases # {}
    <3>1. Cardinality({}) = 0 BY FS_EmptySet
    <3>2. Cardinality(Bases) > 1 BY GCAssumption
    <3> QED BY <3>1, <3>2
  <2> QED BY <2>1
<1> HIDE DEF b
<1>7. DOMAIN X = {} /\ X = [o \in DOMAIN X |-> X[o]] OBVIOUS
<1> HIDE DEF X
<1>8. /\ heap.base = b /\ heap.size = MinHeap /\ heap.current = 0 /\ heap.objs = X
      /\ heap = [base |-> heap.base, size |-> heap.size, current |-> heap.current,
                 objs |-> heap.objs]
  BY <1>1 DEF b, X
<1>9. HeapOK BY <1>2, <1>6, <1>7, <1>8 DEF HeapOK
<1>10. Tiled(heap.objs, DOMAIN heap.objs, 0, heap.current) BY <1>7, <1>8 DEF Tiled
<1> QED BY <1>1, <1>3, <1>4, <1>5, <1>9, <1>10 DEF GCTypes

LEMMA StutterTypes ==
  ASSUME GCTypes, UNCHANGED gcVars
  PROVE  GCTypes'
<1>1. /\ program' = program /\ phase' = phase /\ stack' = stack /\ size' = size /\ frames' = frames
      /\ request' = request /\ heap' = heap /\ gc' = gc
  BY DEF gcVars
<1>2. FramesOK' BY <1>1 DEF GCTypes, FramesOK, Frame
<1>3. HeapOK' BY <1>1 DEF GCTypes, HeapOK
<1>4. RequestOK' = RequestOK BY <1>1 DEF RequestOK, Frame, StackWords
<1>5. StackWords' = StackWords BY <1>1 DEF StackWords
<1>6. \A free : Sliding(free)' = Sliding(free)
  <2> SUFFICES ASSUME NEW free PROVE Sliding(free)' = Sliding(free)
    OBVIOUS
  <2>1. Settled(free)' = Settled(free) /\ Unmoved' = Unmoved BY <1>1 DEF Settled, Unmoved
  <2>2. Moving' = Moving BY <1>1, <2>1 DEF Moving
  <2>3. \A p : Place(p)' = Place(p) BY <1>1 DEF Place
  <2> QED BY <1>1, <2>1, <2>2, <2>3 DEF Sliding
<1> QED BY <1>1, <1>2, <1>3, <1>4, <1>5, <1>6 DEF GCTypes

(* Whatever the program does: the objects are laid out one behind the      *)
(* other, and relocation moves each to where the one before it ends,       *)
(* without ever overwriting one that has not been moved.                   *)
THEOREM GCTypesInvariant == GCSpec => []GCTypes
<1>1. GCInit => GCTypes BY InitTypes
<1>2. GCTypes /\ [GCNext]_gcVars => GCTypes'
  BY ExecuteTypes, CollectTypes, StutterTypes DEF GCNext
<1> QED BY <1>1, <1>2, PTL DEF GCSpec

(* The iterators of the collector always stand at an object, or at the end *)
(* of the heap, and objects fill the heap exactly.                         *)
THEOREM GCTypesCorrect == GCSpec => []GCTypeOK
<1>1. ASSUME GCTypes PROVE GCTypeOK
  <2>1. heap.current \in 0..heap.size BY <1>1 DEF GCTypes, HeapOK
  <2>2. CASE phase = "relocate"
    <3>1. PICK free : Sliding(free) BY <1>1, <2>2 DEF GCTypes
    <3>2. gc.from = heap.current \/ gc.from \in Unmoved BY <3>1 DEF Sliding, Tiled
    <3>3. gc.from \in DOMAIN heap.objs \union {heap.current} BY <3>2 DEF Unmoved
    <3> QED BY <1>1, <2>1, <2>2, <3>3 DEF GCTypes, GCTypeOK
  <2>3. CASE phase # "relocate"
    <3>1. Tiled(heap.objs, DOMAIN heap.objs, 0, heap.current) BY <1>1, <2>3 DEF GCTypes
    <3>2. \A o \in DOMAIN heap.objs : NextObj(o) = EndOf(heap.objs, o) BY DEF NextObj, EndOf
    <3>3. \A o \in DOMAIN heap.objs :
            /\ o = 0 \/ \E p \in DOMAIN heap.objs : NextObj(p) = o
            /\ NextObj(o) = heap.current \/ NextObj(o) \in DOMAIN heap.objs
      BY <3>1, <3>2 DEF Tiled
    <3> QED BY <1>1, <2>1, <2>3, <3>3 DEF GCTypes, GCTypeOK
  <2> QED BY <2>2, <2>3
<1> QED BY <1>1, GCTypesInvariant, PTL

-----------------------------------------------------------------------------
(* Exactness *)

LEMMA SoundMonotone ==
  ASSUME NEW b, NEW w, NEW R, NEW T, R \subseteq T, SoundAt(b, w, R)
  PROVE  SoundAt(b, w, T)
BY DEF SoundAt

LEMMA ObjectEnds ==
  ASSUME GCTypes, phase # "relocate", NEW o \in DOMAIN heap.objs
  PROVE  /\ o \in Nat /\ NextObj(o) \in Nat /\ o + Header <= heap.current
         /\ NextObj(o) \in Ends /\ o < NextObj(o) /\ o < heap.current
         /\ \A b \in Ends : o < b => NextObj(o) <= b
         /\ 0 \in DOMAIN heap.objs
<1>1. /\ Tiled(heap.objs, DOMAIN heap.objs, 0, heap.current) /\ NextObj(o) = EndOf(heap.objs, o)
      /\ heap.current \in Nat
  BY DEF GCTypes, HeapOK, NextObj, EndOf
<1>2. o \in Nat /\ SizeOf(heap.objs[o]) \in Nat /\ SizeOf(heap.objs[o]) >= 2 BY ObjectIs
<1>3. /\ EndOf(heap.objs, o) <= heap.current
      /\ EndOf(heap.objs, o) = heap.current \/ EndOf(heap.objs, o) \in DOMAIN heap.objs
      /\ \A p \in DOMAIN heap.objs : o < p => EndOf(heap.objs, o) <= p
      /\ 0 = heap.current \/ 0 \in DOMAIN heap.objs
  BY <1>1 DEF Tiled
<1>4. EndOf(heap.objs, o) = o + SizeOf(heap.objs[o]) BY DEF EndOf
<1>5. /\ NextObj(o) \in Nat /\ o + 2 <= heap.current /\ o < NextObj(o) /\ o < heap.current
  BY <1>1, <1>2, <1>3, <1>4
<1>6. 0 \in DOMAIN heap.objs BY <1>1, <1>2, <1>3, <1>5
<1> QED BY <1>1, <1>2, <1>3, <1>5, <1>6 DEF Ends, Header

LEMMA SoundRefers ==
  ASSUME GCTypes, phase # "relocate", NEW w \in Words, w # Plain, SoundIn(w, DOMAIN heap.objs)
  PROVE  RefersToObject(w) /\ InHeap(w) /\ HeaderOf(w) \in DOMAIN heap.objs
<1>1. w[1] = heap.base /\ HeaderOf(w) \in DOMAIN heap.objs BY DEF SoundIn, SoundAt
<1>2. w[2] \in Nat BY WordType
<1>3. HeaderOf(w) + Header <= heap.current BY <1>1, ObjectEnds
<1>4. w[2] <= heap.current BY <1>2, <1>3 DEF HeaderOf, Header
<1> QED BY <1>1, <1>4 DEF RefersToObject, InHeap

(* R has all that the words of S and its own objects refer to.             *)
ClosedIn(S, R) ==
  /\ \A w \in S : RefersToObject(w) => HeaderOf(w) \in R
  /\ \A o \in R : \A i \in DOMAIN heap.objs[o].fields :
       RefersToObject(heap.objs[o].fields[i]) => HeaderOf(heap.objs[o].fields[i]) \in R

LEMMA ReachedIs ==
  ASSUME NEW S
  PROVE  /\ ReachedFrom(S) = {o \in DOMAIN heap.objs :
                                \A R \in SUBSET DOMAIN heap.objs : ClosedIn(S, R) => o \in R}
         /\ ReachedFrom(S) \subseteq DOMAIN heap.objs
         /\ ClosedIn(S, ReachedFrom(S))
         /\ \A R \in SUBSET DOMAIN heap.objs : ClosedIn(S, R) => ReachedFrom(S) \subseteq R
<1>1. ReachedFrom(S) = {o \in DOMAIN heap.objs :
                          \A R \in SUBSET DOMAIN heap.objs : ClosedIn(S, R) => o \in R}
  BY DEF ReachedFrom, ClosedIn
<1>2. \A w \in S : RefersToObject(w) => HeaderOf(w) \in ReachedFrom(S)
  BY <1>1 DEF ClosedIn, RefersToObject
<1>3. ASSUME NEW o \in ReachedFrom(S), NEW i \in DOMAIN heap.objs[o].fields,
             RefersToObject(heap.objs[o].fields[i])
      PROVE  HeaderOf(heap.objs[o].fields[i]) \in ReachedFrom(S)
  <2> DEFINE w == heap.objs[o].fields[i]
  <2>1. HeaderOf(w) \in DOMAIN heap.objs BY <1>3 DEF RefersToObject
  <2>2. ASSUME NEW R \in SUBSET DOMAIN heap.objs, ClosedIn(S, R) PROVE HeaderOf(w) \in R
    <3>1. o \in R BY <1>1, <2>2
    <3> QED BY <1>3, <2>2, <3>1 DEF ClosedIn
  <2> QED BY <1>1, <2>1, <2>2
<1>4. ClosedIn(S, ReachedFrom(S)) BY <1>2, <1>3 DEF ClosedIn
<1> QED BY <1>1, <1>4

(* What can be reached does not depend on bits and forward addresses.      *)
LEMMA ReachedKept ==
  ASSUME NEW S, DOMAIN heap'.objs = DOMAIN heap.objs,
         heap'.base = heap.base, heap'.current = heap.current,
         \A o \in DOMAIN heap.objs : heap'.objs[o].fields = heap.objs[o].fields
  PROVE  ReachedFrom(S)' = ReachedFrom(S)
<1>1. \A w : RefersToObject(w)' = RefersToObject(w) BY DEF RefersToObject, InHeap
<1>2. \A R \in SUBSET DOMAIN heap.objs : ClosedIn(S, R)' = ClosedIn(S, R)
  BY <1>1 DEF ClosedIn
<1>3. ReachedFrom(S)' = {o \in DOMAIN heap'.objs :
                           \A R \in SUBSET DOMAIN heap'.objs : ClosedIn(S, R)' => o \in R}
  BY DEF ReachedFrom, ClosedIn
<1> QED BY <1>2, <1>3, ReachedIs

-----------------------------------------------------------------------------
(* Words of initialised programs: the interpreter                          *)

LEMMA RunSound ==
  ASSUME phase' = "run", stack'[0] = Plain,
         \A i \in 0..size' - 1 : SoundAt(heap'.base, stack'[i], DOMAIN heap'.objs),
         \A o \in DOMAIN heap'.objs : \A i \in DOMAIN heap'.objs[o].fields :
           SoundAt(heap'.base, heap'.objs[o].fields[i], DOMAIN heap'.objs),
         NoBits'
  PROVE  GCSound'
BY DEF GCSound, WordsSound, SoundIn, FieldsIn, CollectionIsExact

LEMMA RunKeeps ==
  ASSUME GCSound, phase = "run", phase' = "run", heap' = heap, stack'[0] = Plain,
         \A i \in 0..size' - 1 : SoundIn(stack'[i], DOMAIN heap.objs)
  PROVE  GCSound'
<1>1. NoBits' BY DEF GCSound, NoBits
<1>2. \A i \in 0..size' - 1 : SoundAt(heap'.base, stack'[i], DOMAIN heap'.objs) BY DEF SoundIn
<1>3. \A o \in DOMAIN heap'.objs : \A i \in DOMAIN heap'.objs[o].fields :
        SoundAt(heap'.base, heap'.objs[o].fields[i], DOMAIN heap'.objs)
  BY DEF GCSound, FieldsIn, SoundIn
<1> QED BY <1>1, <1>2, <1>3, RunSound

LEMMA SoundStack ==
  ASSUME GCTypes, GCSound, phase \in {"run", "alloc", "mark", "again"}, NEW i \in 0..size - 1
  PROVE  SoundIn(stack[i], DOMAIN heap.objs)
BY DEF GCSound, WordsSound

LEMMA SoundTop ==
  ASSUME GCTypes, GCSound, phase = "run", NEW k \in Nat, k < Depth
  PROVE  SoundIn(Top(k), DOMAIN heap.objs)
<1>1. size - 1 - k \in 0..size - 1 BY DepthType
<1> QED BY <1>1, SoundStack DEF Top

LEMMA SoundVariable ==
  ASSUME AllScanned, GCTypes, GCSound, phase = "run", NEW i \in Variables
  PROVE  i \in Nat /\ i >= 2 /\ i < size /\ SoundIn(stack[i], DOMAIN heap.objs)
<1>1. i \in 0..size - 1 /\ i >= 2 BY VariableType DEF AllScanned
<1> QED BY <1>1, SoundStack, DepthType

LEMMA PlainSound ==
  ASSUME NEW R
  PROVE  SoundIn(Plain, R)
BY DEF SoundIn, SoundAt

LEMMA ReplaceSound ==
  ASSUME GCTypes, GCSound, phase = "run", NEW k \in Nat, NEW w, k <= Depth,
         SoundIn(w, DOMAIN heap.objs), Replace(k, w)
  PROVE  GCSound'
<1>1. /\ phase' = "run" /\ heap' = heap /\ size' = size - k + 1
      /\ stack' = [stack EXCEPT ![size - k] = w]
      /\ stack \in [0..StackWords -> Words] /\ stack[0] = Plain
  BY DEF Replace, GCTypes, GCSound
<1>2. size - k \in Nat /\ size - k >= 2 /\ size \in Nat /\ StackWords \in Nat /\ size <= StackWords
  BY DepthType
<1>3. stack'[0] = Plain BY <1>1, <1>2
<1>4. ASSUME NEW i \in 0..size' - 1
      PROVE  SoundIn(stack'[i], DOMAIN heap.objs)
  <2>1. i \in 0..StackWords /\ (i # size - k => i \in 0..size - 1) BY <1>1, <1>2
  <2>2. stack'[i] = IF i = size - k THEN w ELSE stack[i] BY <1>1, <2>1
  <2> QED BY <2>1, <2>2, SoundStack
<1> QED BY <1>1, <1>3, <1>4, RunKeeps

LEMMA StoreSound ==
  ASSUME AllScanned, GCTypes, GCSound, NEW i \in Variables, Store(i)
  PROVE  GCSound'
<1>1. /\ phase = "run" /\ phase' = "run" /\ heap' = heap /\ size' = size
      /\ stack' = [stack EXCEPT ![i] = Top(0)] /\ Depth > 0
      /\ stack \in [0..StackWords -> Words] /\ stack[0] = Plain
  BY DEF Store, Running, GCTypes, GCSound
<1>2. i >= 2 /\ i \in Nat /\ size <= StackWords /\ size \in Nat /\ StackWords \in Nat
  BY <1>1, SoundVariable, DepthType
<1>3. SoundIn(Top(0), DOMAIN heap.objs) BY <1>1, SoundTop
<1>4. stack'[0] = Plain BY <1>1, <1>2
<1>5. ASSUME NEW j \in 0..size' - 1
      PROVE  SoundIn(stack'[j], DOMAIN heap.objs)
  <2>1. j \in 0..StackWords /\ j \in 0..size - 1 BY <1>1, <1>2
  <2>2. stack'[j] = IF j = i THEN Top(0) ELSE stack[j] BY <1>1, <2>1
  <2> QED BY <1>1, <1>3, <2>1, <2>2, SoundStack
<1> QED BY <1>1, <1>4, <1>5, RunKeeps

LEMMA SwapSound ==
  ASSUME GCTypes, GCSound, Swap
  PROVE  GCSound'
<1> DEFINE a == Top(0)
           b == Top(1)
<1>1. /\ phase = "run" /\ phase' = "run" /\ heap' = heap /\ size' = size
      /\ stack' = [stack EXCEPT ![size - 1] = b, ![size - 2] = a] /\ Depth > 1
      /\ stack \in [0..StackWords -> Words] /\ stack[0] = Plain
  BY DEF Swap, Running, GCTypes, GCSound
<1>2. /\ size <= StackWords /\ size \in Nat /\ StackWords \in Nat /\ size >= 4
  BY <1>1, DepthType
<1>3. SoundIn(a, DOMAIN heap.objs) /\ SoundIn(b, DOMAIN heap.objs)
  BY <1>1, SoundTop, DepthType
<1> HIDE DEF a, b
<1>4. stack'[0] = Plain BY <1>1, <1>2
<1>5. ASSUME NEW j \in 0..size' - 1
      PROVE  SoundIn(stack'[j], DOMAIN heap.objs)
  <2>1. j \in 0..StackWords /\ j \in 0..size - 1 BY <1>1, <1>2
  <2>2. stack'[j] = IF j = size - 2 THEN a ELSE IF j = size - 1 THEN b ELSE stack[j]
    BY <1>1, <1>2, <2>1
  <2> QED BY <1>1, <1>3, <2>1, <2>2, SoundStack
<1> QED BY <1>1, <1>4, <1>5, RunKeeps

LEMMA DropSound ==
  ASSUME GCTypes, GCSound, Drop
  PROVE  GCSound'
<1>1. /\ phase = "run" /\ phase' = "run" /\ heap' = heap /\ size' = size - 1
      /\ stack' = stack /\ stack[0] = Plain /\ size \in Nat
  BY DepthType DEF Drop, Running, GCSound
<1>2. ASSUME NEW j \in 0..size' - 1
      PROVE  SoundIn(stack'[j], DOMAIN heap.objs)
  <2>1. j \in 0..size - 1 BY <1>1
  <2> QED BY <1>1, <2>1, SoundStack
<1> QED BY <1>1, <1>2, RunKeeps

LEMMA ElemSound ==
  ASSUME GCTypes, GCSound, Elem
  PROVE  GCSound'
<1> DEFINE o == HeaderOf(Top(1))
<1>1. o \in DOMAIN heap.objs /\ phase = "run" /\ Depth > 1
  BY DEF Elem, IsAggregate, RefersToObject, Running
<1>2. PICK i \in DOMAIN heap.objs[o].fields : Replace(2, heap.objs[o].fields[i])
  BY DEF Elem
<1>3. 2 <= Depth BY <1>1, DepthType
<1>4. SoundIn(heap.objs[o].fields[i], DOMAIN heap.objs) BY <1>1 DEF GCSound, FieldsIn
<1> QED BY <1>1, <1>2, <1>3, <1>4, ReplaceSound

LEMMA StaSound ==
  ASSUME GCTypes, GCSound, Sta
  PROVE  GCSound'
<1> DEFINE o == HeaderOf(Top(2))
           w == Top(0)
           D == DOMAIN heap.objs
<1>1. /\ o \in D /\ phase = "run" /\ phase' = "run" /\ Depth > 2 /\ size' = size - 2
      /\ stack' = [stack EXCEPT ![size - 3] = w]
      /\ stack \in [0..StackWords -> Words] /\ stack[0] = Plain
  BY DEF Sta, IsAggregate, RefersToObject, Running, GCTypes, GCSound
<1>2. PICK i \in DOMAIN heap.objs[o].fields : heap' = [heap EXCEPT !.objs[o].fields[i] = w]
  BY DEF Sta
<1>3. SoundIn(w, D) /\ w \in Words BY <1>1, SoundTop, TopWord, DepthType
<1>4. /\ heap'.objs = StoredIn(o, i, w) /\ DOMAIN heap'.objs = D /\ heap'.base = heap.base
  BY <1>1, <1>2, <1>3, StoreField
<1> HIDE DEF w, o
<1>5. ASSUME NEW p \in D
      PROVE  /\ heap'.objs[p].mark = heap.objs[p].mark /\ heap'.objs[p].enq = heap.objs[p].enq
             /\ heap'.objs[p].fields = IF p = o THEN [heap.objs[o].fields EXCEPT ![i] = w]
                                       ELSE heap.objs[p].fields
  <2>1. CASE p = o
    <3>1. IsObject(heap.objs[o]) BY <1>1, ObjectIs
    <3>2. heap'.objs[o] = [heap.objs[o] EXCEPT !.fields[i] = w] BY <1>1, <1>4 DEF StoredIn
    <3> QED BY <1>3, <2>1, <3>1, <3>2, FieldStored
  <2>2. CASE p # o BY <1>4, <2>2 DEF StoredIn
  <2> QED BY <2>1, <2>2
<1>6. NoBits'
  BY <1>1, <1>4, <1>5 DEF GCSound, NoBits
<1>7. ASSUME NEW p \in DOMAIN heap'.objs, NEW j \in DOMAIN heap'.objs[p].fields
      PROVE  SoundAt(heap'.base, heap'.objs[p].fields[j], DOMAIN heap'.objs)
  <2>1. \A q \in D : \A k \in DOMAIN heap.objs[q].fields : SoundAt(heap.base, heap.objs[q].fields[k], D)
    BY <1>1 DEF GCSound, FieldsIn, SoundIn
  <2>2. j \in DOMAIN heap.objs[p].fields
        /\ (heap'.objs[p].fields[j] = heap.objs[p].fields[j] \/ heap'.objs[p].fields[j] = w)
    BY <1>4, <1>5
  <2> QED BY <1>3, <1>4, <2>1, <2>2 DEF SoundIn
<1>8. size \in Nat /\ size >= 5 /\ StackWords \in Nat /\ size <= StackWords BY <1>1, DepthType
<1>9. stack'[0] = Plain BY <1>1, <1>8
<1>10. ASSUME NEW j \in 0..size' - 1
       PROVE  SoundAt(heap'.base, stack'[j], DOMAIN heap'.objs)
  <2>1. j \in 0..StackWords /\ j \in 0..size - 1 BY <1>1, <1>8
  <2>2. stack'[j] = IF j = size - 3 THEN w ELSE stack[j] BY <1>1, <2>1
  <2>3. SoundIn(stack[j], D) BY <1>1, <2>1, SoundStack
  <2> QED BY <1>3, <1>4, <2>2, <2>3 DEF SoundIn
<1> QED BY <1>1, <1>6, <1>7, <1>9, <1>10, RunSound

LEMMA BeginSound ==
  ASSUME AllScanned, GCTypes, GCSound, NEW args, Begin(args)
  PROVE  GCSound'
<1>1. /\ phase = "run" /\ phase' = "run" /\ heap' = heap /\ size' = size
      /\ stack' = stack /\ stack[0] = Plain
  BY DepthType DEF Begin, Running, GCSound, AllScanned
<1> QED BY <1>1, SoundStack, RunKeeps

LEMMA EndSound ==
  ASSUME GCTypes, GCSound, End
  PROVE  GCSound'
<1>1. /\ phase = "run" /\ phase' = "run" /\ heap' = heap /\ Depth > 0
      /\ stack' = [stack EXCEPT ![Frame.base - Frame.args] = Top(0)]
      /\ size' = Frame.base - Frame.args + 1
      /\ stack \in [0..StackWords -> Words] /\ stack[0] = Plain
  BY DEF End, Running, GCTypes, GCSound
<1> DEFINE b == Frame.base - Frame.args
<1>2. b \in Int BY FrameType
<1>3. size' - 1 < size /\ size' - 1 >= 2 BY EndTypes
<1>4. SoundIn(Top(0), DOMAIN heap.objs) BY <1>1, SoundTop
<1>5. stack' = [stack EXCEPT ![b] = Top(0)] /\ size' = b + 1 BY <1>1
<1> HIDE DEF b
<1>6. b >= 2 /\ b < size /\ size \in Nat /\ size <= StackWords /\ StackWords \in Nat
  BY <1>2, <1>3, <1>5, DepthType
<1>7. stack'[0] = Plain BY <1>1, <1>5, <1>6
<1>8. ASSUME NEW j \in 0..size' - 1
      PROVE  SoundIn(stack'[j], DOMAIN heap.objs)
  <2>1. j \in 0..StackWords /\ j \in 0..size - 1 BY <1>2, <1>5, <1>6
  <2>2. stack'[j] = IF j = b THEN Top(0) ELSE stack[j] BY <1>1, <1>5, <2>1
  <2> QED BY <1>1, <1>4, <2>1, <2>2, SoundStack
<1> QED BY <1>1, <1>7, <1>8, RunKeeps

(* What an allocation is asked for consists of sound words.                *)
LEMMA AskSound ==
  ASSUME GCTypes, GCSound, phase = "run", heap' = heap, phase' \in {"alloc", "killed"},
         stack'[0] = Plain,
         \A i \in 0..size' - 1 : SoundIn(stack'[i], DOMAIN heap.objs),
         \A i \in 1..request'.n : SoundIn(stack'[request'.first + i - 1], DOMAIN heap.objs),
         request'.escaped = None \/ SoundIn(request'.escaped, DOMAIN heap.objs),
         size' \in Nat
  PROVE  GCSound'
<1>1. NoBits' BY DEF GCSound, NoBits
<1>2. Enqueued' = {} BY <1>1 DEF Enqueued, NoBits
<1>3. \A o \in DOMAIN heap'.objs : FieldsIn(o, DOMAIN heap.objs)' BY DEF GCSound, FieldsIn, SoundIn
<1>4. \A w \in RootWords' : SoundIn(w, DOMAIN heap.objs)
  <2>1. \A s \in Nat : \A i \in 1..s - 1 : i \in 0..s - 1 OBVIOUS
  <2>2. \A i \in 1..size' - 1 : i \in 0..size' - 1 BY <2>1
  <2> QED BY <2>2 DEF RootWords
<1>5. WordsSound(DOMAIN heap.objs)'
  <2>1. \A w : SoundIn(w, DOMAIN heap.objs) <=> SoundAt(heap'.base, w, DOMAIN heap'.objs) BY DEF SoundIn
  <2>2. \A w \in RootWords' : SoundAt(heap'.base, w, DOMAIN heap'.objs) BY <1>4, <2>1
  <2>3. \A i \in 0..size' - 1 : SoundAt(heap'.base, stack'[i], DOMAIN heap'.objs) BY <2>1
  <2> QED BY <2>2, <2>3 DEF WordsSound, SoundIn
<1> QED BY <1>1, <1>2, <1>3, <1>5 DEF GCSound, CollectionIsExact

LEMMA NewStringSound ==
  ASSUME GCTypes, GCSound, NewString
  PROVE  GCSound'
<1> DEFINE r == [kind |-> "string", n |-> 0, first |-> size, pops |-> 0, escaped |-> None]
<1>1. Ask(r) /\ stack' = stack /\ size' = size /\ phase = "run" /\ stack[0] = Plain /\ size \in Nat
  BY DepthType DEF NewString, MayAllocate, Running, GCSound
<1>2. heap' = heap /\ phase' \in {"alloc", "killed"} /\ request' = r BY <1>1 DEF Ask
<1>3. request'.n = 0 /\ request'.escaped = None BY <1>2
<1> QED BY <1>1, <1>2, <1>3, SoundStack, AskSound

LEMMA RenderStringSound ==
  ASSUME GCTypes, GCSound, RenderString
  PROVE  GCSound'
<1> DEFINE r == [kind |-> "string", n |-> 0, first |-> size - 1, pops |-> 0, escaped |-> Top(0)]
<1>1. /\ Ask(r) /\ stack' = stack /\ size' = size - 1 /\ phase = "run" /\ stack[0] = Plain
      /\ size \in Nat /\ size >= 2 /\ Depth > 0
  BY DepthType DEF RenderString, MayAllocate, Running, GCSound
<1>2. heap' = heap /\ phase' \in {"alloc", "killed"} /\ request' = r BY <1>1 DEF Ask
<1>3. request'.n = 0 /\ request'.escaped = Top(0) BY <1>2
<1>4. SoundIn(Top(0), DOMAIN heap.objs) BY <1>1, SoundTop
<1>5. \A i \in 0..size' - 1 : SoundIn(stack'[i], DOMAIN heap.objs) BY <1>1, SoundStack
<1> QED BY <1>1, <1>2, <1>3, <1>4, <1>5, AskSound

LEMMA NewArraySound ==
  ASSUME GCTypes, GCSound, NEW n \in Nat, NewArray(n)
  PROVE  GCSound'
<1> DEFINE r == [kind |-> "array", n |-> n, first |-> size - n, pops |-> n, escaped |-> None]
<1>1. /\ Ask(r) /\ stack' = stack /\ size' = size /\ phase = "run" /\ stack[0] = Plain
      /\ size \in Nat /\ size >= 2 /\ Depth >= n
  BY DepthType DEF NewArray, MayAllocate, Running, GCSound
<1>2. heap' = heap /\ phase' \in {"alloc", "killed"} /\ request' = r BY <1>1 DEF Ask
<1>3. request'.n = n /\ request'.escaped = None /\ request'.first = size - n BY <1>2
<1>4. \A i \in 0..size' - 1 : SoundIn(stack'[i], DOMAIN heap.objs) BY <1>1, SoundStack
<1>5. ASSUME NEW i \in 1..request'.n PROVE SoundIn(stack'[request'.first + i - 1], DOMAIN heap.objs)
  <2>1. size - n + i - 1 \in 0..size - 1 BY <1>1, <1>3, DepthType
  <2> QED BY <1>1, <1>3, <1>4, <2>1
<1> QED BY <1>1, <1>2, <1>3, <1>4, <1>5, AskSound

LEMMA NewSexpSound ==
  ASSUME GCTypes, GCSound, NEW n \in Nat, NewSexp(n)
  PROVE  GCSound'
<1> DEFINE r == [kind |-> "sexp", n |-> n, first |-> size - n, pops |-> n, escaped |-> None]
<1>1. /\ Ask(r) /\ stack' = [stack EXCEPT ![size] = Plain] /\ size' = size /\ phase = "run"
      /\ stack[0] = Plain /\ Depth >= n /\ stack \in [0..StackWords -> Words]
      /\ size \in Nat /\ size >= 2 /\ StackWords \in Nat /\ size <= StackWords
  BY DepthType DEF NewSexp, MayAllocate, Running, GCSound, GCTypes
<1>2. heap' = heap /\ phase' \in {"alloc", "killed"} /\ request' = r BY <1>1 DEF Ask
<1>3. request'.n = n /\ request'.escaped = None /\ request'.first = size - n BY <1>2
<1>4. ASSUME NEW i \in 0..size' - 1 PROVE SoundIn(stack'[i], DOMAIN heap.objs)
  <2>1. i \in 0..StackWords /\ i # size /\ i \in 0..size - 1 BY <1>1
  <2>2. stack'[i] = stack[i] BY <1>1, <2>1
  <2> QED BY <1>1, <2>1, <2>2, SoundStack
<1>5. ASSUME NEW i \in 1..request'.n PROVE SoundIn(stack'[request'.first + i - 1], DOMAIN heap.objs)
  <2>1. size - n + i - 1 \in 0..size - 1 BY <1>1, <1>3, DepthType
  <2> QED BY <1>1, <1>3, <1>4, <2>1
<1>6. stack'[0] = Plain BY <1>1
<1> QED BY <1>1, <1>2, <1>3, <1>4, <1>5, <1>6, AskSound

LEMMA NewClosureSound ==
  ASSUME AllScanned, GCTypes, GCSound, NEW n \in Nat, NewClosure(n)
  PROVE  GCSound'
<1> DEFINE r == [kind |-> "closure", n |-> n + 1, first |-> size + 1, pops |-> n + 1, escaped |-> None]
           D == DOMAIN heap.objs
<1>1. /\ Ask(r) /\ size' = size + n + 1 /\ phase = "run" /\ size + n + 1 <= StackWords
      /\ stack[0] = Plain /\ stack \in [0..StackWords -> Words] /\ DOMAIN stack = 0..StackWords
      /\ size \in Nat /\ size >= 2 /\ StackWords \in Nat /\ size <= StackWords
      /\ stack[size + n + 1] = Plain \/ RefersToObject(stack[size + n + 1])
  BY DepthType DEF NewClosure, MayAllocate, Running, GCSound, GCTypes
<1>2. PICK captured \in [1..n -> Variables] :
        stack' = [i \in DOMAIN stack |->
                   IF i = size THEN Plain
                   ELSE IF i \in size + 1..size + n THEN stack[captured[i - size]]
                   ELSE stack[i]]
  BY DEF NewClosure
<1>3. heap' = heap /\ phase' \in {"alloc", "killed"} /\ request' = r BY <1>1 DEF Ask
<1>4. request'.n = n + 1 /\ request'.escaped = None /\ request'.first = size + 1 BY <1>3
<1>5. stack'[0] = Plain
  <2>1. 0 \in DOMAIN stack /\ 0 # size /\ 0 \notin size + 1..size + n BY <1>1
  <2> QED BY <1>1, <1>2, <2>1
<1>6. SoundIn(stack[size + n + 1], D) BY <1>1 DEF RefersToObject, InHeap, SoundIn, SoundAt
<1>7. ASSUME NEW i \in 0..size + n + 1 PROVE SoundIn(stack'[i], D)
  <2>1. i \in DOMAIN stack /\ i \in Nat BY <1>1
  <2>2. CASE i = size BY <1>2, <2>1, <2>2, PlainSound
  <2>3. CASE i \in size + 1..size + n
    <3>1. i - size \in 1..n /\ i # size BY <1>1, <2>3
    <3>2. captured[i - size] \in Variables BY <3>1
    <3>3. stack'[i] = stack[captured[i - size]] BY <1>2, <2>1, <2>3, <3>1
    <3> QED BY <1>1, <3>2, <3>3, SoundVariable
  <2>4. CASE i # size /\ i \notin size + 1..size + n
    <3>1. stack'[i] = stack[i] BY <1>2, <2>1, <2>4
    <3>2. i \in 0..size - 1 \/ i = size + n + 1 BY <1>1, <2>1, <2>4
    <3> QED BY <1>1, <1>6, <3>1, <3>2, SoundStack
  <2> QED BY <2>2, <2>3, <2>4
<1>8. \A i \in 0..size' - 1 : SoundIn(stack'[i], D) BY <1>1, <1>7
<1>9. ASSUME NEW i \in 1..request'.n PROVE SoundIn(stack'[request'.first + i - 1], D)
  <2>1. i \in 1..n + 1 BY <1>4
  <2>2. size + 1 + i - 1 \in 0..size + n + 1 BY <1>1, <2>1
  <2> QED BY <1>4, <1>7, <2>2
<1>10. size' \in Nat BY <1>1
<1> QED BY <1>1, <1>3, <1>4, <1>5, <1>8, <1>9, <1>10, AskSound

(* A new object has no bits, and its fields are words of the request.      *)
LEMMA AllocateSound ==
  ASSUME GCTypes, GCSound, Allocate
  PROVE  GCSound'
<1> DEFINE n == request.n
           F == [i \in 1..n |-> stack[request.first + i - 1]]
           yes == TRUE
           no == FALSE
           new == [kind |-> request.kind, id |-> NewId, fields |-> F,
                   fwd |-> None, mark |-> no, enq |-> no]
           D == DOMAIN heap.objs
           c == heap.current
           X == [o \in D \union {c} |-> IF o = c THEN new ELSE heap.objs[o]]
<1>1. /\ phase \in {"alloc", "again"}
      /\ RequestOK /\ HeapOK /\ size \in 2..StackWords
      /\ stack \in [0..StackWords -> Words] /\ NoBits /\ WordsSound(D) /\ stack[0] = Plain
      /\ \A o \in D : FieldsIn(o, D)
  BY DEF Allocate, GCTypes, GCSound
<1>2. \A w \in RootWords : SoundIn(w, D) BY <1>1 DEF WordsSound
<1>3. CASE ~Fits
  <2>1. phase' = "killed" /\ stack' = stack /\ size' = size /\ heap' = heap
    BY <1>3 DEF Allocate
  <2>2. Enqueued' = {} BY <1>1, <2>1 DEF NoBits, Enqueued
  <2> QED BY <1>1, <2>1, <2>2 DEF GCSound, CollectionIsExact
<1>4. CASE Fits
  <2>1. /\ heap' = [heap EXCEPT !.current = @ + SizeOf(new), !.objs = X]
        /\ stack' = [stack EXCEPT ![size - request.pops] = ContentOf(heap.base, heap.current)]
        /\ size' = size - request.pops + 1
        /\ phase' = "run"
    BY <1>4 DEF Allocate
  <2>2. /\ request.pops \in Nat /\ Frame.base + Locals <= size - request.pops
        /\ size - request.pops < StackWords
    BY <1>1 DEF RequestOK
  <2>3. /\ new.fields = F /\ new.mark = FALSE /\ new.enq = FALSE OBVIOUS
  <2> HIDE DEF new
  <2>4. /\ heap'.base = heap.base /\ heap'.objs = X
    <3>1. heap' = [base |-> heap.base, size |-> heap.size, current |-> c + SizeOf(new), objs |-> X]
      BY <1>1, <2>1 DEF HeapOK
    <3> QED BY <3>1
  <2>5. /\ DOMAIN X = D \union {c} /\ X[c] = new /\ c \in Nat
        /\ \A o \in D : o # c /\ X[o] = heap.objs[o]
    BY <1>1 DEF HeapOK
  <2> HIDE DEF X
  <2>6. \A w : SoundIn(w, D) => SoundAt(heap.base, w, D \union {c})
    BY SoundMonotone DEF SoundIn
  <2>7. DOMAIN F = 1..n /\ \A i \in 1..n : SoundIn(F[i], D)
    BY <1>2 DEF RootWords
  <2> HIDE DEF F
  <2>8. ASSUME NEW o \in D \union {c}, NEW i \in DOMAIN X[o].fields
        PROVE  SoundAt(heap.base, X[o].fields[i], D \union {c})
    <3>1. CASE o = c
      <4>1. X[o].fields = F /\ i \in 1..n BY <2>3, <2>5, <2>7, <3>1
      <4>2. SoundIn(F[i], D) BY <2>7, <4>1
      <4> QED BY <2>6, <4>1, <4>2
    <3>2. CASE o \in D BY <1>1, <2>5, <2>6, <3>2 DEF FieldsIn
    <3> QED BY <3>1, <3>2
  <2>9. NoBits' BY <1>1, <2>3, <2>4, <2>5 DEF NoBits
  <2>10. /\ size - request.pops \in Nat /\ size - request.pops >= 2 /\ size - request.pops <= size
         /\ size \in Nat /\ StackWords \in Nat /\ size <= StackWords
    BY <1>1, <2>2, FrameType, DepthType
  <2>11. stack'[0] = Plain BY <1>1, <2>1, <2>10
  <2>12. ASSUME NEW i \in 0..size' - 1
         PROVE  SoundAt(heap'.base, stack'[i], DOMAIN heap'.objs)
    <3>1. i \in 0..StackWords /\ (i # size - request.pops => i \in 0..size - 1) BY <2>1, <2>10
    <3>2. stack'[i] = IF i = size - request.pops THEN ContentOf(heap.base, c) ELSE stack[i]
      BY <1>1, <2>1, <3>1
    <3>3. SoundAt(heap.base, ContentOf(heap.base, c), D \union {c})
      BY <2>5 DEF SoundAt, ContentOf, HeaderOf, Header
    <3>4. i # size - request.pops => SoundIn(stack[i], D) BY <1>1, <3>1, SoundStack
    <3> QED BY <2>4, <2>5, <2>6, <3>2, <3>3, <3>4
  <2>13. \A o \in DOMAIN heap'.objs : \A i \in DOMAIN heap'.objs[o].fields :
           SoundAt(heap'.base, heap'.objs[o].fields[i], DOMAIN heap'.objs)
    BY <2>4, <2>5, <2>8
  <2> QED BY <2>1, <2>9, <2>11, <2>12, <2>13, RunSound
<1> QED BY <1>3, <1>4

-----------------------------------------------------------------------------
(* Exactness of mark_phase                                                 *)

LEMMA RootsAre ==
  ASSUME GCTypes, RequestOK
  PROVE  Range(Roots) = RootWords /\ RootWords \subseteq Words
<1>1. Roots \in Seq(Words) /\ ElementsOf(Roots) = RootWords BY RootsType
<1>2. \A i \in DOMAIN Roots : Roots[i] \in Words BY <1>1, ElementOfSeq
<1> QED BY <1>1, <1>2 DEF Range, ElementsOf

LEMMA ReachedSound ==
  ASSUME GCTypes, RequestOK, phase # "relocate",
         \A w \in RootWords : SoundIn(w, DOMAIN heap.objs),
         \A o \in DOMAIN heap.objs : FieldsIn(o, DOMAIN heap.objs)
  PROVE  /\ Reached \subseteq DOMAIN heap.objs
         /\ \A w \in RootWords : SoundIn(w, Reached)
         /\ \A o \in Reached : FieldsIn(o, Reached)
<1>1. /\ Reached \subseteq DOMAIN heap.objs /\ ClosedIn(RootWords, Reached)
  BY ReachedIs, RootsAre DEF Reached
<1>2. ASSUME NEW w \in Words, SoundIn(w, DOMAIN heap.objs), RefersToObject(w) => HeaderOf(w) \in Reached
      PROVE  SoundIn(w, Reached)
  <2>1. CASE w = Plain BY <2>1 DEF SoundIn, SoundAt
  <2>2. CASE w # Plain
    <3>1. RefersToObject(w) BY <1>2, <2>2, SoundRefers
    <3> QED BY <1>2, <3>1 DEF SoundIn, SoundAt
  <2> QED BY <2>1, <2>2
<1>3. \A w \in RootWords : SoundIn(w, Reached) BY <1>1, <1>2, RootsAre DEF ClosedIn
<1>4. ASSUME NEW o \in Reached, NEW i \in DOMAIN heap.objs[o].fields
      PROVE  SoundIn(heap.objs[o].fields[i], Reached)
  <2>1. o \in DOMAIN heap.objs BY <1>1
  <2>2. heap.objs[o].fields[i] \in Words BY <2>1, FieldWord
  <2> QED BY <1>1, <1>2, <2>1, <2>2 DEF ClosedIn, FieldsIn
<1> QED BY <1>1, <1>3, <1>4 DEF FieldsIn

(* What the steps of marking do not change.                                *)
LEMMA MarkKeeps ==
  ASSUME GCTypes, RequestOK, GCTypes', RequestOK', NEW X, OnlyBits(X),
         \A o \in DOMAIN heap.objs : X[o].fields = heap.objs[o].fields
  PROVE  /\ RootWords' = RootWords /\ Reached' = Reached
         /\ \A R : WordsSound(R) /\ phase # "run" => WordsSound(R)'
         /\ \A o \in DOMAIN heap.objs : \A R : FieldsIn(o, R) => FieldsIn(o, R)'
<1>1. RootWords' = RootWords BY DEF RootWords, OnlyBits
<1>2. Reached' = Reached
  <2>1. ReachedFrom(RootWords) = Reached BY RootsAre DEF Reached
  <2>2. Roots' = Roots BY DEF OnlyBits, Roots, Registered
  <2>3. ReachedFrom(Range(Roots))' = ReachedFrom(Range(Roots))
    <3>1. \A w : RefersToObject(w)' = RefersToObject(w) BY DEF RefersToObject, InHeap, OnlyBits
    <3>2. \A R \in SUBSET DOMAIN heap.objs :
            ClosedIn(Range(Roots), R)' = ClosedIn(Range(Roots), R)
      BY <2>2, <3>1 DEF ClosedIn, OnlyBits
    <3>3. ReachedFrom(Range(Roots))' =
            {o \in DOMAIN heap'.objs :
               \A R \in SUBSET DOMAIN heap'.objs : ClosedIn(Range(Roots), R)' => o \in R}
      BY DEF ReachedFrom, ClosedIn
    <3>4. ReachedFrom(Range(Roots)) =
            {o \in DOMAIN heap.objs :
               \A R \in SUBSET DOMAIN heap.objs : ClosedIn(Range(Roots), R) => o \in R}
      BY ReachedIs
    <3> QED BY <3>2, <3>3, <3>4 DEF OnlyBits
  <2> QED BY <2>3 DEF Reached
<1>3. ASSUME NEW R, WordsSound(R), phase # "run" PROVE WordsSound(R)'
  <2>1. \A w : SoundIn(w, R)' = SoundIn(w, R) BY DEF SoundIn, SoundAt, OnlyBits
  <2> QED BY <1>1, <1>3, <2>1 DEF WordsSound, OnlyBits
<1>4. ASSUME NEW R, NEW o \in DOMAIN heap.objs, FieldsIn(o, R) PROVE FieldsIn(o, R)'
  BY <1>4 DEF FieldsIn, SoundIn, OnlyBits
<1> QED BY <1>1, <1>2, <1>3, <1>4

LEMMA MarkingSound ==
  ASSUME GCTypes, GCSound, GCTypes', phase \in {"alloc", "mark"}, phase' = "mark", NEW X, OnlyBits(X),
         \A o \in DOMAIN heap.objs : X[o].fields = heap.objs[o].fields,
         Marking'
  PROVE  GCSound'
<1>1. RequestOK /\ RequestOK' BY DEF GCTypes
<1>2. /\ WordsSound(DOMAIN heap.objs) /\ stack[0] = Plain
      /\ \A o \in DOMAIN heap.objs : FieldsIn(o, DOMAIN heap.objs)
  BY DEF GCSound
<1>3. stack'[0] = Plain /\ DOMAIN heap'.objs = DOMAIN heap.objs BY <1>2 DEF OnlyBits
<1> DEFINE D == DOMAIN heap.objs
<1>4. \A R : WordsSound(R) => WordsSound(R)' BY <1>1, MarkKeeps
<1>5. WordsSound(DOMAIN heap.objs)'
  <2>1. \A i \in 0..size - 1 : SoundIn(stack[i], D) BY <1>2 DEF WordsSound
  <2>2. \A w \in RootWords : SoundIn(w, D) BY <1>2 DEF WordsSound
  <2>3. RootWords' = RootWords BY <1>1, MarkKeeps
  <2>4. \A w : SoundIn(w, D) => SoundAt(heap'.base, w, DOMAIN heap'.objs)
    BY <1>3 DEF SoundIn, OnlyBits
  <2>5. \A i \in 0..size' - 1 : SoundAt(heap'.base, stack'[i], DOMAIN heap'.objs)
    BY <2>1, <2>4 DEF OnlyBits
  <2>6. \A w \in RootWords' : SoundAt(heap'.base, w, DOMAIN heap'.objs)
    BY <2>2, <2>3, <2>4
  <2> QED BY <2>5, <2>6 DEF WordsSound, SoundIn
<1>6. \A o \in DOMAIN heap'.objs : FieldsIn(o, DOMAIN heap.objs)'
  <2>1. ASSUME NEW o \in D, NEW i \in DOMAIN X[o].fields PROVE SoundAt(heap.base, X[o].fields[i], D)
    BY <1>2 DEF FieldsIn, SoundIn
  <2> QED BY <2>1, <1>3 DEF FieldsIn, SoundIn, OnlyBits
<1> QED BY <1>3, <1>5, <1>6 DEF GCSound, CollectionIsExact

(* The roots of a collection are known before it starts.                   *)
LEMMA StartMarkSound ==
  ASSUME GCTypes, GCSound, StartMark
  PROVE  GCSound'
<1>1. /\ phase = "alloc" /\ phase' = "mark" /\ heap' = heap /\ stack' = stack /\ size' = size
      /\ request' = request /\ gc' = [roots |-> Roots, head |-> 0, tail |-> 0, fields |-> <<>>]
      /\ NoBits
  BY DEF StartMark, interpreter, GCSound
<1>2. /\ gc'.roots = Roots /\ gc'.head = 0 /\ gc'.tail = 0 /\ gc'.fields = <<>>
  BY <1>1
<1>3. GCTypes' BY StartMarkTypes
<1>4. OnlyBits(heap.objs) BY <1>1 DEF OnlyBits
<1>5. RequestOK /\ RequestOK' BY <1>1, <1>3 DEF GCTypes
<1>6. RootWords' = RootWords /\ Reached' = Reached BY <1>3, <1>4, <1>5, MarkKeeps
<1>7. Enqueued' = {} /\ Marked' = {} BY <1>1 DEF NoBits, Enqueued, Marked
<1>8. Slots' = {} /\ Waiting' = {}
  <2>1. \A o \in DOMAIN heap.objs : o \in Nat BY DEF GCTypes, HeapOK
  <2> QED BY <1>1, <1>2, <2>1 DEF Slots, Waiting
<1>9. 0 \in DOMAIN heap.objs \union {heap.current}
  <2>1. Tiled(heap.objs, DOMAIN heap.objs, 0, heap.current) BY <1>1 DEF GCTypes
  <2> QED BY <2>1 DEF Tiled
<1>10. Queue' BY <1>1, <1>2, <1>7, <1>8, <1>9 DEF Queue
<1>11. Frontier'
  <2>1. \A w \in RootWords : \E i \in DOMAIN Roots : Roots[i] = w
    BY <1>5, RootsAre DEF Range
  <2>2. \A i \in DOMAIN Roots : Roots[i] \in RootWords
    BY <1>5, RootsAre DEF Range
  <2>3. DOMAIN gc'.fields = {} BY <1>2
  <2> QED BY <1>2, <1>6, <1>7, <2>1, <2>2, <2>3 DEF Frontier
<1> QED BY <1>1, <1>3, <1>4, <1>10, <1>11, MarkingSound DEF Marking

(* A word that mark leaves out refers to an object that is marked.         *)
LEMMA NotToMark ==
  ASSUME GCTypes, phase = "mark", NEW w \in Words, SoundIn(w, DOMAIN heap.objs), ~ToMark(w)
  PROVE  SoundIn(w, Marked)
<1>1. CASE w = Plain BY <1>1 DEF SoundIn, SoundAt
<1>2. CASE w # Plain
  <2>1. InHeap(w) /\ HeaderOf(w) \in DOMAIN heap.objs BY <1>2, SoundRefers
  <2>2. heap.objs[HeaderOf(w)].mark BY <2>1 DEF ToMark, IsMarked
  <2> QED BY <2>1, <2>2 DEF Marked, SoundIn, SoundAt, InHeap
<1> QED BY <1>1, <1>2

LEMMA IsToMark ==
  ASSUME GCTypes, phase = "mark", NEW w \in Words, SoundIn(w, DOMAIN heap.objs), ToMark(w)
  PROVE  /\ HeaderOf(w) \in DOMAIN heap.objs \ Marked /\ w \in Bases \X Nat /\ w[1] = heap.base
         /\ \A R : SoundIn(w, R) <=> HeaderOf(w) \in R
<1>1. w # Plain /\ w \in Bases \X Nat /\ w[1] = heap.base BY ToMarkWord
<1>2. HeaderOf(w) \in DOMAIN heap.objs BY <1>1 DEF SoundIn, SoundAt
<1>3. ~heap.objs[HeaderOf(w)].mark BY <1>2 DEF ToMark, IsMarked
<1> QED BY <1>1, <1>2, <1>3 DEF Marked, SoundIn, SoundAt

LEMMA MarkRootSound ==
  ASSUME GCTypes, GCSound, MarkRoot
  PROVE  GCSound'
<1> DEFINE D == DOMAIN heap.objs
<1>1. PICK i \in DOMAIN gc.roots :
        /\ ToMark(gc.roots[i]) /\ \A j \in 1..i - 1 : ~ToMark(gc.roots[j])
        /\ OnlyBits(Queued(0, gc.roots[i]))
        /\ gc'.roots = SubSeq(gc.roots, i + 1, Len(gc.roots)) /\ gc'.fields = <<>>
        /\ gc'.head = 0
        /\ gc'.tail = 0 + IF 0 \in D THEN SizeOf(heap.objs[0]) ELSE Header
  BY MarkRootTypes
<1>2. GCTypes' /\ phase = "mark" /\ phase' = "mark" BY MarkRootTypes
<1>3. gc.head = gc.tail /\ gc.fields = <<>> BY DEF MarkRoot, MarkDone
<1>4. /\ Queue /\ Frontier /\ RequestOK /\ RequestOK' /\ WordsSound(D) /\ \A o \in D : FieldsIn(o, D)
      /\ gc.roots \in Seq(Words)
  BY <1>2 DEF GCSound, Marking, GCTypes
<1> DEFINE w == gc.roots[i]
           x == HeaderOf(w)
           n == Len(gc.roots)
           X == Queued(0, w)
<1>5. i \in 1..n /\ n \in Nat /\ w \in Words /\ \A j \in 1..n : gc.roots[j] \in Words
  BY <1>4, LenProperties, ElementOfSeq
<1>6. \A v \in RootWords : SoundIn(v, D) BY <1>2, <1>4 DEF WordsSound
<1>7. w \in RootWords /\ SoundIn(w, D) BY <1>4, <1>6 DEF Frontier
<1>8. /\ x \in D \ Marked /\ w \in Bases \X Nat /\ w[1] = heap.base
      /\ \A R : SoundIn(w, R) <=> x \in R
  BY <1>1, <1>2, <1>5, <1>7, IsToMark
<1>9. /\ DOMAIN X = D
      /\ \A o \in D : /\ X[o].fields = heap.objs[o].fields
                      /\ X[o].fwd = IF o = 0 THEN w ELSE heap.objs[o].fwd
                      /\ X[o].mark = heap.objs[o].mark
                      /\ X[o].enq = (heap.objs[o].enq \/ o = x)
  BY <1>8, QueuedTypes
<1> HIDE DEF X
<1>10. heap'.objs = X /\ DOMAIN heap'.objs = D /\ heap'.base = heap.base /\ heap'.current = heap.current
  BY <1>1 DEF OnlyBits, X
<1>11. OnlyBits(X) BY <1>1 DEF X
<1> HIDE DEF w, x, n
<1>12. RootWords' = RootWords /\ Reached' = Reached BY <1>2, <1>4, <1>9, <1>11, MarkKeeps
<1>13. Reached \subseteq D /\ x \in Reached
  BY <1>2, <1>4, <1>6, <1>7, <1>8, ReachedSound
<1>14. Enqueued = {}
  BY <1>3, <1>4 DEF Queue, Waiting, Slots, Enqueued, GCTypes, HeapOK
<1>15. Marked' = Marked BY <1>9, <1>10 DEF Marked
<1>16. Enqueued' = {x} BY <1>8, <1>9, <1>10, <1>14 DEF Enqueued
<1>17. /\ 0 \in D /\ NextObj(0) \in Ends /\ \A o \in D : o < NextObj(0) <=> o = 0
  <2>1. 0 \in D BY <1>2, <1>8, ObjectEnds
  <2>2. /\ NextObj(0) \in Ends /\ 0 < NextObj(0) /\ NextObj(0) \in Nat
        /\ \A b \in Ends : 0 < b => NextObj(0) <= b
    BY <1>2, <2>1, ObjectEnds
  <2>3. \A o \in D : o \in Nat /\ o \in Ends BY ObjectIs DEF Ends
  <2> QED BY <2>1, <2>2, <2>3
<1>18. gc'.tail = NextObj(0) /\ gc'.head = 0
  <2>1. SizeOf(heap.objs[0]) \in Nat BY <1>17, ObjectIs
  <2> QED BY <1>1, <1>17, <2>1 DEF NextObj
<1>19. Slots' = {0} BY <1>10, <1>17, <1>18 DEF Slots
<1>20. Waiting' = {0} BY <1>18, <1>19 DEF Waiting
<1>21. Target(0)' = x /\ heap'.objs[0].fwd = w BY <1>9, <1>10, <1>17 DEF Target, x
<1>23. Queue'
  <2>1. NextObj(0) \in D \union {heap.current} /\ 0 <= NextObj(0)
    BY <1>2, <1>17, ObjectEnds DEF Ends
  <2>2. \A o \in Slots' : heap'.objs[o].fwd \in Bases \X Nat /\ SoundAt(heap'.base, heap'.objs[o].fwd, DOMAIN heap'.objs)
    BY <1>7, <1>8, <1>10, <1>19, <1>21 DEF SoundIn
  <2>3. \A o \in Waiting' : Target(o)' \in Enqueued' \ Marked'
    BY <1>8, <1>15, <1>16, <1>20, <1>21
  <2>4. /\ \A o \in Slots' \ Waiting' : Target(o)' \in Marked'
        /\ \A o, p \in Slots' : o # p => Target(o)' # Target(p)'
        /\ \A y \in Enqueued' : \E o \in Waiting' : Target(o)' = y
    BY <1>16, <1>19, <1>20, <1>21
  <2> QED BY <1>10, <1>17, <1>18, <2>1, <2>2, <2>3, <2>4 DEF Queue, SoundIn
<1>24. Frontier'
  <2> DEFINE r == gc'.roots
  <2>1. /\ \A k \in DOMAIN r : \E j \in DOMAIN gc.roots : r[k] = gc.roots[j]
        /\ \A j \in 1..n : j > i => \E k \in DOMAIN r : r[k] = gc.roots[j]
    <3>1. r = SubSeq(gc.roots, i + 1, n) BY <1>1 DEF n
    <3>2. DOMAIN gc.roots = 1..n BY <1>4, LenProperties DEF n
    <3>3. CASE i = n
      <4>1. i + 1 > n BY <1>5, <3>3
      <4>2. r = <<>> BY <1>4, <1>5, <3>1, <4>1, SubSeqProperties
      <4>3. DOMAIN r = {} BY <4>2
      <4> HIDE DEF r
      <4> QED BY <1>5, <3>3, <4>3
    <3>4. CASE i # n
      <4>1. i + 1 \in 1..n /\ n \in 1..n /\ n - (i + 1) + 1 = n - i /\ n - i \in Nat /\ i + 1 <= n
        BY <1>5, <3>4
      <4>2. Len(r) = n - i /\ r \in Seq(Words) /\ \A k \in 1..n - i : r[k] = gc.roots[i + k]
        <5>1. /\ r \in Seq(Words)
              /\ Len(r) = n - (i + 1) + 1
              /\ \A k \in 1..n - (i + 1) + 1 : r[k] = gc.roots[i + 1 + k - 1]
          <6>1. i + 1 \in 1..n + 1 /\ n \in (i + 1) - 1..n BY <1>5, <4>1
          <6>2. \A k \in i + 1..n : gc.roots[k] \in Words
            <7>1. \A k \in i + 1..n : k \in 1..n BY <1>5
            <7> QED BY <1>5, <7>1
          <6> DEFINE m == i + 1
          <6>3. m \in Int /\ n \in Int /\ m <= n /\ \A k \in m..n : gc.roots[k] \in Words
            BY <1>5, <4>1, <6>2
          <6>4. r = SubSeq(gc.roots, m, n) BY <3>1
          <6> HIDE DEF m, r
          <6>5. /\ r \in Seq(Words) /\ Len(r) = n - m + 1
                /\ \A k \in 1..n - m + 1 : r[k] = gc.roots[m + k - 1]
            BY <6>3, <6>4, SubSeqProperties
          <6> QED BY <6>5 DEF m
        <5> HIDE DEF r
        <5>2. \A k \in 1..n - i : i + 1 + k - 1 = i + k BY <1>5
        <5> QED BY <4>1, <5>1, <5>2
      <4> HIDE DEF r
      <4>4. DOMAIN r = 1..n - i BY <4>1, <4>2, LenProperties
      <4>5. ASSUME NEW k \in DOMAIN r PROVE \E j \in DOMAIN gc.roots : r[k] = gc.roots[j]
        <5>1. k \in 1..n - i /\ i + k \in 1..n BY <1>5, <4>1, <4>4
        <5> QED BY <3>2, <4>2, <5>1
      <4>6. ASSUME NEW j \in 1..n, j > i PROVE \E k \in DOMAIN r : r[k] = gc.roots[j]
        <5>1. j - i \in 1..n - i /\ i + (j - i) = j BY <1>5, <4>1, <4>6
        <5>2. r[j - i] = gc.roots[j] BY <4>2, <5>1
        <5> QED BY <4>4, <5>1, <5>2
      <4> QED BY <4>5, <4>6
    <3> QED BY <3>3, <3>4
  <2> HIDE DEF r
  <2> DEFINE T == Marked \union {x}
  <2>3. ASSUME NEW v \in RootWords
        PROVE  SoundIn(v, T) \/ \E k \in DOMAIN r : r[k] = v
    <3>1. CASE SoundIn(v, Marked \union Enqueued)
      <4>1. Marked \union Enqueued \subseteq T BY <1>14
      <4> QED BY <3>1, <4>1, SoundMonotone DEF SoundIn
    <3>2. CASE \E j \in DOMAIN gc.roots : gc.roots[j] = v
      <4>1. PICK j \in DOMAIN gc.roots : gc.roots[j] = v BY <3>2
      <4>2. j \in 1..n BY <1>4, <4>1, LenProperties DEF n
      <4>3. CASE j < i
        <5>1. j \in 1..i - 1 BY <1>5, <4>2, <4>3
        <5>2. ~ToMark(v) BY <1>1, <4>1, <5>1
        <5>3. v \in Words /\ SoundIn(v, D) BY <1>4, <1>6, RootsAre
        <5>4. SoundIn(v, Marked) BY <1>2, <5>2, <5>3, NotToMark
        <5> QED BY <5>4, SoundMonotone DEF SoundIn
      <4>4. CASE j = i BY <1>8, <4>1, <4>4 DEF w
      <4>5. CASE j > i BY <2>1, <4>1, <4>2, <4>5
      <4> QED BY <1>5, <4>2, <4>3, <4>4, <4>5
    <3> QED BY <1>4, <3>1, <3>2 DEF Frontier
  <2>4. \A k \in DOMAIN r : r[k] \in RootWords BY <1>4, <2>1 DEF Frontier
  <2>5. ASSUME NEW y \in Marked, NEW k \in DOMAIN heap.objs[y].fields
        PROVE  SoundIn(heap.objs[y].fields[k], T)
    <3>1. DOMAIN gc.fields = {} BY <1>3
    <3>2. SoundIn(heap.objs[y].fields[k], Marked \union Enqueued) BY <1>4, <3>1 DEF Frontier
    <3>3. Marked \union Enqueued \subseteq T BY <1>14
    <3> QED BY <3>2, <3>3, SoundMonotone DEF SoundIn
  <2>6. T \subseteq Reached /\ Marked' \union Enqueued' = T
    BY <1>4, <1>13, <1>15, <1>16 DEF Frontier
  <2>7. DOMAIN gc'.fields = {} BY <1>1
  <2>8. Marked \subseteq D BY DEF Marked
  <2> HIDE DEF T
  <2>9. \A y \in Marked' : \A k \in DOMAIN heap'.objs[y].fields : SoundAt(heap'.base, heap'.objs[y].fields[k], T)
    BY <1>9, <1>10, <1>15, <2>5, <2>8 DEF SoundIn
  <2>10. \A v \in RootWords' : SoundAt(heap'.base, v, T) \/ \E k \in DOMAIN gc'.roots : gc'.roots[k] = v
    BY <1>10, <1>12, <2>3 DEF SoundIn, r
  <2> QED BY <1>12, <2>4, <2>6, <2>7, <2>9, <2>10 DEF Frontier, SoundIn, r
<1> QED BY <1>2, <1>9, <1>11, <1>23, <1>24, MarkingSound DEF Marking

(* The queue of a collection in a heap of objects that lie one behind the  *)
(* other: o has been enqueued once tail is above it.                       *)
LEMMA QueueEnds ==
  ASSUME GCTypes, phase = "mark", Queue
  PROVE  /\ gc.head \in Nat /\ gc.tail \in Nat /\ gc.tail <= heap.current /\ heap.current \in Nat
         /\ gc.head \in Ends /\ gc.tail \in Ends
         /\ \A o \in DOMAIN heap.objs : o \in Nat /\ o \in Ends /\ o < heap.current
<1>1. /\ heap.current \in Nat /\ DOMAIN heap.objs \subseteq 0..heap.current - 1
  BY DEF GCTypes, HeapOK
<1>2. gc.head \in Ends /\ gc.tail \in Ends BY DEF Queue, Ends
<1>3. \A o \in DOMAIN heap.objs : o \in Nat /\ o \in Ends /\ o < heap.current BY <1>1 DEF Ends
<1> QED BY <1>1, <1>2, <1>3 DEF Ends

LEMMA MarkObjectSound ==
  ASSUME GCTypes, GCSound, MarkObject
  PROVE  GCSound'
<1> DEFINE D == DOMAIN heap.objs
           h == gc.head
           x == Target(h)
           X == Blackened(x)
<1>1. phase = "mark" /\ gc.head # gc.tail /\ gc.fields = <<>> BY DEF MarkObject
<1>2. GCTypes' BY MarkObjectTypes
<1>3. /\ Queue /\ Frontier /\ RequestOK /\ WordsSound(D) /\ \A o \in D : FieldsIn(o, D)
  BY <1>1 DEF GCSound, Marking, GCTypes
<1>4. /\ h \in Nat /\ gc.tail \in Nat /\ gc.tail <= heap.current /\ heap.current \in Nat
      /\ h \in Ends /\ gc.tail \in Ends /\ \A o \in D : o \in Nat /\ o \in Ends /\ o < heap.current
  BY <1>1, <1>3, QueueEnds
<1>5. h < gc.tail /\ h \in D /\ h \in Slots /\ h \in Waiting
  <2>1. h <= gc.tail BY <1>3 DEF Queue
  <2>2. h < gc.tail BY <1>1, <1>4, <2>1
  <2>3. h \in D BY <1>4, <2>2 DEF Ends
  <2> QED BY <1>4, <2>2, <2>3 DEF Slots, Waiting
<1>6. x \in Enqueued \ Marked /\ x \in D BY <1>3, <1>5 DEF Queue, Enqueued
<1>7. RefersToObject(heap.objs[h].fwd)
  <2>1. heap.objs[h].fwd \in Bases \X Nat /\ SoundIn(heap.objs[h].fwd, D) BY <1>3, <1>5 DEF Queue
  <2>2. heap.objs[h].fwd \in Words /\ heap.objs[h].fwd # Plain BY <2>1, GCAssumption DEF Words
  <2> QED BY <1>1, <2>1, <2>2, SoundRefers
<1>8. /\ phase' = "mark" /\ OnlyBits(X) /\ gc'.roots = gc.roots /\ gc'.fields = heap.objs[x].fields
      /\ gc'.head = NextObj(h) /\ gc'.tail = gc.tail
  BY <1>5, <1>7, MarkObjectTypes
<1>9. /\ DOMAIN X = D
      /\ \A o \in D : /\ X[o].fields = heap.objs[o].fields /\ X[o].fwd = heap.objs[o].fwd
                      /\ X[o].mark = IF o = x THEN TRUE ELSE heap.objs[o].mark
                      /\ X[o].enq = IF o = x THEN FALSE ELSE heap.objs[o].enq
  BY <1>6, BlackenedTypes DEF Blackened
<1>10. heap'.objs = X /\ DOMAIN heap'.objs = D /\ heap'.base = heap.base /\ heap'.current = heap.current
  BY <1>8 DEF OnlyBits
<1> HIDE DEF X, h
<1>11. RequestOK' BY <1>2, <1>8 DEF GCTypes
<1>12. RootWords' = RootWords /\ Reached' = Reached BY <1>2, <1>3, <1>8, <1>9, <1>11, MarkKeeps
<1>13. Marked' = Marked \union {x} /\ Enqueued' = Enqueued \ {x}
       /\ Marked' \union Enqueued' = Marked \union Enqueued
  BY <1>6, <1>9, <1>10 DEF Marked, Enqueued
<1>14. Slots' = Slots /\ \A o \in D : Target(o)' = Target(o)
  BY <1>8, <1>9, <1>10 DEF Slots, Target
<1>15. NextObj(h) \in Ends /\ NextObj(h) <= gc.tail
       /\ \A o \in D : NextObj(h) <= o <=> (h <= o /\ o # h)
  <2>1. /\ NextObj(h) \in Ends /\ h < NextObj(h) /\ NextObj(h) \in Nat
        /\ \A b \in Ends : h < b => NextObj(h) <= b
    BY <1>1, <1>5, ObjectEnds
  <2>2. NextObj(h) <= gc.tail BY <1>4, <1>5, <2>1 DEF h
  <2> QED BY <1>4, <2>1, <2>2
<1>16. Waiting' = Waiting \ {h}
  BY <1>8, <1>14, <1>15 DEF Waiting, Slots, h
<1>17. Slots \subseteq D /\ Waiting \subseteq Slots BY DEF Slots, Waiting
<1>18. \A o \in Waiting : o # h => Target(o) # x BY <1>3, <1>5, <1>17 DEF Queue
<1> HIDE DEF x
<1>19. Queue'
  <2>1. gc'.head \in DOMAIN heap'.objs \union {heap'.current} BY <1>8, <1>10, <1>15 DEF Ends
  <2>2. gc'.tail \in DOMAIN heap'.objs \union {heap'.current} BY <1>3, <1>8, <1>10 DEF Queue
  <2>3. \A o \in Slots' : heap'.objs[o].fwd \in Bases \X Nat /\ SoundAt(heap'.base, heap'.objs[o].fwd, DOMAIN heap'.objs)
    BY <1>3, <1>9, <1>10, <1>14, <1>17 DEF Queue, SoundIn
  <2>4. \A o \in Waiting' : Target(o)' \in Enqueued' \ Marked'
    BY <1>3, <1>13, <1>14, <1>16, <1>17, <1>18 DEF Queue
  <2>5. \A o \in Slots' \ Waiting' : Target(o)' \in Marked'
    <3>1. Target(h) = x BY DEF x
    <3> QED BY <1>3, <1>13, <1>14, <1>16, <1>17, <3>1 DEF Queue
  <2>6. \A o, p \in Slots' : o # p => Target(o)' # Target(p)'
    BY <1>3, <1>14, <1>17 DEF Queue
  <2>7. ASSUME NEW y \in Enqueued' PROVE \E o \in Waiting' : Target(o)' = y
    <3>1. y \in Enqueued /\ y # x BY <1>13
    <3>2. PICK o \in Waiting : Target(o) = y BY <1>3, <3>1 DEF Queue
    <3>3. Target(h) = x BY DEF x
    <3> QED BY <1>14, <1>16, <1>17, <3>1, <3>2, <3>3
  <2> QED BY <1>8, <1>15, <2>1, <2>2, <2>3, <2>4, <2>5, <2>6, <2>7 DEF Queue, SoundIn
<1>20. Frontier'
  <2> DEFINE T == Marked \union Enqueued
  <2>1. /\ Reached \subseteq D /\ FieldsIn(x, Reached)
    <3>1. x \in Reached BY <1>3, <1>6 DEF Frontier
    <3>2. \A w \in RootWords : SoundIn(w, D) BY <1>1, <1>3 DEF WordsSound
    <3> QED BY <1>1, <1>3, <3>1, <3>2, ReachedSound
  <2>2. T \subseteq Reached /\ Marked' \union Enqueued' = T BY <1>3, <1>13 DEF Frontier
  <2>3. \A i \in DOMAIN gc'.fields : SoundAt(heap'.base, gc'.fields[i], Reached)
    BY <1>8, <1>10, <2>1 DEF FieldsIn, SoundIn
  <2>4. \A w \in RootWords' : SoundAt(heap'.base, w, T) \/ \E i \in DOMAIN gc'.roots : gc'.roots[i] = w
    BY <1>3, <1>8, <1>10, <1>12 DEF Frontier, SoundIn
  <2>5. \A i \in DOMAIN gc'.roots : gc'.roots[i] \in RootWords'
    BY <1>3, <1>8, <1>12 DEF Frontier
  <2>6. ASSUME NEW y \in Marked', NEW i \in DOMAIN heap'.objs[y].fields
        PROVE  \/ SoundAt(heap'.base, heap'.objs[y].fields[i], T)
               \/ \E j \in DOMAIN gc'.fields : gc'.fields[j] = heap'.objs[y].fields[i]
    <3>1. y \in D /\ heap'.objs[y].fields = heap.objs[y].fields BY <1>6, <1>9, <1>10, <1>13 DEF Marked
    <3>2. CASE y = x BY <1>8, <3>1, <3>2
    <3>3. CASE y \in Marked
      <4>1. DOMAIN gc.fields = {} BY <1>1
      <4>2. SoundIn(heap.objs[y].fields[i], T) BY <1>3, <3>1, <3>3, <4>1 DEF Frontier
      <4> QED BY <1>10, <3>1, <4>2 DEF SoundIn
    <3> QED BY <1>13, <3>2, <3>3
  <2> HIDE DEF T
  <2> QED BY <1>12, <2>2, <2>3, <2>4, <2>5, <2>6 DEF Frontier, SoundIn
<1> QED BY <1>1, <1>2, <1>8, <1>9, <1>19, <1>20, MarkingSound DEF Marking

(* The queue has room for an object that is neither marked nor in it.      *)
LEMMA QueueHasRoom ==
  ASSUME GCTypes, phase = "mark", Queue, NEW x \in DOMAIN heap.objs, x \notin Marked \union Enqueued
  PROVE  gc.tail \in DOMAIN heap.objs
<1> DEFINE D == DOMAIN heap.objs
<1>1. SUFFICES ASSUME gc.tail = heap.current PROVE FALSE BY DEF Queue
<1>2. Slots = D BY <1>1, QueueEnds DEF Slots
<1>3. ASSUME NEW o \in D PROVE Target(o) \in D \ {x}
  <2>1. Target(o) \in Marked \union Enqueued BY <1>2 DEF Queue
  <2> QED BY <2>1 DEF Marked, Enqueued
<1> DEFINE f == [o \in D |-> Target(o)]
<1>4. f \in [D -> D \ {x}] BY <1>3
<1>5. IsFiniteSet(D)
  <2>0. 0 \in Int /\ heap.current - 1 \in Int BY DEF GCTypes, HeapOK
  <2>1. IsFiniteSet(0..heap.current - 1) BY <2>0, FS_Interval
  <2> QED BY <2>1, FS_Subset DEF GCTypes, HeapOK
<1>6. IsFiniteSet(D \ {x}) /\ Cardinality(D \ {x}) = Cardinality(D) - 1 BY <1>5, FS_RemoveElement
<1>7. Cardinality(D \ {x}) < Cardinality(D) BY <1>5, <1>6, FS_CardinalityType
<1>8. \E o, p \in D : o # p /\ f[o] = f[p]
  <2> HIDE DEF f, D
  <2> QED BY <1>4, <1>5, <1>6, <1>7, FS_PigeonHole
<1> QED BY <1>2, <1>8 DEF Queue

LEMMA VisitFieldSound ==
  ASSUME GCTypes, GCSound, VisitField
  PROVE  GCSound'
<1> DEFINE D == DOMAIN heap.objs
           f == Head(gc.fields)
           r == Tail(gc.fields)
           T == Marked \union Enqueued
<1>1. /\ phase = "mark" /\ phase' = "mark" /\ GCTypes'
      /\ gc.fields \in Seq(Words) /\ gc.fields # <<>>
      /\ gc'.roots = gc.roots /\ gc'.fields = r /\ gc'.head = gc.head
  BY VisitFieldTypes
<1>2. /\ Queue /\ Frontier /\ RequestOK /\ RequestOK' /\ WordsSound(D)
      /\ \A o \in D : FieldsIn(o, D)
  BY <1>1 DEF GCSound, Marking, GCTypes
<1>3. /\ 1 \in DOMAIN gc.fields /\ f = gc.fields[1] /\ f \in Words
      /\ \A j \in DOMAIN gc.fields : gc.fields[j] = f \/ \E k \in DOMAIN r : r[k] = gc.fields[j]
      /\ \A k \in DOMAIN r : \E j \in DOMAIN gc.fields : r[k] = gc.fields[j]
  <2> DEFINE n == Len(gc.fields)
  <2>1. n \in Nat /\ n >= 1 /\ DOMAIN gc.fields = 1..n /\ f = gc.fields[1] /\ f \in Words
    BY <1>1, LenProperties, HeadTailProperties, EmptySeq
  <2>2. r \in Seq(Words) /\ Len(r) = n - 1 /\ \A k \in 1..n - 1 : r[k] = gc.fields[k + 1]
    BY <1>1, HeadTailProperties
  <2>3. DOMAIN r = 1..n - 1 BY <2>1, <2>2, LenProperties
  <2> HIDE DEF f, r, n
  <2>4. ASSUME NEW j \in 1..n, j # 1 PROVE \E k \in DOMAIN r : r[k] = gc.fields[j]
    <3>1. j - 1 \in 1..n - 1 /\ j - 1 + 1 = j BY <2>1, <2>4
    <3> QED BY <2>2, <2>3, <3>1
  <2>5. ASSUME NEW k \in 1..n - 1 PROVE \E j \in 1..n : r[k] = gc.fields[j]
    <3>1. k + 1 \in 1..n BY <2>1
    <3> QED BY <2>2, <3>1
  <2>6. \A j \in 1..n : gc.fields[j] = f \/ \E k \in DOMAIN r : r[k] = gc.fields[j] BY <2>1, <2>4
  <2>7. 1 \in 1..n BY <2>1
  <2> QED BY <2>1, <2>3, <2>5, <2>6, <2>7
<1>4. \A w \in RootWords : SoundIn(w, D) BY <1>1, <1>2 DEF WordsSound
<1>5. Reached \subseteq D /\ SoundIn(f, Reached) BY <1>1, <1>2, <1>3, <1>4, ReachedSound DEF Frontier
<1>6. SoundIn(f, D) BY <1>5, SoundMonotone DEF SoundIn
<1>7. T \subseteq Reached BY <1>2 DEF Frontier
<1> HIDE DEF f, r
(* The frontier after the step, whatever is enqueued.                      *)
<1>8. ASSUME NEW U, T \subseteq U, U \subseteq Reached, SoundIn(f, U), Marked' = Marked,
             Marked' \union Enqueued' = U, NEW X, OnlyBits(X),
             \A o \in D : X[o].fields = heap.objs[o].fields
      PROVE  Frontier'
  <2>1. RootWords' = RootWords /\ Reached' = Reached
    <3>1. GCTypes' /\ RequestOK /\ RequestOK' BY <1>1, <1>2
    <3>2. OnlyBits(X) /\ \A o \in D : X[o].fields = heap.objs[o].fields BY <1>8
    <3> HIDE DEF T
    <3> QED BY <3>1, <3>2, MarkKeeps
  <2>2. heap'.base = heap.base /\ heap'.objs = X BY <1>8 DEF OnlyBits
  <2>3. \A w : SoundIn(w, T) => SoundAt(heap'.base, w, U) BY <1>8, <2>2, SoundMonotone DEF SoundIn
  <2>4. \A w \in RootWords' : SoundAt(heap'.base, w, U) \/ \E i \in DOMAIN gc'.roots : gc'.roots[i] = w
    BY <1>1, <1>2, <2>1, <2>3 DEF Frontier
  <2>5. \A i \in DOMAIN gc'.roots : gc'.roots[i] \in RootWords' BY <1>1, <1>2, <2>1 DEF Frontier
  <2>6. \A k \in DOMAIN gc'.fields : SoundAt(heap'.base, gc'.fields[k], Reached)
    BY <1>1, <1>2, <1>3, <2>2 DEF Frontier, SoundIn
  <2>7. ASSUME NEW y \in Marked', NEW i \in DOMAIN heap'.objs[y].fields
        PROVE  \/ SoundAt(heap'.base, heap'.objs[y].fields[i], U)
               \/ \E k \in DOMAIN gc'.fields : gc'.fields[k] = heap'.objs[y].fields[i]
    <3>1. y \in D /\ heap'.objs[y].fields = heap.objs[y].fields /\ y \in Marked
      BY <1>8, <2>2 DEF Marked
    <3>2. \/ SoundIn(heap.objs[y].fields[i], T)
          \/ \E j \in DOMAIN gc.fields : gc.fields[j] = heap.objs[y].fields[i]
      BY <1>2, <3>1 DEF Frontier
    <3>3. SoundAt(heap'.base, f, U) BY <1>8, <2>2 DEF SoundIn
    <3> QED BY <1>1, <1>3, <2>3, <3>1, <3>2, <3>3
  <2> QED BY <1>8, <2>1, <2>4, <2>5, <2>6, <2>7 DEF Frontier, SoundIn
<1>9. CASE ~ToVisit(f)
  <2>1. OnlyBits(heap.objs) /\ gc'.tail = gc.tail BY <1>1, <1>9, VisitFieldTypes DEF f
  <2>2. heap'.objs = heap.objs /\ heap'.base = heap.base /\ heap'.current = heap.current
    BY <2>1 DEF OnlyBits
  <2>3. Marked' = Marked /\ Enqueued' = Enqueued /\ Slots' = Slots /\ Waiting' = Waiting
    BY <1>1, <2>1, <2>2 DEF Marked, Enqueued, Slots, Waiting
  <2>4. \A o : Target(o)' = Target(o) BY <2>2 DEF Target
  <2>5. Queue' BY <1>1, <1>2, <2>1, <2>2, <2>3, <2>4 DEF Queue, SoundIn
  <2>6. SoundIn(f, T)
    <3>1. CASE ~ToMark(f)
      <4>1. SoundIn(f, Marked) BY <1>1, <1>3, <1>6, <3>1, NotToMark
      <4> QED BY <4>1, SoundMonotone DEF SoundIn
    <3>2. CASE ToMark(f)
      <4>1. IsEnqueued(heap.objs, f) BY <1>9, <3>2 DEF ToVisit
      <4>2. HeaderOf(f) \in Enqueued BY <4>1 DEF IsEnqueued, Enqueued
      <4> QED BY <1>1, <1>3, <1>6, <3>2, <4>2, IsToMark
    <3> QED BY <3>1, <3>2
  <2>7. Frontier' BY <1>7, <1>8, <2>1, <2>3, <2>6
  <2> QED BY <1>1, <2>1, <2>5, <2>7, MarkingSound DEF Marking
<1>10. CASE ToVisit(f)
  <2> DEFINE x == HeaderOf(f)
             t == gc.tail
             X == Queued(t, f)
  <2>1. /\ OnlyBits(X)
        /\ gc'.tail = t + IF t \in D THEN SizeOf(heap.objs[t]) ELSE Header
    BY <1>1, <1>10, VisitFieldTypes DEF f
  <2>2. /\ x \in D \ Marked /\ f \in Bases \X Nat /\ f[1] = heap.base
        /\ \A R : SoundIn(f, R) <=> x \in R
    BY <1>1, <1>3, <1>6, <1>10, IsToMark DEF ToVisit
  <2>3. x \notin Enqueued BY <1>10, <2>2 DEF ToVisit, IsEnqueued, Enqueued
  <2>4. x \in Reached BY <1>5, <2>2
  <2>5. t \in D BY <1>1, <1>2, <2>2, <2>3, QueueHasRoom
  <2>6. /\ DOMAIN X = D
        /\ \A o \in D : /\ X[o].fields = heap.objs[o].fields
                        /\ X[o].fwd = IF o = t THEN f ELSE heap.objs[o].fwd
                        /\ X[o].mark = heap.objs[o].mark
                        /\ X[o].enq = (heap.objs[o].enq \/ o = x)
    BY <2>2, QueuedTypes
  <2> HIDE DEF X, x
  <2>7. heap'.objs = X /\ DOMAIN heap'.objs = D /\ heap'.base = heap.base /\ heap'.current = heap.current
    BY <2>1 DEF OnlyBits
  <2>8. Marked' = Marked /\ Enqueued' = Enqueued \union {x}
    BY <2>2, <2>6, <2>7 DEF Marked, Enqueued
  <2>9. /\ gc.head \in Nat /\ t \in Nat /\ heap.current \in Nat
        /\ \A o \in D : o \in Nat /\ o \in Ends /\ o < heap.current
    BY <1>1, <1>2, QueueEnds
  <2>10. /\ NextObj(t) \in Ends /\ t < NextObj(t) /\ NextObj(t) \in Nat
         /\ \A b \in Ends : t < b => NextObj(t) <= b
    BY <1>1, <2>5, ObjectEnds
  <2>11. gc'.tail = NextObj(t) BY <2>1, <2>5 DEF NextObj
  <2>12. \A o \in D : o < NextObj(t) <=> (o < t \/ o = t) BY <2>9, <2>10
  <2>13. Slots' = Slots \union {t} /\ t \notin Slots
    BY <2>5, <2>7, <2>9, <2>11, <2>12 DEF Slots
  <2>14. gc.head <= t BY <1>2 DEF Queue
  <2>15. Waiting' = Waiting \union {t} BY <1>1, <2>13, <2>14 DEF Waiting
  <2>16. \A o \in Slots \union {t} : Target(o)' = IF o = t THEN x ELSE Target(o)
    BY <2>5, <2>6, <2>7, <2>13 DEF Target, Slots, x
  <2>17. Slots \subseteq D /\ Waiting \subseteq Slots BY DEF Slots, Waiting
  <2>18. \A o \in Slots : Target(o) \in Marked \union Enqueued BY <1>2 DEF Queue
  <2>19. Queue'
    <3>1. /\ gc'.head \in DOMAIN heap'.objs \union {heap'.current}
          /\ gc'.tail \in DOMAIN heap'.objs \union {heap'.current}
          /\ gc'.head <= gc'.tail
      BY <1>1, <1>2, <2>7, <2>9, <2>10, <2>11, <2>14 DEF Queue, Ends
    <3>2. ASSUME NEW o \in Slots'
          PROVE  heap'.objs[o].fwd \in Bases \X Nat /\ SoundAt(heap'.base, heap'.objs[o].fwd, DOMAIN heap'.objs)
      <4>1. CASE o = t BY <1>6, <2>2, <2>5, <2>6, <2>7, <4>1 DEF SoundIn
      <4>2. CASE o \in Slots /\ o # t BY <1>2, <2>6, <2>7, <2>17, <4>2 DEF Queue, SoundIn
      <4> QED BY <2>13, <4>1, <4>2
    <3>3. \A o \in Waiting' : Target(o)' \in Enqueued' \ Marked'
      BY <1>2, <2>2, <2>8, <2>15, <2>16, <2>17 DEF Queue
    <3>4. \A o \in Slots' \ Waiting' : Target(o)' \in Marked'
      BY <1>2, <2>8, <2>13, <2>15, <2>16 DEF Queue
    <3>5. \A o, p \in Slots' : o # p => Target(o)' # Target(p)'
      BY <1>2, <2>2, <2>3, <2>13, <2>16, <2>18 DEF Queue
    <3>6. \A y \in Enqueued' : \E o \in Waiting' : Target(o)' = y
      BY <1>2, <2>8, <2>13, <2>15, <2>16, <2>17 DEF Queue
    <3> QED BY <3>1, <3>2, <3>3, <3>4, <3>5, <3>6 DEF Queue, SoundIn
  <2>20. Frontier'
    <3> DEFINE U == T \union {x}
    <3>1. T \subseteq U /\ U \subseteq Reached /\ SoundIn(f, U) /\ Marked' \union Enqueued' = U
      BY <1>7, <2>2, <2>4, <2>8
    <3> HIDE DEF U, T
    <3> QED BY <1>8, <2>1, <2>6, <2>8, <3>1
  <2> QED BY <1>1, <2>1, <2>6, <2>19, <2>20, MarkingSound DEF Marking
<1> QED BY <1>9, <1>10

-----------------------------------------------------------------------------
(* Exactness of compact_phase                                              *)

(* When mark_phase is over, the marked objects are those that are reached. *)
LEMMA MarkedIsReached ==
  ASSUME GCTypes, GCSound, MarkDone, \A i \in DOMAIN gc.roots : ~ToMark(gc.roots[i])
  PROVE  /\ Enqueued = {} /\ Live = Reached /\ RootWords \subseteq Words
         /\ \A w \in RootWords : SoundIn(w, Live)
         /\ \A o \in Live : FieldsIn(o, Live)
<1> DEFINE D == DOMAIN heap.objs
<1>1. phase = "mark" /\ gc.head = gc.tail /\ gc.fields = <<>> BY DEF MarkDone
<1>2. /\ Queue /\ Frontier /\ RequestOK /\ WordsSound(D) /\ gc.roots \in Seq(Words)
      /\ \A o \in D : FieldsIn(o, D)
  BY <1>1 DEF GCSound, Marking, GCTypes
<1>3. Enqueued = {}
  BY <1>1, <1>2 DEF Queue, Waiting, Slots, Enqueued, GCTypes, HeapOK
<1>4. Live = Marked /\ Marked \union Enqueued = Marked BY <1>3 DEF Live, Marked
<1>5. ASSUME NEW w \in RootWords PROVE SoundIn(w, Live)
  <2>1. CASE SoundIn(w, Marked \union Enqueued) BY <1>4, <2>1
  <2>2. CASE \E i \in DOMAIN gc.roots : gc.roots[i] = w
    <3>1. ~ToMark(w) BY <2>2
    <3>2. w \in Words /\ SoundIn(w, D) BY <1>1, <1>2, RootsAre DEF WordsSound
    <3> QED BY <1>1, <1>4, <3>1, <3>2, NotToMark
  <2> QED BY <1>2, <2>1, <2>2 DEF Frontier
<1>6. ASSUME NEW o \in Live PROVE FieldsIn(o, Live)
  <2>1. DOMAIN gc.fields = {} BY <1>1
  <2> QED BY <1>2, <1>4, <2>1 DEF Frontier, FieldsIn
<1>7. ClosedIn(RootWords, Live)
  <2>1. ASSUME NEW w, RefersToObject(w), SoundIn(w, Live) PROVE HeaderOf(w) \in Live
    BY <2>1 DEF SoundIn, SoundAt, RefersToObject, InHeap
  <2> QED BY <1>5, <1>6, <2>1 DEF ClosedIn, FieldsIn
<1>8. Range(Roots) = RootWords /\ RootWords \subseteq Words BY <1>2, RootsAre
<1>9. Reached \subseteq Live
  <2>1. Live \subseteq D BY DEF Live
  <2> QED BY <1>7, <1>8, <2>1, ReachedIs DEF Reached
<1>10. Live \subseteq Reached BY <1>2, <1>4 DEF Frontier
<1> QED BY <1>3, <1>5, <1>6, <1>8, <1>9, <1>10

(* Where the live objects of the set S will be.                            *)
PlacesOf(S) == {LiveSizeBelow(p) : p \in S}

LEMMA LivePlaces ==
  ASSUME GCTypes, phase = "mark", NEW S \in SUBSET Live, NEW p \in Live
  PROVE  /\ LiveSizeBelow(p) \in Nat
         /\ LiveSizeBelow(p) \in PlacesOf(S) <=> p \in S
<1>1. /\ p \in Ends /\ LiveSizeBelow(p) \in Nat
  BY WordsBelowType DEF Live, Ends
<1>2. ASSUME NEW q \in S, LiveSizeBelow(q) = LiveSizeBelow(p) PROVE p = q
  <2>1. q \in Live /\ q \in Ends /\ LiveSizeBelow(q) \in Nat BY WordsBelowType DEF Live, Ends
  <2>2. p \in Nat /\ q \in Nat BY <2>1, LiveIs
  <2>3. CASE p < q
    <3>1. LiveSizeBelow(p) + SizeOf(heap.objs[p]) <= LiveSizeBelow(q) BY <2>1, <2>3, LiveBelow
    <3>2. SizeOf(heap.objs[p]) \in Nat /\ SizeOf(heap.objs[p]) >= 2 BY LiveIs
    <3> QED BY <1>1, <1>2, <2>1, <3>1, <3>2
  <2>4. CASE q < p
    <3>1. LiveSizeBelow(q) + SizeOf(heap.objs[q]) <= LiveSizeBelow(p) BY <1>1, <2>1, <2>4, LiveBelow
    <3>2. SizeOf(heap.objs[q]) \in Nat /\ SizeOf(heap.objs[q]) >= 2 BY <2>1, LiveIs
    <3> QED BY <1>1, <1>2, <2>1, <3>1, <3>2
  <2> QED BY <2>2, <2>3, <2>4
<1> QED BY <1>1, <1>2 DEF PlacesOf

(* A reference follows the object that it refers to.                       *)
LEMMA RedirectedSound ==
  ASSUME GCTypes, phase = "mark", NEW S \in SUBSET Live, NEW w \in Words, NEW base \in Bases,
         SoundIn(w, Live)
  PROVE  SoundAt(base, Redirected(w, base), PlacesOf(S)) <=> SoundIn(w, S)
<1>1. CASE w = Plain
  <2>1. Redirected(w, base) = Plain BY <1>1, RedirectedType
  <2> QED BY <1>1, <2>1 DEF SoundIn, SoundAt
<1>2. CASE w # Plain
  <2> DEFINE h == HeaderOf(w)
             r == Redirected(w, base)
  <2>1. h \in Live /\ w[1] = heap.base BY <1>2 DEF SoundIn, SoundAt
  <2>2. SoundIn(w, DOMAIN heap.objs) BY <2>1 DEF SoundIn, SoundAt, Live
  <2>3. RefersToObject(w) BY <1>2, <2>2, SoundRefers
  <2>4. r = <<base, LiveSizeBelow(h) + Header>> BY <2>1, <2>3, RedirectedType
  <2>5. LiveSizeBelow(h) \in Nat /\ (LiveSizeBelow(h) \in PlacesOf(S) <=> h \in S)
    BY <2>1, LivePlaces
  <2> HIDE DEF h, r
  <2>6. r[1] = base /\ HeaderOf(r) = LiveSizeBelow(h) BY <2>4, <2>5 DEF HeaderOf, Header
  <2>7. r # Plain BY <2>4, <2>5, GCAssumption DEF Header
  <2>8. SoundIn(w, S) <=> h \in S BY <1>2, <2>1 DEF SoundIn, SoundAt, h
  <2> QED BY <2>5, <2>6, <2>7, <2>8 DEF SoundAt, r
<1> QED BY <1>1, <1>2

LEMMA CompactSound ==
  ASSUME GCTypes, GCSound, Compact
  PROVE  GCSound'
<1> DEFINE D == DOMAIN heap.objs
<1>1. /\ phase = "mark" /\ phase' = "relocate" /\ size' = size /\ MarkDone
      /\ \A i \in DOMAIN gc.roots : ~ToMark(gc.roots[i])
  BY DEF Compact, MarkDone
<1>2. PICK base \in Bases \ {heap.base} :
        /\ heap' = [base |-> base, size |-> NextHeapSize, current |-> heap.current,
                    objs |-> FixedHeap(base)]
        /\ stack' = [i \in DOMAIN stack |->
                       IF i \in FixedWords THEN Redirected(stack[i], base) ELSE stack[i]]
        /\ request' = [request EXCEPT !.escaped = IF @ = None THEN @ ELSE Redirected(@, base)]
  BY CompactIs
<1>3. /\ Enqueued = {} /\ Live = Reached /\ RootWords \subseteq Words
      /\ \A w \in RootWords : SoundIn(w, Live)
      /\ \A o \in Live : FieldsIn(o, Live)
  BY <1>1, MarkedIsReached
<1>4. heap'.base = base /\ heap'.objs = FixedHeap(base) BY <1>2
<1>5. /\ DOMAIN heap'.objs = D
      /\ \A o \in D : heap'.objs[o].mark = heap.objs[o].mark /\ heap'.objs[o].enq = heap.objs[o].enq
      /\ \A o \in Live : /\ o \in D /\ heap'.objs[o].fields = FixedFields(o, base)
                         /\ heap'.objs[o].fwd = <<heap.base, LiveSizeBelow(o)>>
  <2>1. DOMAIN FixedHeap(base) = D BY DEF FixedHeap
  <2>2. \A o \in Live : o \in D BY DEF Live
  <2> QED BY <1>1, <1>4, <2>1, <2>2, FixedHeapTypes
<1>6. gc'.from = 0 /\ Sliding(0)' BY CompactSlides DEF Compact
<1>7. Settled(0)' = {} /\ Moving' = Live
  <2>1. D \subseteq Nat BY DEF GCTypes, HeapOK
  <2>2. Settled(0)' = {} BY <1>5, <2>1 DEF Settled
  <2>3. Unmoved' = D BY <1>5, <1>6, <2>1 DEF Unmoved
  <2> QED BY <1>5, <2>2, <2>3 DEF Moving, Live
<1>8. \A p \in Live : Place(p)' = LiveSizeBelow(p) BY <1>5 DEF Place
<1>9. Places(0)' = PlacesOf(Live) BY <1>7, <1>8 DEF Places, PlacesOf
<1> DEFINE V(w) == Redirected(w, base)
<1>10. /\ stack[0] = Plain /\ RequestOK /\ stack \in [0..StackWords -> Words] /\ DOMAIN stack = 0..StackWords
       /\ size \in Nat /\ size >= 2 /\ StackWords \in Nat /\ size <= StackWords
  BY <1>1, DepthType DEF GCTypes, GCSound
<1>11. stack'[0] = Plain /\ \A i \in 1..size : stack'[i] = V(stack[i])
  <2>1. 0 \in 0..StackWords /\ 0 \notin 1..size /\ \A i \in 1..size : i \in 0..StackWords BY <1>10
  <2> HIDE DEF V
  <2> QED BY <1>2, <1>10, <2>1 DEF FixedWords, V
<1>12. request'.n = request.n /\ request'.first = request.first
       /\ request'.escaped = IF request.escaped = None THEN None ELSE V(request.escaped)
  <2> DEFINE k == request.kind
             n == request.n
             f == request.first
             p == request.pops
             e == request.escaped
             d == IF e = None THEN e ELSE V(e)
  <2>1. request = [kind |-> k, n |-> n, first |-> f, pops |-> p, escaped |-> e]
    BY <1>10 DEF RequestOK
  <2>2. request' = [request EXCEPT !.escaped = d] BY <1>2
  <2> HIDE DEF k, n, f, p, e, d
  <2>3. request' = [kind |-> k, n |-> n, first |-> f, pops |-> p, escaped |-> d]
    BY <2>1, <2>2
  <2> QED BY <2>3 DEF n, f, d, e
<1>13. \A w \in Words : V(w) \in Words BY <1>1, RedirectedType
<1>14. None \notin Words BY GCAssumption DEF Words
<1> HIDE DEF V
<1>15. RootWords' = {V(w) : w \in RootWords}
  <2>1. /\ request.n \in Nat /\ request.first \in Nat /\ request.first >= 1
        /\ request.first + request.n <= size + 1 /\ request.escaped \in Words \union {None}
    BY <1>10 DEF RequestOK
  <2>2. \A i \in 1..request.n : request.first + i - 1 \in 1..size BY <1>10, <2>1
  <2>3. {stack'[request'.first + i - 1] : i \in 1..request'.n}
          = {V(stack[request.first + i - 1]) : i \in 1..request.n}
    BY <1>11, <1>12, <2>2
  <2>4. \A i \in 1..size - 1 : i \in 1..size BY <1>10
  <2>5. {stack'[i] : i \in 1..size' - 1} = {V(stack[i]) : i \in 1..size - 1}
    BY <1>1, <1>11, <2>4
  <2>6. {request'.escaped} \ {None} = {V(w) : w \in {request.escaped} \ {None}}
    BY <1>12, <1>13, <1>14, <2>1
  <2> DEFINE A == {stack[i] : i \in 1..size - 1}
             B == {stack[request.first + i - 1] : i \in 1..request.n}
             C == {request.escaped} \ {None}
  <2>7. /\ {V(stack[i]) : i \in 1..size - 1} = {V(w) : w \in A}
        /\ {V(stack[request.first + i - 1]) : i \in 1..request.n} = {V(w) : w \in B}
    OBVIOUS
  <2>8. RootWords' = {V(w) : w \in A} \union {V(w) : w \in B} \union {V(w) : w \in C}
    BY <2>3, <2>5, <2>6, <2>7 DEF RootWords
  <2>9. RootWords = A \union B \union C BY DEF RootWords
  <2> HIDE DEF A, B, C
  <2> QED BY <2>8, <2>9
(* What a set of objects in the new heap retains.                          *)
<1>16. ASSUME NEW S \in SUBSET Live, NEW R, R = PlacesOf(S)
       PROVE  Retained(0, R)' <=> /\ \A w \in RootWords : SoundIn(w, S)
                                  /\ \A p \in S : FieldsIn(p, S)
  <2>1. \A w \in Words : SoundIn(w, Live) =>
          (SoundAt(base, V(w), PlacesOf(S)) <=> SoundIn(w, S))
    BY <1>1, RedirectedSound DEF V
  <2>2. (\A w \in RootWords' : SoundAt(base, w, PlacesOf(S))) <=> \A w \in RootWords : SoundIn(w, S)
    BY <1>3, <1>15, <2>1
  <2>3. ASSUME NEW p \in Live
        PROVE  (\A i \in DOMAIN heap'.objs[p].fields : SoundAt(base, heap'.objs[p].fields[i], PlacesOf(S)))
                 <=> FieldsIn(p, S)
    <3>1. heap'.objs[p].fields = [i \in DOMAIN heap.objs[p].fields |-> V(heap.objs[p].fields[i])]
      BY <1>5 DEF FixedFields, V
    <3>2. \A i \in DOMAIN heap.objs[p].fields :
            heap.objs[p].fields[i] \in Words /\ SoundIn(heap.objs[p].fields[i], Live)
      BY <1>3, <1>5, FieldWord DEF FieldsIn
    <3> QED BY <2>1, <3>1, <3>2 DEF FieldsIn
  <2>4. \A p \in Live : LiveSizeBelow(p) \in PlacesOf(S) <=> p \in S
    BY <1>1, LivePlaces
  <2>6. Retained(0, R)' <=> /\ \A w \in RootWords' : SoundAt(heap'.base, w, R)
                            /\ \A o \in Settled(0)' \intersect R : FieldsIn(o, R)'
                            /\ \A p \in Moving' : Place(p)' \in R =>
                                 \A i \in DOMAIN heap'.objs[p].fields : SoundAt(heap'.base, heap'.objs[p].fields[i], R)
    BY DEF Retained, FieldsIn, SoundIn
  <2> QED BY <1>4, <1>7, <1>8, <1>16, <2>2, <2>3, <2>4, <2>6
<1>17. PICK P : P = PlacesOf(Live) OBVIOUS
<1>18. Retained(0, P)' BY <1>3, <1>16, <1>17
<1>19. ASSUME NEW R \in SUBSET P, Retained(0, R)' PROVE P \subseteq R
  <2> DEFINE S == {p \in Live : LiveSizeBelow(p) \in R}
  <2>1. S \in SUBSET Live /\ R = PlacesOf(S) BY <1>17, <1>19 DEF PlacesOf
  <2> HIDE DEF S
  <2>2. /\ \A w \in RootWords : SoundIn(w, S)
        /\ \A p \in S : FieldsIn(p, S)
    BY <1>16, <1>19, <2>1
  <2>3. ClosedIn(RootWords, S)
    <3>1. ASSUME NEW w, RefersToObject(w), SoundIn(w, S) PROVE HeaderOf(w) \in S
      BY <3>1 DEF SoundIn, SoundAt, RefersToObject, InHeap
    <3> QED BY <2>2, <3>1 DEF ClosedIn, FieldsIn
  <2>4. Reached \subseteq S
    <3>1. Range(Roots) = RootWords BY <1>10, RootsAre
    <3>2. S \subseteq D BY <2>1 DEF Live
    <3> QED BY <2>3, <3>1, <3>2, ReachedIs DEF Reached
  <2>5. Live \subseteq S BY <1>3, <2>4
  <2> QED BY <1>17, <2>1, <2>5 DEF PlacesOf
<1>20. \A w \in RootWords' : SoundAt(heap'.base, w, P)
  <2>1. \A w \in RootWords' : SoundIn(w, P)' BY <1>18 DEF Retained
  <2> QED BY <2>1 DEF SoundIn
<1>21. ASSUME NEW i \in 0..size' - 1 PROVE SoundAt(heap'.base, stack'[i], P)
  <2>1. CASE i = 0 BY <1>11, <2>1 DEF SoundAt
  <2>2. CASE i # 0
    <3>1. i \in 1..size' - 1 BY <1>1, <1>10, <2>2
    <3>2. stack'[i] \in RootWords' BY <3>1 DEF RootWords
    <3> QED BY <1>20, <3>2
  <2> QED BY <2>1, <2>2
<1>22. WordsSound(P)' BY <1>20, <1>21 DEF WordsSound, SoundIn
<1>23. Places(0)' = P BY <1>9, <1>17
<1>24. SlidingSound(0)'
  <2>1. WordsSound(Places(0))' /\ Retained(0, Places(0))'
    BY <1>18, <1>22, <1>23 DEF WordsSound, Retained, SoundIn, FieldsIn
  <2>2. (\A R \in SUBSET Places(0) : Retained(0, R) => Places(0) \subseteq R)'
    BY <1>19, <1>23
  <2> QED BY <1>6, <1>7, <2>1, <2>2 DEF SlidingSound
<1>25. Enqueued' = {} BY <1>3, <1>5 DEF Enqueued
<1> QED BY <1>1, <1>6, <1>11, <1>24, <1>25 DEF GCSound, CollectionIsExact

LEMMA CompactGarbageSound ==
  ASSUME GCTypes, GCSound, CompactGarbage
  PROVE  GCSound'
<1>1. /\ MarkDone /\ \A i \in DOMAIN gc.roots : ~ToMark(gc.roots[i])
      /\ phase' = "killed" /\ heap' = heap /\ stack' = stack
  BY DEF CompactGarbage, interpreter
<1>2. Enqueued = {} BY <1>1, MarkedIsReached
<1>3. Enqueued' = {} BY <1>1, <1>2 DEF Enqueued
<1> QED BY <1>1, <1>3 DEF GCSound, CollectionIsExact

(* The objects of N are moved to their places.                             *)
LEMMA SlidesOn ==
  ASSUME NEW free, SlidingSound(free), NEW next, Sliding(next)', NEW N \in SUBSET Moving,
         phase = "relocate", phase' = phase, UNCHANGED <<stack, size, request>>,
         heap'.base = heap.base,
         Settled(next)' = Settled(free) \union {Place(p) : p \in N}, Moving' = Moving \ N,
         \A o \in Settled(free) : heap'.objs[o] = heap.objs[o],
         \A p \in Moving \ N : heap'.objs[p] = heap.objs[p],
         \A p \in N : heap'.objs[Place(p)].fields = heap.objs[p].fields /\ ~heap'.objs[Place(p)].mark
  PROVE  SlidingSound(next)'
<1>1. /\ \A o \in Settled(free) : ~heap.objs[o].mark
      /\ WordsSound(Places(free)) /\ Retained(free, Places(free))
      /\ \A R \in SUBSET Places(free) : Retained(free, R) => Places(free) \subseteq R
  BY DEF SlidingSound
<1>2. \A p \in Moving \ N : Place(p)' = Place(p) BY DEF Place
<1>3. PICK P : P = Places(free) OBVIOUS
<1>4. Places(next)' = P
  <2>1. Places(next)' = Settled(next)' \union {Place(p)' : p \in Moving'} BY DEF Places
  <2>2. {Place(p)' : p \in Moving'} = {Place(p) : p \in Moving \ N} BY <1>2
  <2> QED BY <1>3, <2>1, <2>2 DEF Places
<1>5. RootWords' = RootWords BY DEF RootWords
<1>6. \A o \in Settled(next)' : ~heap'.objs[o].mark BY <1>1
<1>7. ASSUME NEW R PROVE Retained(next, R)' <=> Retained(free, R)
  <2>1. \A w : SoundIn(w, R)' = SoundIn(w, R) BY DEF SoundIn
  <2>2. \A o \in Settled(free) : FieldsIn(o, R)' = FieldsIn(o, R) BY <2>1 DEF FieldsIn
  <2>3. \A p \in Moving \ N : FieldsIn(p, R)' = FieldsIn(p, R) BY <2>1 DEF FieldsIn
  <2>4. ASSUME NEW p \in N, NEW o, o = Place(p) PROVE FieldsIn(o, R)' <=> FieldsIn(p, R)
    <3>1. FieldsIn(p, R) <=> \A i \in DOMAIN heap.objs[p].fields : SoundAt(heap.base, heap.objs[p].fields[i], R)
      BY DEF FieldsIn, SoundIn
    <3>2. FieldsIn(o, R)' <=> \A i \in DOMAIN heap'.objs[o].fields : SoundAt(heap'.base, heap'.objs[o].fields[i], R)
      BY DEF FieldsIn, SoundIn
    <3> QED BY <2>4, <3>1, <3>2
  <2>5. (\A w \in RootWords : SoundIn(w, R))' <=> \A w \in RootWords : SoundIn(w, R)
    BY <1>5, <2>1
  <2>6. (\A o \in Settled(next) \intersect R : FieldsIn(o, R))'
          <=> /\ \A o \in Settled(free) \intersect R : FieldsIn(o, R)
              /\ \A p \in N : Place(p) \in R => FieldsIn(p, R)
    BY <2>2, <2>4
  <2>7. (\A p \in Moving : Place(p) \in R => FieldsIn(p, R))'
          <=> \A p \in Moving \ N : Place(p) \in R => FieldsIn(p, R)
    BY <1>2, <2>3
  <2> QED BY <2>5, <2>6, <2>7 DEF Retained
<1>8. WordsSound(P)' BY <1>1, <1>3, <1>5 DEF WordsSound, SoundIn
<1>9. Retained(next, P)' BY <1>1, <1>3, <1>7
<1>10. \A R \in SUBSET P : Retained(next, R)' => P \subseteq R BY <1>1, <1>3, <1>7
<1> QED BY <1>4, <1>6, <1>8, <1>9, <1>10 DEF SlidingSound

LEMMA RelocateSound ==
  ASSUME GCTypes, GCSound, Relocate
  PROVE  GCSound'
<1>1. /\ phase = "relocate" /\ phase' = phase /\ UNCHANGED <<stack, size, request>>
  BY DEF Relocate, interpreter
<1>2. PICK free \in 0..gc.from : SlidingSound(free) BY <1>1 DEF GCSound
<1>3. Sliding(free) BY <1>2 DEF SlidingSound
<1>4. stack'[0] = Plain /\ Enqueued = {} BY <1>1 DEF GCSound
<1>5. Enqueued' = {} /\ \E x \in 0..gc'.from : SlidingSound(x)'
  <2>1. CASE ~heap.objs[gc.from].mark
    <3>1. heap' = heap /\ Moving' = Moving /\ Settled(free)' = Settled(free) /\ Sliding(free)'
      BY <1>3, <2>1, PassOver
    <3> DEFINE N == {}
    <3>2. N \in SUBSET Moving /\ Moving' = Moving \ N BY <3>1
    <3>3. {Place(p) : p \in N} = {} OBVIOUS
    <3>4. Settled(free)' = Settled(free) \union {Place(p) : p \in N} BY <3>1, <3>3
    <3>5. \A p \in N : heap'.objs[Place(p)].fields = heap.objs[p].fields /\ ~heap'.objs[Place(p)].mark
      OBVIOUS
    <3> HIDE DEF N
    <3>6. SlidingSound(free)' BY <1>1, <1>2, <3>1, <3>2, <3>4, <3>5, SlidesOn
    <3>7. free \in 0..gc'.from BY <3>1 DEF Sliding
    <3>8. Enqueued' = {} BY <1>4, <3>1 DEF Enqueued
    <3> QED BY <3>6, <3>7, <3>8
  <2>2. CASE heap.objs[gc.from].mark
    <3>1. PICK next : next = free + SizeOf(heap.objs[gc.from]) OBVIOUS
    <3>2. /\ heap'.base = heap.base /\ gc.from \in Moving /\ Place(gc.from) = free
          /\ Moving' = Moving \ {gc.from} /\ Settled(next)' = Settled(free) \union {free}
          /\ \A o \in Settled(free) \union (Unmoved \ {gc.from}) :
               o \in DOMAIN heap'.objs /\ heap'.objs[o] = heap.objs[o]
          /\ heap'.objs[free].fields = heap.objs[gc.from].fields /\ ~heap'.objs[free].mark
          /\ heap'.objs[free].enq = heap.objs[gc.from].enq
          /\ DOMAIN heap'.objs \subseteq DOMAIN heap.objs \union {free}
          /\ \A o \in DOMAIN heap'.objs : o # free => heap'.objs[o] = heap.objs[o]
          /\ Sliding(next)'
      BY <1>3, <2>2, <3>1, MoveDown
    <3> DEFINE N == {gc.from}
    <3>3. N \in SUBSET Moving /\ Moving' = Moving \ N /\ {Place(p) : p \in N} = {free} BY <3>2
    <3>4. \A p \in N : heap'.objs[Place(p)].fields = heap.objs[p].fields /\ ~heap'.objs[Place(p)].mark
      BY <3>2
    <3>5. Moving \ N \subseteq Unmoved \ {gc.from} BY DEF Moving
    <3>6. /\ \A o \in Settled(free) : heap'.objs[o] = heap.objs[o]
          /\ \A p \in Moving \ N : heap'.objs[p] = heap.objs[p]
      BY <3>2, <3>5
    <3>7. Settled(next)' = Settled(free) \union {Place(p) : p \in N} BY <3>2, <3>3
    <3> HIDE DEF N
    <3>8. SlidingSound(next)' BY <1>1, <1>2, <3>2, <3>3, <3>4, <3>6, <3>7, SlidesOn
    <3>9. next \in 0..gc'.from BY <3>2 DEF Sliding
    <3>10. Enqueued' = {}
      <4>1. gc.from \in DOMAIN heap.objs BY <3>2 DEF Moving, Unmoved
      <4>2. \A o \in DOMAIN heap.objs : ~heap.objs[o].enq BY <1>4 DEF Enqueued
      <4> QED BY <3>2, <4>1, <4>2 DEF Enqueued
    <3> QED BY <3>8, <3>9, <3>10
  <2> QED BY <2>1, <2>2
<1> QED BY <1>1, <1>4, <1>5 DEF GCSound, CollectionIsExact

LEMMA FinishSound ==
  ASSUME GCTypes, GCSound, FinishCompact
  PROVE  GCSound'
<1>1. /\ phase = "relocate" /\ phase' = "again" /\ UNCHANGED <<stack, size, request>>
  BY DEF FinishCompact, interpreter
<1>2. PICK free \in 0..gc.from : SlidingSound(free) BY <1>1 DEF GCSound
<1>3. /\ Sliding(free) /\ \A o \in Settled(free) : ~heap.objs[o].mark
      /\ WordsSound(Places(free)) /\ Retained(free, Places(free))
      /\ \A R \in SUBSET Places(free) : Retained(free, R) => Places(free) \subseteq R
  BY <1>2 DEF SlidingSound
<1>4. /\ gc.live = free /\ Moving = {} /\ free \in Nat
      /\ heap'.base = heap.base /\ heap'.size = heap.size /\ heap'.current = free
      /\ DOMAIN heap'.objs = Settled(free)
      /\ Tiled(heap'.objs, Settled(free), 0, free)
      /\ \A o \in Settled(free) : o \in DOMAIN heap.objs /\ heap'.objs[o] = heap.objs[o]
  BY <1>3, FinishIs
<1>5. PICK P : P = Settled(free) OBVIOUS
<1>6. Places(free) = P BY <1>4, <1>5 DEF Places
<1>7. PICK S : S = RootWords OBVIOUS
<1>8. /\ RootWords' = S /\ Range(Roots)' = S /\ S \subseteq Words
      /\ \A w \in S : SoundAt(heap.base, w, P)
  <2>1. RequestOK BY <1>1 DEF GCTypes
  <2>2. Range(Roots) = S /\ S \subseteq Words BY <1>7, <2>1, RootsAre
  <2>3. Roots' = Roots BY <1>1 DEF Roots, Registered
  <2>4. RootWords' = S BY <1>1, <1>7 DEF RootWords
  <2> QED BY <1>1, <1>3, <1>6, <1>7, <2>2, <2>3, <2>4 DEF WordsSound, SoundIn
<1>9. \A o \in P : /\ o \in DOMAIN heap.objs /\ o \in DOMAIN heap'.objs
                   /\ heap'.objs[o].fields = heap.objs[o].fields
                   /\ \A i \in DOMAIN heap.objs[o].fields : SoundAt(heap.base, heap.objs[o].fields[i], P)
  BY <1>3, <1>4, <1>5, <1>6 DEF Retained, FieldsIn, SoundIn
<1>10. WordsSound(P)' BY <1>1, <1>3, <1>4, <1>6, <1>7, <1>8 DEF WordsSound, SoundIn
<1>11. \A o \in P : FieldsIn(o, P)' BY <1>4, <1>9 DEF FieldsIn, SoundIn
<1>12. NoBits'
  <2>1. Enqueued = {} BY <1>1 DEF GCSound
  <2>2. \A o \in DOMAIN heap.objs : ~heap.objs[o].enq BY <2>1 DEF Enqueued
  <2> QED BY <1>3, <1>4, <2>2 DEF NoBits
<1>13. Fits'
  <2>1. gc.live + WordsOf(request.kind, request.n) <= heap.size BY <1>3 DEF Sliding
  <2> QED BY <1>1, <1>4, <2>1 DEF Fits
(* A sound word refers to an object of the new heap.                       *)
<1>14. ASSUME NEW w \in Words, w # Plain, SoundAt(heap.base, w, P)
       PROVE  RefersToObject(w)'
  <2>1. w[1] = heap.base /\ HeaderOf(w) \in P BY <1>14 DEF SoundAt
  <2>2. w[2] \in Nat BY <1>14, WordType
  <2>3. PICK o : o = HeaderOf(w) OBVIOUS
  <2>4. o + SizeOf(heap'.objs[o]) <= free
    BY <1>4, <1>5, <2>1, <2>3 DEF Tiled, EndOf
  <2>5. SizeOf(heap.objs[o]) \in Nat /\ SizeOf(heap.objs[o]) >= 2 /\ heap'.objs[o] = heap.objs[o]
    BY <1>4, <1>5, <1>9, <2>1, <2>3, ObjectIs
  <2>6. o = w[2] - 2 BY <2>3 DEF HeaderOf, Header
  <2>7. w[2] <= free BY <1>4, <2>2, <2>4, <2>5, <2>6
  <2> QED BY <1>4, <1>5, <1>14, <2>1, <2>7 DEF RefersToObject, InHeap
<1>15. ASSUME NEW R \in SUBSET P, ClosedIn(S, R)'
       PROVE  P \subseteq R
  <2>1. ASSUME NEW w \in Words, SoundAt(heap.base, w, P), RefersToObject(w)' => HeaderOf(w) \in R
        PROVE  SoundAt(heap.base, w, R)
    BY <1>14, <2>1 DEF SoundAt
  <2>2. \A w \in S : SoundAt(heap.base, w, R)
    BY <1>8, <1>15, <2>1 DEF ClosedIn
  <2>3. ASSUME NEW o \in R, NEW i \in DOMAIN heap.objs[o].fields
        PROVE  SoundAt(heap.base, heap.objs[o].fields[i], R)
    <3>1. heap.objs[o].fields[i] \in Words BY <1>9, FieldWord
    <3>2. heap'.objs[o].fields = heap.objs[o].fields BY <1>9
    <3>3. PICK w : w = heap.objs[o].fields[i] OBVIOUS
    <3>4. RefersToObject(w)' => HeaderOf(w) \in R
      <4>1. \A j \in DOMAIN heap'.objs[o].fields : \A x : 
              x = heap'.objs[o].fields[j] /\ RefersToObject(x)' => HeaderOf(x) \in R
        BY <1>15 DEF ClosedIn
      <4> QED BY <3>2, <3>3, <4>1
    <3> QED BY <1>9, <2>1, <3>1, <3>3, <3>4
  <2>4. Retained(free, R)
    BY <1>4, <1>5, <1>7, <2>2, <2>3 DEF Retained, FieldsIn, SoundIn
  <2> QED BY <1>3, <1>6, <2>4
<1>16. ReachedFrom(S)' = P
  <2>1. ReachedFrom(S)' = {o \in DOMAIN heap'.objs :
                             \A R \in SUBSET DOMAIN heap'.objs : ClosedIn(S, R)' => o \in R}
    BY DEF ReachedFrom, ClosedIn
  <2> QED BY <1>4, <1>5, <1>15, <2>1
<1>17. CollectionIsExact'
  <2>1. ReachedFrom(Range(Roots))' = P BY <1>8, <1>16 DEF ReachedFrom, RefersToObject, InHeap
  <2> QED BY <1>4, <1>5, <1>13, <2>1 DEF CollectionIsExact
<1>18. /\ WordsSound(DOMAIN heap.objs)'
       /\ (\A o \in DOMAIN heap.objs : FieldsIn(o, DOMAIN heap.objs))'
  BY <1>4, <1>5, <1>10, <1>11 DEF WordsSound, FieldsIn, SoundIn
<1>19. stack'[0] = Plain BY <1>1 DEF GCSound
<1> QED BY <1>1, <1>12, <1>17, <1>18, <1>19 DEF GCSound

LEMMA ExecuteSound ==
  ASSUME AllScanned, GCTypes, GCSound, Execute
  PROVE  GCSound'
<1>1. CASE Const
  <2>1. phase = "run" /\ 0 <= Depth /\ Replace(0, Plain) BY <1>1, DepthType DEF Const, Running
  <2> QED BY <2>1, PlainSound, ReplaceSound
<1>2. CASE Dup
  <2>1. 0 < Depth /\ phase = "run" /\ Replace(0, Top(0)) BY <1>2 DEF Dup, Running
  <2>2. SoundIn(Top(0), DOMAIN heap.objs) /\ 0 <= Depth BY <2>1, SoundTop, DepthType
  <2> QED BY <2>1, <2>2, ReplaceSound
<1>3. CASE \E i \in Variables : Load(i) \/ Store(i)
  <2>1. PICK i \in Variables : Load(i) \/ Store(i) BY <1>3
  <2>2. CASE Load(i)
    <3>1. phase = "run" /\ Replace(0, stack[i]) BY <2>2 DEF Load, Running
    <3>2. SoundIn(stack[i], DOMAIN heap.objs) /\ 0 <= Depth BY <3>1, SoundVariable, DepthType
    <3> QED BY <3>1, <3>2, ReplaceSound
  <2> QED BY <2>1, <2>2, StoreSound
<1>4. CASE \E n \in program.arrays : NewArray(n)
  BY <1>4, NewArraySound, Numbers DEF GCTypes
<1>5. CASE \E n \in program.sexps : NewSexp(n)
  BY <1>5, NewSexpSound, Numbers DEF GCTypes
<1>6. CASE \E n \in program.closures : NewClosure(n)
  BY <1>6, NewClosureSound, Numbers DEF GCTypes
<1>7. CASE \E args \in 0..1 : Begin(args) BY <1>7, BeginSound
<1> QED BY <1>1, <1>2, <1>3, <1>4, <1>5, <1>6, <1>7, DropSound, SwapSound, ElemSound, StaSound,
           EndSound, NewStringSound, RenderStringSound DEF Execute

LEMMA CollectSound ==
  ASSUME GCTypes, GCSound, Collect
  PROVE  GCSound'
BY AllocateSound, StartMarkSound, MarkRootSound, MarkObjectSound, VisitFieldSound, CompactSound,
   CompactGarbageSound, RelocateSound, FinishSound DEF Collect

LEMMA InitSound ==
  ASSUME GCInit
  PROVE  GCSound
<1>1. /\ program \in Programs /\ phase = "run" /\ stack = [i \in 0..StackWords |-> Plain]
      /\ size = Globals + 2 + Locals /\ DOMAIN heap.objs = {}
  BY DEF GCInit
<1>2. size \in Nat /\ StackWords \in Nat /\ size <= StackWords BY <1>1, Numbers
<1>3. \A i \in 0..size - 1 : stack[i] = Plain BY <1>1, <1>2
<1>4. stack[0] = Plain BY <1>1, <1>2
<1>5. WordsSound(DOMAIN heap.objs) BY <1>1, <1>3, PlainSound DEF WordsSound
<1> QED BY <1>1, <1>4, <1>5 DEF GCSound, NoBits, CollectionIsExact

LEMMA StutterSound ==
  ASSUME GCTypes, GCSound, UNCHANGED gcVars
  PROVE  GCSound'
<1>1. /\ program' = program /\ phase' = phase /\ stack' = stack /\ size' = size /\ frames' = frames
      /\ request' = request /\ heap' = heap /\ gc' = gc
  BY DEF gcVars
<1>2. \A R : WordsSound(R)' = WordsSound(R)
  BY <1>1 DEF WordsSound, RootWords, SoundIn
<1>3. \A o, R : FieldsIn(o, R)' = FieldsIn(o, R) BY <1>1 DEF FieldsIn, SoundIn
<1>4. NoBits' = NoBits /\ Enqueued' = Enqueued /\ Marked' = Marked BY <1>1 DEF NoBits, Enqueued, Marked
<1>5. Roots' = Roots /\ RootWords' = RootWords BY <1>1 DEF Roots, Registered, RootWords
<1>6. \A S : ReachedFrom(S)' = ReachedFrom(S) BY <1>1, ReachedKept
<1>7. Reached' = Reached BY <1>1, <1>5 DEF Reached, ReachedFrom, RefersToObject, InHeap
<1>8. CollectionIsExact' = CollectionIsExact
  BY <1>1, <1>5, <1>7 DEF CollectionIsExact, Reached, Fits
<1>9. Marking' = Marking
  <2>1. Queue' = Queue BY <1>1, <1>4 DEF Queue, Slots, Waiting, Target, SoundIn
  <2>2. Frontier' = Frontier BY <1>1, <1>4, <1>5, <1>7 DEF Frontier, SoundIn
  <2> QED BY <2>1, <2>2 DEF Marking
<1>10. ASSUME NEW free, SlidingSound(free) PROVE SlidingSound(free)'
  <2>1. Settled(free)' = Settled(free) /\ Unmoved' = Unmoved BY <1>1 DEF Settled, Unmoved
  <2>2. Moving' = Moving BY <1>1, <2>1 DEF Moving
  <2>3. \A p : Place(p)' = Place(p) BY <1>1 DEF Place
  <2>4. Sliding(free)' BY <1>1, <1>10, <2>1, <2>2, <2>3 DEF SlidingSound, Sliding
  <2>5. Places(free)' = Places(free) BY <2>1, <2>2, <2>3 DEF Places
  <2>6. \A R : Retained(free, R)' = Retained(free, R)
    BY <1>1, <1>3, <1>5, <2>1, <2>2, <2>3 DEF Retained, SoundIn
  <2>7. \A o \in Settled(free)' : ~heap'.objs[o].mark BY <1>1, <1>10, <2>1 DEF SlidingSound
  <2>8. WordsSound(Places(free))' /\ Retained(free, Places(free))'
    <3>1. PICK P : P = Places(free) OBVIOUS
    <3>2. WordsSound(P)' /\ Retained(free, P)'
      BY <1>2, <1>10, <2>6, <3>1 DEF SlidingSound
    <3>3. P = Places(free)' BY <2>5, <3>1
    <3> QED BY <3>2, <3>3 DEF WordsSound, Retained, SoundIn, FieldsIn
  <2> QED BY <1>10, <2>4, <2>5, <2>6, <2>7, <2>8 DEF SlidingSound
<1>11. /\ WordsSound(DOMAIN heap.objs)' = WordsSound(DOMAIN heap.objs)
       /\ (\A o \in DOMAIN heap.objs : FieldsIn(o, DOMAIN heap.objs))'
            = (\A o \in DOMAIN heap.objs : FieldsIn(o, DOMAIN heap.objs))
  BY <1>1, <1>2, <1>3 DEF WordsSound, FieldsIn, SoundIn, RootWords
<1>12. (\E free \in 0..gc.from : SlidingSound(free)) => (\E free \in 0..gc.from : SlidingSound(free))'
  BY <1>1, <1>10
<1> QED BY <1>1, <1>4, <1>8, <1>9, <1>11, <1>12 DEF GCSound

(* When every root that the collector reads is initialised, the words of   *)
(* the program always refer to objects, whatever it does.                  *)
THEOREM GCSoundInvariant ==
  ASSUME AllScanned
  PROVE  GCSpec => [](GCTypes /\ GCSound)
<1>1. GCInit => GCSound BY InitSound
<1>2. GCTypes /\ GCSound /\ [GCNext]_gcVars => GCSound'
  BY ExecuteSound, CollectSound, StutterSound DEF GCNext
<1>3. GCSpec => []GCTypes BY GCTypesInvariant
<1> QED BY <1>1, <1>2, <1>3, PTL DEF GCSpec

(* For those programs the collection is exact, whatever their objects, the *)
(* sizes of the heap and the stack and the sequence of earlier collections *)
(* are: it keeps the objects that can be reached from the roots, all of    *)
(* them and no other, and what is asked for fits in the new heap.          *)
THEOREM CollectionExact ==
  ASSUME AllScanned
  PROVE  GCSpec => []CollectionIsExact
<1>1. GCTypes /\ GCSound => CollectionIsExact BY DEF GCSound
<1> QED BY <1>1, GCSoundInvariant, PTL

(* Marking stops exactly when no element is waiting: what is in the queue  *)
(* stands in the objects from the iterator at its head to that at its end. *)
LEMMA QueueFromMarking ==
  ASSUME GCTypes, GCSound
  PROVE  QueueHoldsObjects
<1> DEFINE D == DOMAIN heap.objs
<1>1. CASE phase = "mark"
  <2>1. Queue BY <1>1 DEF GCSound, Marking
  <2>2. QueueSlots = Waiting /\ Waiting \subseteq Slots /\ Slots \subseteq D
    BY <1>1 DEF QueueSlots, Waiting, Slots
  <2>3. gc.tail <= heap.current
    BY <2>1 DEF Queue, GCTypes, HeapOK
  <2>4. ASSUME NEW o \in QueueSlots
        PROVE  /\ RefersToObject(heap.objs[o].fwd) /\ ~heap.objs[HeaderOf(heap.objs[o].fwd)].mark
               /\ Target(o) \in D /\ heap.objs[Target(o)].enq
    <3>1. /\ heap.objs[o].fwd \in Bases \X Nat /\ SoundIn(heap.objs[o].fwd, D)
          /\ Target(o) \in Enqueued \ Marked
      BY <2>1, <2>2 DEF Queue
    <3>2. heap.objs[o].fwd \in Words /\ heap.objs[o].fwd # Plain
      BY <3>1, GCAssumption DEF Words
    <3> QED BY <1>1, <3>1, <3>2, SoundRefers DEF Target, Enqueued, Marked
  <2>5. \A o, p \in QueueSlots : o # p => heap.objs[o].fwd # heap.objs[p].fwd
    BY <2>1, <2>2 DEF Queue, Target
  <2>6. \A x \in D : heap.objs[x].enq => \E o \in QueueSlots : Target(o) = x
    BY <2>1, <2>2 DEF Queue, Enqueued
  <2> QED BY <2>3, <2>4, <2>5, <2>6 DEF QueueHoldsObjects, Target
<1>2. CASE phase # "mark"
  <2>1. QueueSlots = {} BY <1>2 DEF QueueSlots
  <2>2. \A x \in D : ~heap.objs[x].enq
    BY <1>2 DEF GCTypes, GCSound, NoBits, Enqueued
  <2> QED BY <1>2, <2>1, <2>2 DEF QueueHoldsObjects
<1> QED BY <1>1, <1>2

(* For those programs, too, the queue of mark stays what its comment says: *)
(* it holds references to objects that are not marked yet, each once, and  *)
(* the heap has room for all of it, since it has room for an element in    *)
(* each of its objects.                                                    *)
THEOREM QueueIsSound ==
  ASSUME AllScanned
  PROVE  GCSpec => []QueueHoldsObjects
<1>1. GCTypes /\ GCSound => QueueHoldsObjects BY QueueFromMarking
<1> QED BY <1>1, GCSoundInvariant, PTL

-----------------------------------------------------------------------------
(* Names.  Each object has one of its own, and the words of the request    *)
(* for the next object are the topmost of the stack.                       *)
Names == Ids \union {Plain, None}

Distinct(objs) ==
  /\ \A q \in DOMAIN objs : objs[q].id \in Ids
  /\ \A q, r \in DOMAIN objs : objs[q].id = objs[r].id => q = r

Asked ==
  /\ request.pops = request.n
  /\ IF request.kind = "closure"
     THEN request.n > 0 /\ request.first = size - request.n + 1 /\ stack[size - request.n] = Plain
     ELSE request.first = size - request.n

GCNamed ==
  /\ Distinct(Objects)
  /\ phase \in {"alloc", "mark", "relocate", "again"} => Asked

(* The stack and the graph of the specification that is implemented.       *)
Stack == [i \in 1..size |-> NameIn(Objects, heap.base, stack[i - 1])]
Graphs == GraphIn(Objects, heap.base)
Pending == IF phase = "run" THEN None ELSE [kind |-> request.kind, n |-> request.n]

Named(objs, base, q) ==
  [kind |-> objs[q].kind, fields |-> NamesIn(objs, base, Visible(objs[q]))]

(* What the graph of a heap is.                                            *)
LEMMA GraphIs ==
  ASSUME NEW X, NEW b, Distinct(X)
  PROVE  /\ DOMAIN GraphIn(X, b) = {X[q].id : q \in DOMAIN X}
         /\ \A q \in DOMAIN X : GraphIn(X, b)[X[q].id] = Named(X, b, q)
<1>1. DOMAIN GraphIn(X, b) = {X[q].id : q \in DOMAIN X}
  BY DEF GraphIn
<1>2. ASSUME NEW q \in DOMAIN X
      PROVE  GraphIn(X, b)[X[q].id] = Named(X, b, q)
  <2> DEFINE x == X[q].id
             r == CHOOSE p \in DOMAIN X : X[p].id = x
  <2>1. r \in DOMAIN X /\ X[r].id = x OBVIOUS
  <2>2. r = q BY <2>1 DEF Distinct
  <2>3. x \in {X[p].id : p \in DOMAIN X} OBVIOUS
  <2>4. GraphIn(X, b)[x] = [kind |-> X[r].kind, fields |-> NamesIn(X, b, Visible(X[r]))]
    BY <2>3 DEF GraphIn
  <2> QED BY <2>2, <2>4 DEF Named
<1> QED BY <1>1, <1>2

(* Only the kinds, names and fields of the objects count.                  *)
Alike(X, Y) ==
  /\ DOMAIN X = DOMAIN Y
  /\ \A q \in DOMAIN X : X[q].id = Y[q].id /\ X[q].kind = Y[q].kind /\ X[q].fields = Y[q].fields

LEMMA AlikeNames ==
  ASSUME NEW X, NEW Y, NEW b, Alike(X, Y)
  PROVE  \A s : NamesIn(X, b, s) = NamesIn(Y, b, s)
<1>1. \A w : NameIn(X, b, w) = NameIn(Y, b, w)
  BY DEF NameIn, Alike
<1> QED BY <1>1 DEF NamesIn

LEMMA AlikeGraph ==
  ASSUME NEW X, NEW Y, NEW b, Alike(X, Y), Distinct(X)
  PROVE  /\ Distinct(Y) /\ GraphIn(X, b) = GraphIn(Y, b)
<1>1. Distinct(Y) BY DEF Distinct, Alike
<1> DEFINE f == GraphIn(X, b)
           g == GraphIn(Y, b)
<1>2. f = [x \in DOMAIN f |-> f[x]] /\ g = [x \in DOMAIN g |-> g[x]]
  BY DEF GraphIn
<1>3. DOMAIN f = {X[q].id : q \in DOMAIN X} /\ DOMAIN g = {Y[q].id : q \in DOMAIN Y}
      /\ (\A q \in DOMAIN X : f[X[q].id] = Named(X, b, q))
      /\ (\A q \in DOMAIN Y : g[Y[q].id] = Named(Y, b, q))
  BY <1>1, GraphIs
<1> HIDE DEF f, g
<1>4. DOMAIN f = DOMAIN g BY <1>3 DEF Alike
<1>5. ASSUME NEW q \in DOMAIN X PROVE Named(X, b, q) = Named(Y, b, q)
  <2>1. Visible(X[q]) = Visible(Y[q]) BY DEF Visible, Alike
  <2> QED BY <2>1, AlikeNames DEF Named, Alike
<1>6. ASSUME NEW x \in DOMAIN f PROVE f[x] = g[x]
  <2>1. PICK q \in DOMAIN X : x = X[q].id BY <1>3
  <2>2. q \in DOMAIN Y /\ x = Y[q].id BY <2>1 DEF Alike
  <2> QED BY <2>1, <2>2, <1>3, <1>5
<1>7. f = g BY <1>2, <1>4, <1>6
<1> QED BY <1>1, <1>7 DEF f, g

-----------------------------------------------------------------------------
(* The words of a stack by their names.                                    *)
LEMMA NameType ==
  ASSUME NEW X, NEW b, Distinct(X), NEW w
  PROVE  NameIn(X, b, w) \in Names
BY DEF NameIn, Names, Distinct

LEMMA NamesAre ==
  ASSUME NEW X, NEW b, Distinct(X), NEW n \in Nat, NEW u, DOMAIN u = 1..n,
         NEW t, t = NamesIn(X, b, u)
  PROVE  /\ t \in Seq(Names) /\ Len(t) = n
         /\ \A i \in 1..n : t[i] = NameIn(X, b, u[i])
<1>1. t = [i \in 1..n |-> NameIn(X, b, u[i])] BY DEF NamesIn
<1>2. \A i \in 1..n : NameIn(X, b, u[i]) \in Names BY NameType
<1>3. t \in [1..n -> Names] BY <1>1, <1>2
<1>4. t \in Seq(Names) BY <1>3, IsASeq
<1> QED BY <1>1, <1>3, <1>4, LenProperties

(* The words below the top of a stack of n words.                          *)
LEMMA StackNames ==
  ASSUME NEW n \in Nat, NEW t \in [1..n -> Names]
  PROVE  t \in Seq(Names) /\ Len(t) = n
<1>1. t = [i \in 1..n |-> t[i]] /\ \A i \in 1..n : t[i] \in Names OBVIOUS
<1>2. t \in Seq(Names) BY <1>1, IsASeq
<1> QED BY <1>2, LenProperties

(* A sequence that agrees with another up to m, and has one element more.  *)
LEMMA CutIs ==
  ASSUME NEW S, NEW s \in Seq(S), NEW m \in 0..Len(s), NEW v \in S, NEW t \in Seq(S),
         Len(t) = m + 1, \A i \in 1..m : t[i] = s[i], t[m + 1] = v
  PROVE  t = Append(SubSeq(s, 1, m), v)
<1> DEFINE c == SubSeq(s, 1, m)
<1>1. c \in Seq(S) /\ Len(c) = m /\ \A i \in 1..m : c[i] = s[i]
  BY SubSeqProperties, LenProperties
<1> HIDE DEF c
<1> DEFINE a == Append(c, v)
<1>2. a \in Seq(S) /\ Len(a) = m + 1 /\ a[m + 1] = v /\ \A i \in 1..m : a[i] = c[i]
  BY <1>1, AppendProperties
<1> HIDE DEF a
<1>3. ASSUME NEW i \in 1..Len(t) PROVE t[i] = a[i]
  <2>1. CASE i = m + 1 BY <2>1, <1>2
  <2>2. CASE i # m + 1
    <3>1. i \in 1..m BY <2>2
    <3> QED BY <3>1, <1>1, <1>2
  <2> QED BY <2>1, <2>2
<1>4. t = a BY <1>2, <1>3, SeqEqual
<1> QED BY <1>4 DEF a, c

(* An instruction that leaves the heap alone: the names of the stack.      *)
LEMMA RunNames ==
  ASSUME GCTypes, GCTypes', GCNamed, phase = "run", phase' = "run", heap' = heap
  PROVE  /\ Objects = heap.objs /\ Objects' = heap.objs
         /\ GCNamed' /\ Graphs' = Graphs /\ Pending = None /\ Pending' = None
         /\ size \in Nat /\ Stack \in Seq(Names) /\ Len(Stack) = size
         /\ \A i \in 1..size : Stack[i] = NameIn(heap.objs, heap.base, stack[i - 1])
         /\ size' \in Nat /\ Stack' \in Seq(Names) /\ Len(Stack') = size'
         /\ \A i \in 1..size' : Stack'[i] = NameIn(heap.objs, heap.base, stack'[i - 1])
<1>1. Objects = heap.objs /\ Objects' = heap.objs BY DEF Objects
<1>2. Distinct(heap.objs) BY <1>1 DEF GCNamed
<1>3. Pending = None /\ Pending' = None BY DEF Pending
<1>4. Graphs' = Graphs BY <1>1 DEF Graphs
<1>5. size \in Nat /\ size' \in Nat
  <2>1. StackWords \in Nat BY Numbers DEF GCTypes
  <2>2. StackWords' \in Nat BY GCAssumption DEF GCTypes, StackWords
  <2> QED BY <2>1, <2>2 DEF GCTypes
<1>6. Stack = [i \in 1..size |-> NameIn(heap.objs, heap.base, stack[i - 1])]
  BY <1>1 DEF Stack
<1>7. Stack' = [i \in 1..size' |-> NameIn(heap.objs, heap.base, stack'[i - 1])]
  BY <1>1 DEF Stack
<1>8. Stack \in Seq(Names) /\ Len(Stack) = size
      /\ \A i \in 1..size : Stack[i] = NameIn(heap.objs, heap.base, stack[i - 1])
  <2> DEFINE X == heap.objs
             b == heap.base
  <2>1. Distinct(X) /\ Stack = [i \in 1..size |-> NameIn(X, b, stack[i - 1])] BY <1>2, <1>6
  <2> HIDE DEF X, b
  <2>2. Stack \in [1..size -> Names]
        /\ \A i \in 1..size : Stack[i] = NameIn(X, b, stack[i - 1])
    BY <2>1, NameType
  <2>3. Stack \in Seq(Names) /\ Len(Stack) = size
    BY <2>2, <1>5, StackNames
  <2> QED BY <2>2, <2>3 DEF X, b
<1>9. Stack' \in Seq(Names) /\ Len(Stack') = size'
      /\ \A i \in 1..size' : Stack'[i] = NameIn(heap.objs, heap.base, stack'[i - 1])
  <2>1. PICK X, b, n, s, t : X = heap.objs /\ b = heap.base /\ n = size' /\ s = stack' /\ t = Stack'
    OBVIOUS
  <2>2. Distinct(X) /\ n \in Nat /\ t = [i \in 1..n |-> NameIn(X, b, s[i - 1])]
    BY <2>1, <1>2, <1>5, <1>7
  <2>3. t \in [1..n -> Names] /\ \A i \in 1..n : t[i] = NameIn(X, b, s[i - 1])
    BY <2>2, NameType
  <2>4. t \in Seq(Names) /\ Len(t) = n BY <2>2, <2>3, StackNames
  <2> QED BY <2>1, <2>3, <2>4
<1>10. GCNamed' BY <1>1, <1>2 DEF GCNamed
<1> QED BY <1>1, <1>3, <1>4, <1>5, <1>8, <1>9, <1>10

Name(w) == NameIn(heap.objs, heap.base, w)

LEMMA ReplaceNames ==
  ASSUME GCTypes, GCTypes', GCNamed, Running, NEW k \in 0..size, NEW w, Replace(k, w)
  PROVE  Stack' = Append(SubSeq(Stack, 1, size - k), Name(w))
<1>1. /\ phase = "run" /\ phase' = "run" /\ heap' = heap /\ size - k < StackWords
      /\ stack' = [stack EXCEPT ![size - k] = w] /\ size' = size - k + 1
      /\ stack \in [0..StackWords -> Words]
  BY DEF Replace, Running, GCTypes
<1>2. PICK s, t : s = Stack /\ t = Stack' OBVIOUS
<1>3. PICK v, m : v = Name(w) /\ m = size - k OBVIOUS
<1>4. /\ size \in Nat /\ s \in Seq(Names) /\ Len(s) = size
      /\ \A i \in 1..size : s[i] = NameIn(heap.objs, heap.base, stack[i - 1])
      /\ t \in Seq(Names) /\ Len(t) = size'
      /\ \A i \in 1..size' : t[i] = NameIn(heap.objs, heap.base, stack'[i - 1])
  BY <1>1, <1>2, RunNames
<1>5. m \in 0..Len(s) /\ Len(t) = m + 1 /\ m \in Nat
  BY <1>1, <1>3, <1>4
<1>6. v \in Names
  <2>1. Distinct(heap.objs) BY <1>1, RunNames DEF GCNamed
  <2> QED BY <1>3, <2>1, NameType DEF Name
<1>7. ASSUME NEW i \in 1..m PROVE t[i] = s[i]
  <2>0. size' = m + 1 /\ m <= size /\ size \in Nat /\ StackWords \in Nat /\ size <= StackWords
    BY <1>1, <1>3, <1>4, DepthType
  <2>1. i - 1 # m /\ i - 1 \in 0..StackWords /\ i \in 1..size /\ i \in 1..size'
    BY <2>0, <1>5
  <2>2. stack'[i - 1] = stack[i - 1] BY <1>1, <1>3, <2>1
  <2> QED BY <2>1, <2>2, <1>4
<1>8. t[m + 1] = v
  <2>0. size' = m + 1 /\ m <= size /\ size \in Nat /\ StackWords \in Nat /\ size <= StackWords
    BY <1>1, <1>3, <1>4, DepthType
  <2>1. m + 1 - 1 = m /\ m + 1 \in 1..size' /\ m \in 0..StackWords
    BY <2>0, <1>5
  <2>2. stack'[m] = w BY <1>1, <1>3, <2>1
  <2> QED BY <2>1, <2>2, <1>3, <1>4 DEF Name
<1>9. t = Append(SubSeq(s, 1, m), v) BY <1>4, <1>5, <1>6, <1>7, <1>8, CutIs
<1> QED BY <1>2, <1>3, <1>9

(* What the instructions that move words do to the names of the stack.     *)
TopName(k) == Stack[Len(Stack) - k]

LEMMA WordsMove ==
  ASSUME Pending = None, Pending' = None, Graphs' = Graphs,
         \/ Stack' = Append(Stack, Plain)
         \/ Stack # <<>> /\ Stack' = SubSeq(Stack, 1, Len(Stack) - 1)
         \/ Len(Stack) > 1 /\ Stack' = SubSeq(Stack, 1, Len(Stack) - 2) \o <<TopName(0), TopName(1)>>
         \/ \E i \in DOMAIN Stack : \/ Stack' = Append(Stack, Stack[i])
                                    \/ Stack' = [Stack EXCEPT ![i] = TopName(0)]
                                    \/ Stack' = Append(SubSeq(Stack, 1, i - 1), TopName(0))
  PROVE  Graph!Next
BY Zenon DEF Graph!Next, Graph!Push, Graph!Drop, Graph!Swap, Graph!Copy, Graph!Store, Graph!Leave,
       Graph!Top, Graph!Without, Graph!Becomes, Stack, Graphs, Pending, TopName

-----------------------------------------------------------------------------
(* The interpreter, as a graph of objects                                  *)

(* A step of the graph, or one that it does not show.                      *)
GraphStep == Graph!Next \/ UNCHANGED <<Stack, Graphs, Pending>>

(* The names of the words that instructions read.                          *)
LEMMA TopNames ==
  ASSUME GCTypes, GCNamed, Running
  PROVE  /\ Len(Stack) = size /\ size \in Nat /\ Stack \in Seq(Names)
         /\ \A i \in 0..size - 1 : i + 1 \in DOMAIN Stack /\ Stack[i + 1] = Name(stack[i])
         /\ \A k \in 0..size - 1 : TopName(k) = Name(Top(k))
         /\ Distinct(heap.objs)
<1>1. Objects = heap.objs BY DEF Objects, Running
<1>2. Distinct(heap.objs) BY <1>1 DEF GCNamed
<1>3. size \in Nat BY DepthType
<1>4. PICK s : s = Stack OBVIOUS
<1>5. s \in [1..size -> Names] /\ \A i \in 1..size : s[i] = Name(stack[i - 1])
  <2> DEFINE X == heap.objs
             b == heap.base
  <2>1. Distinct(X) /\ s = [i \in 1..size |-> NameIn(X, b, stack[i - 1])]
    BY <1>1, <1>2, <1>4 DEF Stack
  <2> HIDE DEF X, b
  <2>2. s \in [1..size -> Names]
        /\ \A i \in 1..size : s[i] = NameIn(X, b, stack[i - 1])
    BY <2>1, NameType
  <2> QED BY <2>2 DEF X, b, Name
<1>6. s \in Seq(Names) /\ Len(s) = size BY <1>3, <1>5, StackNames
<1>7. ASSUME NEW i \in 0..size - 1 PROVE i + 1 \in DOMAIN s /\ s[i + 1] = Name(stack[i])
  <2>1. i + 1 \in 1..size /\ i + 1 - 1 = i BY <1>3
  <2> QED BY <1>5, <2>1
<1>8. ASSUME NEW k \in 0..size - 1 PROVE s[size - k] = Name(Top(k))
  <2>1. size - 1 - k \in 0..size - 1 /\ size - 1 - k + 1 = size - k BY <1>3
  <2> QED BY <1>7, <2>1 DEF Top
<1> QED BY <1>2, <1>3, <1>4, <1>6, <1>7, <1>8 DEF TopName

LEMMA ConstStep ==
  ASSUME GCTypes, GCTypes', GCNamed, Const
  PROVE  GCNamed' /\ GraphStep
<1>1. Running /\ Replace(0, Plain) /\ phase = "run" /\ phase' = "run" /\ heap' = heap
  BY DEF Const, Replace, Running
<1>2. /\ Pending = None /\ Pending' = None /\ Graphs' = Graphs /\ GCNamed'
      /\ size \in Nat /\ Stack \in Seq(Names) /\ Len(Stack) = size
  BY <1>1, RunNames
<1>3. Stack' = Append(SubSeq(Stack, 1, size - 0), Name(Plain))
  BY <1>1, <1>2, ReplaceNames
<1>4. SubSeq(Stack, 1, size - 0) = Stack /\ Name(Plain) = Plain
  <2>1. PICK s : s = Stack OBVIOUS
  <2>2. size - 0 = Len(s) BY <1>2, <2>1
  <2>3. SubSeq(s, 1, Len(s)) = s BY <1>2, <2>1, SubSeqFull
  <2> QED BY <2>1, <2>2, <2>3 DEF Name, NameIn
<1>5. Stack' = Append(Stack, Plain) BY <1>3, <1>4
<1> QED BY <1>2, <1>5, WordsMove DEF GraphStep

(* A copy of a word of the stack is pushed.                                *)
LEMMA CopyStep ==
  ASSUME GCTypes, GCTypes', GCNamed, Running, NEW i \in 0..size - 1, Replace(0, stack[i])
  PROVE  GCNamed' /\ GraphStep
<1>1. phase = "run" /\ phase' = "run" /\ heap' = heap
  BY DEF Replace, Running
<1>2. /\ Pending = None /\ Pending' = None /\ Graphs' = Graphs /\ GCNamed'
      /\ size \in Nat /\ Stack \in Seq(Names) /\ Len(Stack) = size
  BY <1>1, RunNames
<1>3. Stack' = Append(SubSeq(Stack, 1, size - 0), Name(stack[i]))
  BY <1>1, <1>2, ReplaceNames
<1>4. SubSeq(Stack, 1, size - 0) = Stack
  <2>1. PICK s : s = Stack OBVIOUS
  <2>2. size - 0 = Len(s) BY <1>2, <2>1
  <2>3. SubSeq(s, 1, Len(s)) = s BY <1>2, <2>1, SubSeqFull
  <2> QED BY <2>1, <2>2, <2>3
<1>5. i + 1 \in DOMAIN Stack /\ Stack[i + 1] = Name(stack[i])
  BY TopNames
<1>6. Stack' = Append(Stack, Stack[i + 1]) BY <1>3, <1>4, <1>5
<1>7. \E j \in DOMAIN Stack : Stack' = Append(Stack, Stack[j]) BY <1>5, <1>6
<1> QED BY <1>2, <1>7, WordsMove DEF GraphStep

LEMMA DropStep ==
  ASSUME GCTypes, GCTypes', GCNamed, Drop
  PROVE  GCNamed' /\ GraphStep
<1>1. phase = "run" /\ phase' = "run" /\ heap' = heap /\ size' = size - 1 /\ stack' = stack
  BY DEF Drop, Running
<1>2. PICK s, t : s = Stack /\ t = Stack' OBVIOUS
<1>3. /\ Pending = None /\ Pending' = None /\ Graphs' = Graphs /\ GCNamed'
      /\ size \in Nat /\ s \in Seq(Names) /\ Len(s) = size
      /\ \A i \in 1..size : s[i] = NameIn(heap.objs, heap.base, stack[i - 1])
      /\ t \in Seq(Names) /\ Len(t) = size'
      /\ \A i \in 1..size' : t[i] = NameIn(heap.objs, heap.base, stack'[i - 1])
  BY <1>1, <1>2, RunNames
<1>4. size >= 2 BY DepthType
<1> DEFINE c == SubSeq(s, 1, Len(s) - 1)
<1>5. c \in Seq(Names) /\ Len(c) = size - 1 /\ \A i \in 1..size - 1 : c[i] = s[i]
  BY <1>3, <1>4, SubSeqProperties, LenProperties
<1> HIDE DEF c
<1>6. ASSUME NEW i \in 1..Len(t) PROVE t[i] = c[i]
  <2>1. i \in 1..size - 1 /\ i \in 1..size BY <1>1, <1>3
  <2> QED BY <1>1, <1>3, <1>5, <2>1
<1>7. t = c BY <1>1, <1>3, <1>5, <1>6, SeqEqual
<1>8. s # <<>> BY <1>3, <1>4
<1> QED BY <1>2, <1>3, <1>7, <1>8, WordsMove DEF GraphStep, c

(* A word of the stack is overwritten with the topmost.                    *)
LEMMA StoreStep ==
  ASSUME GCTypes, GCTypes', GCNamed, NEW i \in Variables, Store(i)
  PROVE  GCNamed' /\ GraphStep
<1>1. /\ phase = "run" /\ phase' = "run" /\ heap' = heap /\ size' = size
      /\ stack' = [stack EXCEPT ![i] = Top(0)] /\ Depth > 0
      /\ stack \in [0..StackWords -> Words] /\ Running
  BY DEF Store, Running, GCTypes
<1>2. PICK s, t, v : s = Stack /\ t = Stack' /\ v = TopName(0) OBVIOUS
<1>3. /\ Pending = None /\ Pending' = None /\ Graphs' = Graphs /\ GCNamed'
      /\ size \in Nat /\ s \in Seq(Names) /\ Len(s) = size
      /\ \A j \in 1..size : s[j] = NameIn(heap.objs, heap.base, stack[j - 1])
      /\ t \in Seq(Names) /\ Len(t) = size'
      /\ \A j \in 1..size' : t[j] = NameIn(heap.objs, heap.base, stack'[j - 1])
  BY <1>1, <1>2, RunNames
<1>4. i \in 0..size - 1 /\ size <= StackWords /\ StackWords \in Nat
  BY VariableType, DepthType
<1>5. v = Name(Top(0)) /\ v \in Names
  <2>1. 0 \in 0..size - 1 /\ Distinct(heap.objs) BY <1>1, <1>4, TopNames
  <2>2. v = Name(Top(0)) BY <1>1, <1>2, <2>1, TopNames
  <2> QED BY <2>1, <2>2, NameType DEF Name
<1> DEFINE e == [s EXCEPT ![i + 1] = v]
<1>6. e \in Seq(Names) /\ Len(e) = size /\ i + 1 \in 1..size
      /\ \A j \in 1..size : e[j] = IF j = i + 1 THEN v ELSE s[j]
  <2>1. i + 1 \in 1..Len(s) BY <1>3, <1>4
  <2> QED BY <1>3, <1>5, <2>1, ExceptSeq, LenProperties
<1> HIDE DEF e
<1>7. ASSUME NEW j \in 1..Len(t) PROVE t[j] = e[j]
  <2>1. j \in 1..size /\ j - 1 \in 0..StackWords /\ (j - 1 = i <=> j = i + 1) BY <1>1, <1>3, <1>4
  <2>2. stack'[j - 1] = IF j = i + 1 THEN Top(0) ELSE stack[j - 1] BY <1>1, <2>1
  <2>3. t[j] = NameIn(heap.objs, heap.base, stack'[j - 1]) BY <1>1, <1>3, <2>1
  <2>4. CASE j = i + 1 BY <1>5, <1>6, <2>1, <2>2, <2>3, <2>4 DEF Name
  <2>5. CASE j # i + 1
    <3>1. stack'[j - 1] = stack[j - 1] BY <2>2, <2>5
    <3> QED BY <1>3, <1>6, <2>1, <2>3, <2>5, <3>1
  <2> QED BY <2>4, <2>5
<1>8. t = e BY <1>1, <1>3, <1>6, <1>7, SeqEqual
<1>9. i + 1 \in DOMAIN s BY <1>3, <1>6, LenProperties
<1>10. \E j \in DOMAIN Stack : Stack' = [Stack EXCEPT ![j] = TopName(0)]
  BY <1>2, <1>8, <1>9 DEF e
<1> QED BY <1>3, <1>10, WordsMove DEF GraphStep

LEMMA SwapStep ==
  ASSUME GCTypes, GCTypes', GCNamed, Swap
  PROVE  GCNamed' /\ GraphStep
<1>1. PICK a, b : a = Top(0) /\ b = Top(1) OBVIOUS
<1>2. /\ phase = "run" /\ phase' = "run" /\ heap' = heap /\ size' = size
      /\ stack' = [stack EXCEPT ![size - 1] = b, ![size - 2] = a] /\ Depth > 1
      /\ stack \in [0..StackWords -> Words] /\ Running
  BY <1>1 DEF Swap, Running, GCTypes
<1>3. PICK s, t, v, w : s = Stack /\ t = Stack' /\ v = TopName(0) /\ w = TopName(1) OBVIOUS
<1>4. /\ Pending = None /\ Pending' = None /\ Graphs' = Graphs /\ GCNamed'
      /\ size \in Nat /\ s \in Seq(Names) /\ Len(s) = size
      /\ \A j \in 1..size : s[j] = NameIn(heap.objs, heap.base, stack[j - 1])
      /\ t \in Seq(Names) /\ Len(t) = size'
      /\ \A j \in 1..size' : t[j] = NameIn(heap.objs, heap.base, stack'[j - 1])
  BY <1>2, <1>3, RunNames
<1>5. size >= 4 /\ size <= StackWords /\ StackWords \in Nat BY <1>2, DepthType
<1>6. v = Name(a) /\ v \in Names /\ w = Name(b) /\ w \in Names
  <2>1. 0 \in 0..size - 1 /\ 1 \in 0..size - 1 /\ Distinct(heap.objs) BY <1>2, <1>4, <1>5, TopNames
  <2>2. v = Name(a) /\ w = Name(b) BY <1>1, <1>2, <1>3, <2>1, TopNames
  <2> QED BY <2>1, <2>2, NameType DEF Name
<1> DEFINE c == SubSeq(s, 1, Len(s) - 2)
           d == <<v, w>>
           e == c \o d
<1>7. c \in Seq(Names) /\ Len(c) = size - 2 /\ \A j \in 1..size - 2 : c[j] = s[j]
  BY <1>4, <1>5, SubSeqProperties, LenProperties
<1>8. d \in Seq(Names) /\ Len(d) = 2 /\ d[1] = v /\ d[2] = w
  BY <1>6
<1> HIDE DEF c, d
<1>9. e \in Seq(Names) /\ Len(e) = size /\ \A j \in 1..size : e[j] = IF j <= size - 2 THEN c[j] ELSE d[j - (size - 2)]
  <2>1. Len(c) + Len(d) = size BY <1>4, <1>7, <1>8
  <2>2. e \in Seq(Names) /\ Len(e) = Len(c) + Len(d)
        /\ \A j \in 1..Len(c) + Len(d) : e[j] = IF j <= Len(c) THEN c[j] ELSE d[j - Len(c)]
    BY <1>7, <1>8, ConcatProperties
  <2> QED BY <1>7, <2>1, <2>2
<1> HIDE DEF e
<1>10. ASSUME NEW j \in 1..Len(t) PROVE t[j] = e[j]
  <2>1. j \in 1..size /\ j - 1 \in 0..StackWords BY <1>2, <1>4, <1>5
  <2>2. stack'[j - 1] = IF j - 1 = size - 2 THEN a ELSE IF j - 1 = size - 1 THEN b ELSE stack[j - 1]
    BY <1>2, <1>5, <1>4, <2>1
  <2>3. CASE j = size - 1
    <3>1. stack'[j - 1] = a BY <2>2, <2>3, <1>4
    <3>2. e[j] = v BY <2>1, <2>3, <1>4, <1>8, <1>9
    <3> QED BY <3>1, <3>2, <2>1, <1>2, <1>4, <1>6 DEF Name
  <2>4. CASE j = size
    <3>1. stack'[j - 1] = b BY <2>2, <2>4, <1>4
    <3>2. e[j] = w BY <2>1, <2>4, <1>4, <1>8, <1>9
    <3> QED BY <3>1, <3>2, <2>1, <1>2, <1>4, <1>6 DEF Name
  <2>5. CASE j \in 1..size - 2
    <3>1. stack'[j - 1] = stack[j - 1] BY <2>2, <2>5, <1>4
    <3>1a. j <= size - 2 BY <2>5, <1>4
    <3>2. e[j] = s[j] BY <2>1, <2>5, <3>1a, <1>7, <1>9
    <3> QED BY <3>1, <3>2, <2>1, <1>2, <1>4
  <2> QED BY <2>1, <2>3, <2>4, <2>5, <1>4
<1>11. t = e BY <1>2, <1>4, <1>9, <1>10, SeqEqual
<1>12. /\ Len(Stack) > 1
       /\ Stack' = SubSeq(Stack, 1, Len(Stack) - 2) \o <<TopName(0), TopName(1)>>
  BY <1>3, <1>4, <1>5, <1>11 DEF c, d, e
<1> QED BY <1>4, <1>12, WordsMove DEF GraphStep

LEMMA EndStep ==
  ASSUME GCTypes, GCTypes', GCNamed, End
  PROVE  GCNamed' /\ GraphStep
<1>1. /\ phase = "run" /\ phase' = "run" /\ heap' = heap /\ Depth > 0 /\ Running
      /\ stack' = [stack EXCEPT ![Frame.base - Frame.args] = Top(0)]
      /\ size' = Frame.base - Frame.args + 1
      /\ stack \in [0..StackWords -> Words]
  BY DEF End, Running, GCTypes
<1>2. PICK b : b = Frame.base - Frame.args OBVIOUS
<1>3. PICK s, t, v : s = Stack /\ t = Stack' /\ v = TopName(0) OBVIOUS
<1>4. /\ Pending = None /\ Pending' = None /\ Graphs' = Graphs /\ GCNamed'
      /\ size \in Nat /\ s \in Seq(Names) /\ Len(s) = size
      /\ \A j \in 1..size : s[j] = NameIn(heap.objs, heap.base, stack[j - 1])
      /\ t \in Seq(Names) /\ Len(t) = size'
      /\ \A j \in 1..size' : t[j] = NameIn(heap.objs, heap.base, stack'[j - 1])
  BY <1>1, <1>3, RunNames
<1>5. b \in Nat /\ b >= 2 /\ b < size /\ size' = b + 1 /\ size <= StackWords /\ StackWords \in Nat
  <2>1. b \in Int /\ size' = b + 1 BY <1>1, <1>2, FrameType
  <2>2. size' - 1 < size /\ size' - 1 >= 2 BY EndTypes
  <2> QED BY <1>1, <1>2, <2>1, <2>2, DepthType
<1>6. v = Name(Top(0)) /\ v \in Names
  <2>1. 0 \in 0..size - 1 /\ Distinct(heap.objs) BY <1>1, <1>5, TopNames
  <2>2. v = Name(Top(0)) BY <1>1, <1>3, <2>1, TopNames
  <2> QED BY <2>1, <2>2, NameType DEF Name
<1>7. ASSUME NEW j \in 1..b + 1 PROVE t[j] = IF j = b + 1 THEN v ELSE s[j]
  <2>1. /\ j \in 1..size /\ j \in 1..size' /\ j - 1 \in 0..StackWords
        /\ (j - 1 = b <=> j = b + 1)
    <3>1. PICK k, m, n, w : k = j /\ m = size /\ n = size' /\ w = StackWords OBVIOUS
    <3>2. b \in Nat /\ k \in 1..b + 1 /\ m \in Nat /\ b < m /\ n = b + 1 /\ w \in Nat /\ m <= w
      BY <1>4, <1>5, <3>1
    <3>3. k \in 1..m /\ k \in 1..n /\ k - 1 \in 0..w /\ (k - 1 = b <=> k = b + 1) BY <3>2
    <3> QED BY <3>1, <3>3
  <2>2. stack'[j - 1] = IF j = b + 1 THEN Top(0) ELSE stack[j - 1] BY <1>1, <1>2, <2>1
  <2> QED BY <1>4, <1>6, <2>1, <2>2 DEF Name
<1>8. t = Append(SubSeq(s, 1, b), v)
  <2>1. b \in 0..Len(s) /\ Len(t) = b + 1 BY <1>1, <1>2, <1>4, <1>5
  <2>2. \A j \in 1..b : j \in 1..b + 1 /\ j # b + 1 BY <1>5
  <2>3. (\A j \in 1..b : t[j] = s[j]) BY <1>7, <2>2
  <2>4. b + 1 \in 1..b + 1 BY <1>5
  <2>5. t[b + 1] = v BY <1>7, <2>4
  <2> QED BY <1>4, <1>6, <2>1, <2>3, <2>5, CutIs
<1>9. b + 1 \in DOMAIN s /\ b = (b + 1) - 1 BY <1>4, <1>5, LenProperties
<1>10. \E j \in DOMAIN Stack : Stack' = Append(SubSeq(Stack, 1, j - 1), TopName(0))
  <2>1. t = Append(SubSeq(s, 1, (b + 1) - 1), v) BY <1>8, <1>9
  <2> QED BY <1>3, <1>9, <2>1
<1> QED BY <1>4, <1>10, WordsMove DEF GraphStep

(* Locals, where there are any, are no words of the stack that is promised *)
(* to the interpreter until they have been set; a call adds nothing else.  *)
LEMMA BeginStep ==
  ASSUME AllScanned, GCTypes, GCTypes', GCNamed, NEW args, Begin(args)
  PROVE  GCNamed' /\ GraphStep
<1>1. phase = "run" /\ phase' = "run" /\ heap' = heap /\ size' = size /\ stack' = stack
  BY DepthType DEF Begin, Running, AllScanned
<1>2. Pending = None /\ Pending' = None /\ Graphs' = Graphs /\ GCNamed'
      /\ Objects = heap.objs /\ Objects' = heap.objs
  BY <1>1, RunNames
<1>3. Stack' = Stack BY <1>1, <1>2 DEF Stack
<1> QED BY <1>2, <1>3 DEF GraphStep

-----------------------------------------------------------------------------
(* Fields                                                                  *)

(* What the instructions that read and write a field do to the graph.      *)
LEMMA FieldsMove ==
  ASSUME Pending = None, Pending' = None,
         \/ /\ Len(Stack) > 1 /\ TopName(1) # Plain
            /\ \E i \in DOMAIN Graphs[TopName(1)].fields :
                 Stack' = Append(SubSeq(Stack, 1, Len(Stack) - 2), Graphs[TopName(1)].fields[i])
            /\ Graphs' = Graphs
         \/ /\ Len(Stack) > 2 /\ TopName(2) # Plain
            /\ \E i \in DOMAIN Graphs[TopName(2)].fields :
                 Graphs' = [Graphs EXCEPT ![TopName(2)].fields[i] = TopName(0)]
            /\ Stack' = Append(SubSeq(Stack, 1, Len(Stack) - 3), TopName(0))
  PROVE  Graph!Next
BY Zenon DEF Graph!Next, Graph!Elem, Graph!Sta, Graph!Top, Graph!Without, Graph!Becomes,
       Stack, Graphs, Pending, TopName

(* The name of a word that refers to an object.                            *)
LEMMA AggregateName ==
  ASSUME GCTypes, Distinct(heap.objs), NEW w, IsAggregate(w)
  PROVE  /\ HeaderOf(w) \in DOMAIN heap.objs
         /\ Name(w) = heap.objs[HeaderOf(w)].id /\ Name(w) # Plain
         /\ Visible(heap.objs[HeaderOf(w)]) = heap.objs[HeaderOf(w)].fields
<1>1. w # Plain /\ w[1] = heap.base /\ HeaderOf(w) \in DOMAIN heap.objs
      /\ heap.objs[HeaderOf(w)].kind \in {"array", "sexp"}
  BY DEF IsAggregate, RefersToObject, InHeap
<1>2. Name(w) = heap.objs[HeaderOf(w)].id BY <1>1 DEF Name, NameIn
<1>3. Name(w) \in Ids /\ Plain \notin Ids BY <1>1, <1>2, GCAssumption DEF Distinct
<1> QED BY <1>1, <1>2, <1>3 DEF Visible

LEMMA ElemStep ==
  ASSUME GCTypes, GCTypes', GCNamed, Elem
  PROVE  GCNamed' /\ GraphStep
<1> DEFINE w == Top(1)
           o == HeaderOf(w)
           F == heap.objs[o].fields
<1>1. Running /\ Depth > 1 /\ IsAggregate(w) BY DEF Elem
<1>2. PICK i \in DOMAIN F : Replace(2, F[i]) BY DEF Elem
<1>3. phase = "run" /\ phase' = "run" /\ heap' = heap BY <1>1, <1>2 DEF Replace, Running
<1>4. /\ Pending = None /\ Pending' = None /\ Graphs' = Graphs /\ GCNamed'
      /\ size \in Nat /\ Len(Stack) = size /\ Objects = heap.objs
  BY <1>3, RunNames
<1>5. size >= 4 /\ 2 \in 0..size /\ 1 \in 0..size - 1 BY <1>1, DepthType
<1>6. Stack' = Append(SubSeq(Stack, 1, size - 2), Name(F[i]))
  BY <1>1, <1>2, <1>5, ReplaceNames
<1>7. Distinct(heap.objs) /\ TopName(1) = Name(w) BY <1>1, <1>5, TopNames
<1>8. o \in DOMAIN heap.objs /\ Name(w) = heap.objs[o].id /\ Name(w) # Plain
      /\ Visible(heap.objs[o]) = F
  BY <1>1, <1>7, AggregateName
<1>9. Graphs[Name(w)] = Named(heap.objs, heap.base, o)
  BY <1>4, <1>7, <1>8, GraphIs DEF Graphs
<1>10. Graphs[Name(w)].fields = NamesIn(heap.objs, heap.base, F)
  BY <1>8, <1>9 DEF Named
<1>11. i \in DOMAIN Graphs[Name(w)].fields /\ Graphs[Name(w)].fields[i] = Name(F[i])
  BY <1>10, <1>2 DEF NamesIn, Name
<1> HIDE DEF w, o, F
<1>12. /\ Len(Stack) > 1 /\ TopName(1) # Plain
       /\ \E j \in DOMAIN Graphs[TopName(1)].fields :
            Stack' = Append(SubSeq(Stack, 1, Len(Stack) - 2), Graphs[TopName(1)].fields[j])
  BY <1>4, <1>5, <1>6, <1>7, <1>8, <1>11
<1> QED BY <1>4, <1>12, FieldsMove DEF GraphStep

(* The field i of the object at o becomes w.                               *)
Written(X, Y, o, i, w) ==
  /\ DOMAIN Y = DOMAIN X /\ o \in DOMAIN X /\ X[o].kind # "closure" /\ i \in DOMAIN X[o].fields
  /\ \A q \in DOMAIN X : Y[q].id = X[q].id /\ Y[q].kind = X[q].kind
  /\ \A q \in DOMAIN X : q # o => Y[q].fields = X[q].fields
  /\ Y[o].fields = [X[o].fields EXCEPT ![i] = w]

WithField(g, x, i, v) == [g EXCEPT ![x].fields[i] = v]

LEMMA GraphStored ==
  ASSUME NEW X, NEW Y, NEW b, NEW o, NEW i, NEW w, Distinct(X), Written(X, Y, o, i, w)
  PROVE  /\ Distinct(Y)
         /\ GraphIn(Y, b) = WithField(GraphIn(X, b), X[o].id, i, NameIn(X, b, w))
<1>1. Distinct(Y) BY DEF Distinct, Written
<1>2. \A u : NameIn(Y, b, u) = NameIn(X, b, u) BY DEF NameIn, Written
<1>3. \A s : NamesIn(Y, b, s) = NamesIn(X, b, s) BY <1>2 DEF NamesIn
<1>4. PICK f, g, x, v, F : f = GraphIn(X, b) /\ g = GraphIn(Y, b) /\ x = X[o].id
                           /\ v = NameIn(X, b, w) /\ F = NamesIn(X, b, X[o].fields)
  OBVIOUS
<1>5. f = [y \in DOMAIN f |-> f[y]] /\ g = [y \in DOMAIN g |-> g[y]]
  BY <1>4 DEF GraphIn
<1>6. DOMAIN f = {X[q].id : q \in DOMAIN X} /\ DOMAIN g = {Y[q].id : q \in DOMAIN Y}
      /\ (\A q \in DOMAIN X : f[X[q].id] = Named(X, b, q))
      /\ (\A q \in DOMAIN Y : g[Y[q].id] = Named(Y, b, q))
  <2>1. /\ DOMAIN GraphIn(X, b) = {X[q].id : q \in DOMAIN X}
        /\ \A q \in DOMAIN X : GraphIn(X, b)[X[q].id] = Named(X, b, q)
    BY GraphIs
  <2>2. /\ DOMAIN GraphIn(Y, b) = {Y[q].id : q \in DOMAIN Y}
        /\ \A q \in DOMAIN Y : GraphIn(Y, b)[Y[q].id] = Named(Y, b, q)
    BY <1>1, GraphIs
  <2> QED BY <1>4, <2>1, <2>2
<1>7. DOMAIN f = DOMAIN g /\ x \in DOMAIN f BY <1>4, <1>6 DEF Written
<1>8. f[x] = [kind |-> X[o].kind, fields |-> F]
  <2>1. o \in DOMAIN X /\ Visible(X[o]) = X[o].fields BY DEF Visible, Written
  <2> QED BY <1>4, <1>6, <2>1 DEF Named
<1>9. g[x] = [kind |-> X[o].kind, fields |-> [F EXCEPT ![i] = v]]
  <2>1. /\ o \in DOMAIN Y /\ Visible(Y[o]) = Y[o].fields /\ Y[o].id = x /\ Y[o].kind = X[o].kind
        /\ i \in DOMAIN X[o].fields /\ Y[o].fields = [X[o].fields EXCEPT ![i] = w]
    BY <1>4 DEF Visible, Written
  <2>2. NamesIn(X, b, Y[o].fields) = [F EXCEPT ![i] = v]
    BY <1>4, <2>1 DEF NamesIn
  <2> QED BY <1>3, <1>4, <1>6, <2>1, <2>2 DEF Named
<1>10. ASSUME NEW y \in DOMAIN f, y # x PROVE g[y] = f[y]
  <2>1. PICK q \in DOMAIN X : y = X[q].id BY <1>6
  <2>2. /\ q # o /\ q \in DOMAIN Y /\ Y[q].id = y /\ Y[q].kind = X[q].kind
        /\ Y[q].fields = X[q].fields
    BY <1>4, <1>10, <2>1 DEF Written
  <2>3. Visible(Y[q]) = Visible(X[q]) BY <2>2 DEF Visible
  <2>4. Named(Y, b, q) = Named(X, b, q) BY <1>3, <2>2, <2>3 DEF Named
  <2> QED BY <1>6, <2>1, <2>2, <2>4
<1>11. [f[x] EXCEPT !.fields[i] = v] = g[x]
  <2>1. PICK k : k = X[o].kind OBVIOUS
  <2>2. f[x] = [kind |-> k, fields |-> F] /\ g[x] = [kind |-> k, fields |-> [F EXCEPT ![i] = v]]
    BY <1>8, <1>9, <2>1
  <2> QED BY <2>2
<1>12. [f EXCEPT ![x].fields[i] = v] = [y \in DOMAIN f |-> IF y = x THEN [f[x] EXCEPT !.fields[i] = v] ELSE f[y]]
  BY <1>5, <1>7
<1>13. g = [f EXCEPT ![x].fields[i] = v]
  BY <1>5, <1>7, <1>10, <1>11, <1>12
<1> QED BY <1>1, <1>4, <1>13 DEF WithField

LEMMA StaStep ==
  ASSUME GCTypes, GCTypes', GCNamed, Sta
  PROVE  GCNamed' /\ GraphStep
<1>1. PICK w, o, a : w = Top(2) /\ o = HeaderOf(w) /\ a = Top(0) OBVIOUS
<1>2. /\ Running /\ phase = "run" /\ phase' = "run" /\ Depth > 2 /\ IsAggregate(w) /\ size' = size - 2
      /\ stack' = [stack EXCEPT ![size - 3] = a] /\ stack \in [0..StackWords -> Words]
  BY <1>1 DEF Sta, Running, GCTypes
<1>3. Objects = heap.objs /\ Objects' = heap'.objs BY <1>2 DEF Objects
<1>4. Pending = None /\ Pending' = None BY <1>2 DEF Pending
<1>5. size \in Nat /\ size >= 5 /\ 2 \in 0..size - 1 /\ 0 \in 0..size - 1
      /\ StackWords \in Nat /\ size <= StackWords
  BY <1>2, DepthType
<1>6. Distinct(heap.objs) /\ TopName(2) = Name(w) /\ TopName(0) = Name(a)
      /\ Len(Stack) = size /\ Stack \in Seq(Names)
  BY <1>1, <1>2, <1>5, TopNames
<1>7. o \in DOMAIN heap.objs /\ Name(w) = heap.objs[o].id /\ Name(w) # Plain
      /\ heap.objs[o].kind # "closure" /\ Visible(heap.objs[o]) = heap.objs[o].fields
  BY <1>1, <1>2, <1>6, AggregateName DEF IsAggregate
<1>8. a \in Words
  <2>1. 0 \in Nat /\ 0 < Depth BY <1>2, DepthType
  <2> QED BY <1>1, <2>1, TopWord
<1>9. PICK i \in DOMAIN heap.objs[o].fields : heap' = [heap EXCEPT !.objs[o].fields[i] = a]
  BY <1>1 DEF Sta
<1>10. PICK X, b, Y : X = heap.objs /\ b = heap.base /\ Y = heap'.objs OBVIOUS
<1>11. Y = StoredIn(o, i, a) /\ DOMAIN Y = DOMAIN X /\ heap'.base = b
  BY <1>7, <1>8, <1>9, <1>10, StoreField
<1>12. ASSUME NEW p \in DOMAIN X
       PROVE  /\ Y[p].id = X[p].id /\ Y[p].kind = X[p].kind
              /\ p # o => Y[p].fields = X[p].fields
              /\ p = o => Y[p].fields = [X[o].fields EXCEPT ![i] = a]
  <2>1. CASE p = o
    <3>1. IsObject(X[o]) BY <1>7, <1>10, ObjectIs
    <3>2. Y[o] = [X[o] EXCEPT !.fields[i] = a] BY <1>7, <1>10, <1>11 DEF StoredIn
    <3> QED BY <1>8, <1>9, <1>10, <2>1, <3>1, <3>2, FieldStored
  <2>2. CASE p # o BY <1>10, <1>11, <2>2 DEF StoredIn
  <2> QED BY <2>1, <2>2
<1>13. /\ Distinct(Y) /\ \A u : NameIn(Y, b, u) = NameIn(X, b, u)
       /\ GraphIn(Y, b) = WithField(GraphIn(X, b), X[o].id, i, NameIn(X, b, a))
  <2>1. Distinct(X) /\ Written(X, Y, o, i, a)
    BY <1>6, <1>7, <1>9, <1>10, <1>11, <1>12 DEF Written
  <2>2. Distinct(Y) BY <2>1, GraphStored
  <2>3. \A u : NameIn(Y, b, u) = NameIn(X, b, u) BY <2>1 DEF NameIn, Written
  <2>4. GraphIn(Y, b) = WithField(GraphIn(X, b), X[o].id, i, NameIn(X, b, a))
    BY <2>1, GraphStored
  <2> QED BY <2>2, <2>3, <2>4
<1>14. GCNamed' BY <1>2, <1>3, <1>10, <1>13 DEF GCNamed
<1>15. Graphs' = [Graphs EXCEPT ![TopName(2)].fields[i] = TopName(0)]
  <2>1. Graphs = GraphIn(X, b) /\ Graphs' = GraphIn(Y, b) BY <1>3, <1>10, <1>11 DEF Graphs
  <2>2. TopName(2) = X[o].id /\ TopName(0) = NameIn(X, b, a) BY <1>6, <1>7, <1>10 DEF Name
  <2> QED BY <1>13, <2>1, <2>2 DEF WithField
<1>16. i \in DOMAIN Graphs[TopName(2)].fields
  <2>0. /\ Distinct(X) /\ o \in DOMAIN X /\ Graphs = GraphIn(X, b) /\ TopName(2) = X[o].id
    BY <1>3, <1>6, <1>7, <1>10 DEF Graphs
  <2>1. Graphs[TopName(2)] = Named(X, b, o) BY <2>0, GraphIs
  <2> QED BY <1>7, <1>9, <1>10, <2>1 DEF Named, NamesIn
<1>17. Stack' = Append(SubSeq(Stack, 1, Len(Stack) - 3), TopName(0))
  <2>1. PICK s, t, v, m : s = Stack /\ t = Stack' /\ v = TopName(0) /\ m = size - 3 OBVIOUS
  <2>2. t = [j \in 1..size' |-> NameIn(X, b, stack'[j - 1])]
    <3>1. t = [j \in 1..size' |-> NameIn(Y, b, stack'[j - 1])] BY <1>3, <1>10, <1>11, <2>1 DEF Stack
    <3> QED BY <1>13, <3>1
  <2>3. s = [j \in 1..size |-> NameIn(X, b, stack[j - 1])] BY <1>3, <1>10, <2>1 DEF Stack
  <2>4. size' = m + 1 /\ m \in Nat /\ m + 1 \in Nat /\ m <= size - 3 /\ m < StackWords BY <1>2, <1>5, <2>1
  <2>5. t \in [1..m + 1 -> Names] BY <1>6, <1>10, <2>2, <2>4, NameType
  <2>6. t \in Seq(Names) /\ Len(t) = m + 1 BY <2>4, <2>5, StackNames
  <2>7. ASSUME NEW j \in 1..m PROVE t[j] = s[j]
    <3>1. j \in 1..m + 1 /\ j \in 1..size /\ j - 1 \in 0..StackWords /\ j - 1 # size - 3
      BY <1>5, <2>1, <2>4
    <3>2. stack'[j - 1] = stack[j - 1] BY <1>2, <3>1
    <3> QED BY <2>2, <2>3, <2>4, <3>1, <3>2
  <2>8. t[m + 1] = v
    <3>1. m + 1 \in 1..m + 1 /\ m + 1 - 1 = size - 3 /\ size - 3 \in 0..StackWords BY <1>5, <2>1, <2>4
    <3>2. stack'[m + 1 - 1] = a BY <1>2, <3>1
    <3> QED BY <1>6, <1>10, <2>1, <2>2, <2>4, <3>1, <3>2 DEF Name
  <2>9. v \in Names BY <1>6, <2>1, NameType DEF Name
  <2>10. m \in 0..Len(s) BY <1>5, <1>6, <2>1, <2>4
  <2>11. t = Append(SubSeq(s, 1, m), v)
    <3>1. s \in Seq(Names) BY <1>6, <2>1
    <3> QED BY <3>1, <2>6, <2>7, <2>8, <2>9, <2>10, CutIs
  <2> QED BY <1>6, <2>1, <2>11
<1>18. /\ Len(Stack) > 2 /\ TopName(2) # Plain
       /\ \E j \in DOMAIN Graphs[TopName(2)].fields :
            Graphs' = [Graphs EXCEPT ![TopName(2)].fields[j] = TopName(0)]
       /\ Stack' = Append(SubSeq(Stack, 1, Len(Stack) - 3), TopName(0))
  <2>1. Len(Stack) > 2 /\ TopName(2) # Plain BY <1>5, <1>6, <1>7
  <2> QED BY <1>15, <1>16, <1>17, <2>1, Zenon
<1> QED BY <1>4, <1>14, <1>18, FieldsMove DEF GraphStep

-----------------------------------------------------------------------------
(* Requests                                                                *)

(* What the instructions that allocate do before the allocation begins.    *)
LEMMA RequestMove ==
  ASSUME Pending = None, Graphs' = Graphs,
         \/ Stack' = Stack /\ Pending' \in [kind : ObjectKinds, n : 0..Len(Stack)]
         \/ /\ Stack # <<>> /\ Stack' = SubSeq(Stack, 1, Len(Stack) - 1)
            /\ Pending' = [kind |-> "string", n |-> 0]
         \/ /\ Len(Stack') > Len(Stack)
            /\ SubSeq(Stack', 1, Len(Stack) + 1) = Append(Stack, Plain)
            /\ \A i \in Len(Stack) + 2..Len(Stack') : \E j \in DOMAIN Stack : Stack[j] = Stack'[i]
            /\ Pending' = [kind |-> "closure", n |-> Len(Stack') - Len(Stack)]
  PROVE  Graph!Next
BY Zenon DEF Graph!Next, Graph!Request, Graph!Render, Graph!Capture, Graph!Drop, Graph!Without,
       Graph!Refers, Graph!Becomes, Stack, Graphs, Pending

LEMMA AskNames ==
  ASSUME GCTypes, GCTypes', GCNamed, Running, NEW r, Ask(r)
  PROVE  /\ Graphs' = Graphs /\ Pending = None /\ Pending' = [kind |-> r.kind, n |-> r.n]
         /\ Distinct(Objects')
         /\ size' \in Nat /\ Stack' \in Seq(Names) /\ Len(Stack') = size'
         /\ \A i \in 1..size' : Stack'[i] = Name(stack'[i - 1])
         /\ phase' # "run" /\ request' = r /\ heap' = heap
<1>1. phase = "run" /\ phase' # "run" /\ phase' # "relocate" /\ heap' = heap /\ request' = r
  BY DEF Ask, Running
<1>2. Objects = heap.objs /\ Objects' = heap.objs BY <1>1 DEF Objects
<1>3. Distinct(heap.objs) BY <1>2 DEF GCNamed
<1>4. Graphs' = Graphs BY <1>1, <1>2 DEF Graphs
<1>5. Pending = None /\ Pending' = [kind |-> r.kind, n |-> r.n] BY <1>1 DEF Pending
<1>6. size' \in Nat
  <2>1. StackWords' \in Nat BY GCAssumption DEF GCTypes, StackWords
  <2> QED BY <2>1 DEF GCTypes
<1>7. PICK X, b, n, s, t : X = heap.objs /\ b = heap.base /\ n = size' /\ s = stack' /\ t = Stack'
  OBVIOUS
<1>8. t = [i \in 1..n |-> NameIn(X, b, s[i - 1])] BY <1>1, <1>2, <1>7 DEF Stack
<1>9. Distinct(X) /\ n \in Nat BY <1>3, <1>6, <1>7
<1>10. t \in [1..n -> Names] /\ \A i \in 1..n : t[i] = NameIn(X, b, s[i - 1])
  BY <1>8, <1>9, NameType
<1>11. t \in Seq(Names) /\ Len(t) = n BY <1>9, <1>10, StackNames
<1>12. /\ Stack' \in Seq(Names) /\ Len(Stack') = size'
       /\ \A i \in 1..size' : Stack'[i] = Name(stack'[i - 1])
  BY <1>7, <1>10, <1>11 DEF Name
<1> QED BY <1>1, <1>2, <1>3, <1>4, <1>5, <1>6, <1>12

(* A request that leaves the words of the stack as they are.               *)
LEMMA RequestStep ==
  ASSUME GCTypes, GCTypes', GCNamed, Running, NEW r, Ask(r), r.kind \in ObjectKinds \ {"closure"},
         r.n \in 0..size, r.pops = r.n, r.first = size - r.n, size' = size,
         \A i \in 0..size - 1 : stack'[i] = stack[i]
  PROVE  GCNamed' /\ GraphStep
<1>1. PICK s, t : s = Stack /\ t = Stack' OBVIOUS
<1>2. /\ Graphs' = Graphs /\ Pending = None /\ Pending' = [kind |-> r.kind, n |-> r.n]
      /\ Distinct(Objects')
      /\ t \in Seq(Names) /\ Len(t) = size
      /\ \A i \in 1..size : t[i] = Name(stack'[i - 1])
      /\ request' = r
  BY <1>1, AskNames
<1>3. Len(s) = size /\ size \in Nat /\ s \in Seq(Names)
      /\ \A i \in 0..size - 1 : i + 1 \in DOMAIN s /\ s[i + 1] = Name(stack[i])
  BY <1>1, TopNames
<1>4. ASSUME NEW i \in 1..Len(t) PROVE t[i] = s[i]
  <2>1. i - 1 \in 0..size - 1 /\ i - 1 + 1 = i /\ i \in 1..size BY <1>2, <1>3
  <2> QED BY <1>2, <1>3, <2>1
<1>5. t = s BY <1>2, <1>3, <1>4, SeqEqual
<1>6. Pending' \in [kind : ObjectKinds, n : 0..Len(Stack)] BY <1>1, <1>2, <1>3
<1>7. GCNamed'
  <2>1. Asked' BY <1>2 DEF Asked
  <2> QED BY <1>2, <2>1 DEF GCNamed
<1> QED BY <1>1, <1>2, <1>5, <1>6, <1>7, RequestMove DEF GraphStep

LEMMA NewStringStep ==
  ASSUME GCTypes, GCTypes', GCNamed, NewString
  PROVE  GCNamed' /\ GraphStep
<1> DEFINE r == [kind |-> "string", n |-> 0, first |-> size, pops |-> 0, escaped |-> None]
<1>1. Ask(r) /\ stack' = stack /\ size' = size /\ Running /\ size \in Nat
  BY DepthType DEF NewString, MayAllocate
<1>2. /\ r.kind \in ObjectKinds \ {"closure"} /\ r.n \in 0..size /\ r.pops = r.n
      /\ r.first = size - r.n
  BY <1>1 DEF ObjectKinds
<1> HIDE DEF r
<1> QED BY <1>1, <1>2, RequestStep

LEMMA NewArrayStep ==
  ASSUME GCTypes, GCTypes', GCNamed, NEW n \in Nat, NewArray(n)
  PROVE  GCNamed' /\ GraphStep
<1> DEFINE r == [kind |-> "array", n |-> n, first |-> size - n, pops |-> n, escaped |-> None]
<1>1. Ask(r) /\ stack' = stack /\ size' = size /\ Running /\ size \in Nat /\ n <= size
  BY DepthType DEF NewArray, MayAllocate
<1>2. /\ r.kind \in ObjectKinds \ {"closure"} /\ r.n \in 0..size /\ r.pops = r.n
      /\ r.first = size - r.n
  BY <1>1 DEF ObjectKinds
<1> HIDE DEF r
<1> QED BY <1>1, <1>2, RequestStep

LEMMA NewSexpStep ==
  ASSUME GCTypes, GCTypes', GCNamed, NEW n \in Nat, NewSexp(n)
  PROVE  GCNamed' /\ GraphStep
<1> DEFINE r == [kind |-> "sexp", n |-> n, first |-> size - n, pops |-> n, escaped |-> None]
<1>1. Ask(r) /\ stack' = [stack EXCEPT ![size] = Plain] /\ size' = size /\ Running
      /\ size \in Nat /\ n <= size /\ stack \in [0..StackWords -> Words]
      /\ StackWords \in Nat /\ size <= StackWords
  BY DepthType DEF NewSexp, MayAllocate, GCTypes
<1>2. /\ r.kind \in ObjectKinds \ {"closure"} /\ r.n \in 0..size /\ r.pops = r.n
      /\ r.first = size - r.n
  BY <1>1 DEF ObjectKinds
<1>3. ASSUME NEW i \in 0..size - 1 PROVE stack'[i] = stack[i]
  <2>1. i \in 0..StackWords /\ i # size BY <1>1
  <2> QED BY <1>1, <2>1
<1> HIDE DEF r
<1> QED BY <1>1, <1>2, <1>3, RequestStep

LEMMA RenderStringStep ==
  ASSUME GCTypes, GCTypes', GCNamed, RenderString
  PROVE  GCNamed' /\ GraphStep
<1> DEFINE r == [kind |-> "string", n |-> 0, first |-> size - 1, pops |-> 0, escaped |-> Top(0)]
<1>1. Ask(r) /\ stack' = stack /\ size' = size - 1 /\ Running /\ size \in Nat /\ size >= 2
  BY DepthType DEF RenderString, MayAllocate
<1>2. r.kind = "string" /\ r.n = 0 /\ r.pops = 0 /\ r.first = size - 1
  OBVIOUS
<1> HIDE DEF r
<1>3. PICK s, t : s = Stack /\ t = Stack' OBVIOUS
<1>4. /\ Graphs' = Graphs /\ Pending = None /\ Pending' = [kind |-> "string", n |-> 0]
      /\ Distinct(Objects')
      /\ t \in Seq(Names) /\ Len(t) = size'
      /\ \A i \in 1..size' : t[i] = Name(stack'[i - 1])
      /\ request' = r
  BY <1>1, <1>2, <1>3, AskNames
<1>5. Len(s) = size /\ s \in Seq(Names)
      /\ \A i \in 0..size - 1 : i + 1 \in DOMAIN s /\ s[i + 1] = Name(stack[i])
  BY <1>1, <1>3, TopNames
<1> DEFINE c == SubSeq(s, 1, Len(s) - 1)
<1>6. c \in Seq(Names) /\ Len(c) = size - 1 /\ \A i \in 1..size - 1 : c[i] = s[i]
  BY <1>1, <1>5, SubSeqProperties, LenProperties
<1> HIDE DEF c
<1>7. ASSUME NEW i \in 1..Len(t) PROVE t[i] = c[i]
  <2>1. i - 1 \in 0..size - 1 /\ i - 1 + 1 = i /\ i \in 1..size - 1 BY <1>1, <1>4
  <2> QED BY <1>1, <1>4, <1>5, <1>6, <2>1
<1>8. t = c BY <1>1, <1>4, <1>6, <1>7, SeqEqual
<1>9. s # <<>> BY <1>1, <1>5
<1>10. GCNamed'
  <2>1. Asked' BY <1>1, <1>2, <1>4 DEF Asked
  <2> QED BY <1>4, <2>1 DEF GCNamed
<1> QED BY <1>3, <1>4, <1>8, <1>9, <1>10, RequestMove DEF GraphStep, c

LEMMA NewClosureStep ==
  ASSUME AllScanned, GCTypes, GCTypes', GCNamed, NEW n \in Nat, NewClosure(n)
  PROVE  GCNamed' /\ GraphStep
<1> DEFINE r == [kind |-> "closure", n |-> n + 1, first |-> size + 1, pops |-> n + 1, escaped |-> None]
<1>1. /\ Ask(r) /\ size' = size + n + 1 /\ Running /\ size + n + 1 <= StackWords
      /\ stack \in [0..StackWords -> Words] /\ DOMAIN stack = 0..StackWords
      /\ size \in Nat /\ size >= 2 /\ StackWords \in Nat
  BY DepthType DEF NewClosure, MayAllocate, GCTypes
<1>2. PICK captured \in [1..n -> Variables] :
        stack' = [i \in DOMAIN stack |->
                   IF i = size THEN Plain
                   ELSE IF i \in size + 1..size + n THEN stack[captured[i - size]]
                   ELSE stack[i]]
  BY DEF NewClosure
<1>3. r.kind = "closure" /\ r.n = n + 1 /\ r.pops = n + 1 /\ r.first = size + 1
  OBVIOUS
<1> HIDE DEF r
<1>4. PICK s, t : s = Stack /\ t = Stack' OBVIOUS
<1>5. /\ Graphs' = Graphs /\ Pending = None /\ Pending' = [kind |-> "closure", n |-> n + 1]
      /\ Distinct(Objects')
      /\ t \in Seq(Names) /\ Len(t) = size'
      /\ \A i \in 1..size' : t[i] = Name(stack'[i - 1])
      /\ request' = r
  BY <1>1, <1>3, <1>4, AskNames
<1>6. Len(s) = size /\ s \in Seq(Names)
      /\ \A i \in 0..size - 1 : i + 1 \in DOMAIN s /\ s[i + 1] = Name(stack[i])
  BY <1>1, <1>4, TopNames
<1>7. ASSUME NEW i \in 1..size PROVE t[i] = s[i]
  <2>1. i - 1 \in 0..size - 1 /\ i - 1 + 1 = i /\ i \in 1..size' /\ i - 1 \in DOMAIN stack
        /\ i - 1 # size /\ i - 1 \notin size + 1..size + n
    BY <1>1
  <2>2. stack'[i - 1] = stack[i - 1] BY <1>2, <2>1
  <2> QED BY <1>5, <1>6, <2>1, <2>2
<1>8. t[size + 1] = Plain /\ stack'[size] = Plain
  <2>1. size + 1 \in 1..size' /\ size + 1 - 1 = size /\ size \in DOMAIN stack BY <1>1
  <2>2. stack'[size] = Plain BY <1>2, <2>1
  <2>3. PICK j : j = size + 1 OBVIOUS
  <2>4. j \in 1..size' /\ j - 1 = size BY <1>1, <2>1, <2>3
  <2>5. t[j] = Name(stack'[j - 1]) BY <1>5, <2>4
  <2>6. t[j] = Name(Plain) BY <2>2, <2>4, <2>5
  <2> QED BY <2>2, <2>3, <2>6 DEF Name, NameIn
<1>9. ASSUME NEW i \in size + 2..size + n + 1 PROVE \E j \in DOMAIN s : s[j] = t[i]
  <2>1. i \in 1..size' /\ i - 1 \in DOMAIN stack /\ i - 1 # size /\ i - 1 \in size + 1..size + n
        /\ i - 1 - size \in 1..n
    BY <1>1
  <2>2. PICK k : k = captured[i - 1 - size] OBVIOUS
  <2>3. k \in Variables BY <2>1, <2>2
  <2>4. k \in 0..size - 1 BY <2>3, VariableType
  <2>5. stack'[i - 1] = stack[k] BY <1>2, <2>1, <2>2
  <2> QED BY <1>5, <1>6, <2>1, <2>4, <2>5
<1>10. SubSeq(t, 1, size + 1) = Append(s, Plain)
  <2> DEFINE c == SubSeq(t, 1, size + 1)
  <2>1. c \in Seq(Names) /\ Len(c) = size + 1 /\ \A i \in 1..size + 1 : c[i] = t[i]
    BY <1>1, <1>5, SubSeqProperties, LenProperties
  <2> HIDE DEF c
  <2>2. Plain \in Names BY DEF Names
  <2>3. size \in 0..Len(s) BY <1>1, <1>6
  <2>4. \A i \in 1..size : i \in 1..size + 1 BY <1>1
  <2>5. \A i \in 1..size : c[i] = s[i] BY <1>7, <2>1, <2>4
  <2>6. c[size + 1] = Plain
    <3>1. size + 1 \in 1..size + 1 BY <1>1
    <3> QED BY <1>8, <2>1, <3>1
  <2>7. c = Append(SubSeq(s, 1, size), Plain)
    BY <1>6, <2>1, <2>2, <2>3, <2>5, <2>6, CutIs
  <2>8. SubSeq(s, 1, size) = s BY <1>6, SubSeqFull
  <2> QED BY <2>7, <2>8 DEF c
<1>11. /\ Len(Stack') > Len(Stack)
       /\ SubSeq(Stack', 1, Len(Stack) + 1) = Append(Stack, Plain)
       /\ \A i \in Len(Stack) + 2..Len(Stack') : \E j \in DOMAIN Stack : Stack[j] = Stack'[i]
       /\ Pending' = [kind |-> "closure", n |-> Len(Stack') - Len(Stack)]
  <2>1. Len(t) > Len(s) /\ Len(t) - Len(s) = n + 1 /\ Len(t) = size + n + 1
    BY <1>1, <1>5, <1>6
  <2>2. \A i \in Len(s) + 2..Len(t) : \E j \in DOMAIN s : s[j] = t[i] BY <1>6, <1>9, <2>1
  <2>3. SubSeq(t, 1, Len(s) + 1) = Append(s, Plain) BY <1>6, <1>10
  <2> QED BY <1>4, <1>5, <2>1, <2>2, <2>3
<1>12. GCNamed'
  <2>1. Asked'
    <3>1. size' - (n + 1) = size /\ size' - (n + 1) + 1 = size + 1 /\ n + 1 > 0 BY <1>1
    <3> QED BY <1>3, <1>5, <1>8, <3>1 DEF Asked
  <2> QED BY <1>5, <2>1 DEF GCNamed
<1> QED BY <1>5, <1>11, <1>12, RequestMove DEF GraphStep

-----------------------------------------------------------------------------
(* Allocation                                                              *)

(* The words of the fields that can be read refer to objects of R.         *)
FieldsSound(X, b, R) ==
  \A q \in DOMAIN X : \A i \in DOMAIN X[q].fields : SoundAt(b, X[q].fields[i], R)

LEMMA VisibleSound ==
  ASSUME NEW obj, NEW b, NEW R, obj.fields \in Seq(Words),
         \A i \in DOMAIN obj.fields : SoundAt(b, obj.fields[i], R)
  PROVE  /\ DOMAIN Visible(obj) = DOMAIN obj.fields
         /\ \A i \in DOMAIN obj.fields : SoundAt(b, Visible(obj)[i], R)
         /\ Visible(obj) \in [DOMAIN obj.fields -> Words]
<1>1. CASE obj.kind # "closure"
  <2>1. Visible(obj) = obj.fields BY <1>1 DEF Visible
  <2> QED BY <2>1
<1>2. CASE obj.kind = "closure"
  <2>1. PICK n, f, v : n = Len(obj.fields) /\ f = obj.fields /\ v = Visible(obj) OBVIOUS
  <2>2. n \in Nat /\ DOMAIN f = 1..n /\ f \in [1..n -> Words] BY <2>1, LenProperties
  <2>3. v = [i \in 1..n |-> IF i = 1 THEN Plain ELSE f[i - 1]] BY <1>2, <2>1, <2>2 DEF Visible
  <2>4. ASSUME NEW i \in 1..n PROVE SoundAt(b, v[i], R) /\ v[i] \in Words
    <3>1. CASE i = 1
      <4>1. v[i] = Plain BY <2>3, <3>1
      <4> QED BY <4>1 DEF SoundAt, Words
    <3>2. CASE i # 1
      <4>1. i - 1 \in 1..n BY <2>2, <3>2
      <4>2. v[i] = f[i - 1] BY <2>3, <3>2
      <4>3. SoundAt(b, f[i - 1], R) /\ f[i - 1] \in Words BY <2>1, <2>2, <4>1
      <4> QED BY <4>2, <4>3
    <3> QED BY <3>1, <3>2
  <2>5. DOMAIN v = 1..n BY <2>3
  <2>6. v \in [1..n -> Words] BY <2>3, <2>4
  <2> QED BY <2>1, <2>2, <2>4, <2>5, <2>6
<1> QED BY <1>1, <1>2

(* A new object at c, which nothing refers to yet.                         *)
Grown(X, Y, b, c) ==
  /\ c \notin DOMAIN X /\ DOMAIN Y = DOMAIN X \union {c}
  /\ \A q \in DOMAIN X : Y[q] = X[q]
  /\ \A q \in DOMAIN X : X[q].fields \in Seq(Words)
  /\ FieldsSound(X, b, DOMAIN X)
  /\ Y[c].id \in Ids /\ \A q \in DOMAIN X : X[q].id # Y[c].id
  /\ \A i \in DOMAIN Visible(Y[c]) : SoundAt(b, Visible(Y[c])[i], DOMAIN X)

WithNode(g, x, v) == [y \in DOMAIN g \union {x} |-> IF y = x THEN v ELSE g[y]]

LEMMA GraphGrows ==
  ASSUME NEW X, NEW Y, NEW b, NEW c, Distinct(X), Grown(X, Y, b, c)
  PROVE  /\ Distinct(Y)
         /\ \A w : SoundAt(b, w, DOMAIN X) => NameIn(Y, b, w) = NameIn(X, b, w)
         /\ GraphIn(Y, b) = WithNode(GraphIn(X, b), Y[c].id,
                                     [kind |-> Y[c].kind, fields |-> NamesIn(X, b, Visible(Y[c]))])
<1>1. Distinct(Y)
  <2>1. /\ DOMAIN Y = DOMAIN X \union {c} /\ (\A q \in DOMAIN X : Y[q] = X[q])
        /\ Y[c].id \in Ids /\ \A q \in DOMAIN X : X[q].id # Y[c].id
    BY DEF Grown
  <2> QED BY <2>1 DEF Distinct
<1>2. ASSUME NEW w, SoundAt(b, w, DOMAIN X) PROVE NameIn(Y, b, w) = NameIn(X, b, w)
  BY <1>2 DEF NameIn, SoundAt, Grown
<1>3. PICK f, g, x, v : f = GraphIn(X, b) /\ g = GraphIn(Y, b) /\ x = Y[c].id
                        /\ v = [kind |-> Y[c].kind, fields |-> NamesIn(X, b, Visible(Y[c]))]
  OBVIOUS
<1>4. f = [y \in DOMAIN f |-> f[y]] /\ g = [y \in DOMAIN g |-> g[y]]
  BY <1>3 DEF GraphIn
<1>5. DOMAIN f = {X[q].id : q \in DOMAIN X} /\ DOMAIN g = {Y[q].id : q \in DOMAIN Y}
      /\ (\A q \in DOMAIN X : f[X[q].id] = Named(X, b, q))
      /\ (\A q \in DOMAIN Y : g[Y[q].id] = Named(Y, b, q))
  <2>1. /\ DOMAIN GraphIn(X, b) = {X[q].id : q \in DOMAIN X}
        /\ \A q \in DOMAIN X : GraphIn(X, b)[X[q].id] = Named(X, b, q)
    BY GraphIs
  <2>2. /\ DOMAIN GraphIn(Y, b) = {Y[q].id : q \in DOMAIN Y}
        /\ \A q \in DOMAIN Y : GraphIn(Y, b)[Y[q].id] = Named(Y, b, q)
    BY <1>1, GraphIs
  <2> QED BY <1>3, <2>1, <2>2
<1>6. DOMAIN g = DOMAIN f \union {x} /\ x \notin DOMAIN f
  <2>1. /\ DOMAIN Y = DOMAIN X \union {c} /\ (\A q \in DOMAIN X : Y[q] = X[q])
        /\ \A q \in DOMAIN X : X[q].id # x
    BY <1>3 DEF Grown
  <2> QED BY <1>3, <1>5, <2>1
<1>7. ASSUME NEW s, \A i \in DOMAIN s : SoundAt(b, s[i], DOMAIN X)
      PROVE  NamesIn(Y, b, s) = NamesIn(X, b, s)
  BY <1>2, <1>7 DEF NamesIn
<1>8. g[x] = v
  <2>1. c \in DOMAIN Y /\ \A i \in DOMAIN Visible(Y[c]) : SoundAt(b, Visible(Y[c])[i], DOMAIN X)
    BY DEF Grown
  <2> QED BY <1>3, <1>5, <1>7, <2>1 DEF Named
<1>9. ASSUME NEW y \in DOMAIN f PROVE g[y] = f[y]
  <2>1. PICK q \in DOMAIN X : y = X[q].id BY <1>5
  <2>2. /\ q \in DOMAIN Y /\ Y[q] = X[q] /\ X[q].fields \in Seq(Words)
        /\ \A i \in DOMAIN X[q].fields : SoundAt(b, X[q].fields[i], DOMAIN X)
    BY DEF Grown, FieldsSound
  <2>3. \A i \in DOMAIN Visible(X[q]) : SoundAt(b, Visible(X[q])[i], DOMAIN X)
    BY <2>2, VisibleSound
  <2>4. NamesIn(Y, b, Visible(X[q])) = NamesIn(X, b, Visible(X[q])) BY <1>7, <2>3
  <2>5. Named(Y, b, q) = Named(X, b, q) BY <2>2, <2>4 DEF Named
  <2> QED BY <1>5, <2>1, <2>2, <2>5
<1>10. g = WithNode(f, x, v) BY <1>4, <1>6, <1>8, <1>9 DEF WithNode
<1> QED BY <1>1, <1>2, <1>3, <1>10

LEMMA AllocationMove ==
  ASSUME Pending # None, Pending' = None,
         NEW x \in Ids \ DOMAIN Graphs,
         Graphs' = WithNode(Graphs, x, [kind |-> Pending.kind,
                     fields |-> SubSeq(Stack, Len(Stack) - Pending.n + 1, Len(Stack))]),
         Stack' = Append(SubSeq(Stack, 1, Len(Stack) - Pending.n), x)
  PROVE  Graph!Next
BY Zenon DEF Graph!Next, Graph!New, Graph!Without, Graph!Becomes, Stack, Graphs, Pending, WithNode

(* There is always a name that no object has.                              *)
LEMMA NewName ==
  ASSUME ~IsFiniteSet(Ids), HeapOK
  PROVE  NewId \in Ids /\ \A o \in DOMAIN heap.objs : heap.objs[o].id # NewId
<1> DEFINE D == DOMAIN heap.objs
           S == {heap.objs[o].id : o \in D}
<1>1. IsFiniteSet(D)
  <2>1. heap.current \in Nat /\ D \subseteq 0..heap.current - 1 BY DEF HeapOK
  <2>2. IsFiniteSet(0..heap.current - 1)
    <3>1. 0 \in Int /\ heap.current - 1 \in Int BY <2>1
    <3> QED BY <3>1, FS_Interval
  <2> QED BY <2>1, <2>2, FS_Subset
<1>2. IsFiniteSet(S)
  <2> DEFINE f == [o \in D |-> heap.objs[o].id]
  <2>1. f \in Surjection(D, S) BY DEF Surjection
  <2> QED BY <1>1, <2>1, FS_Surjection
<1>3. ~(Ids \subseteq S) BY <1>2, FS_Subset
<1>4. \E x \in Ids : \A o \in D : heap.objs[o].id # x BY <1>3
<1> QED BY <1>4 DEF NewId

LEMMA AllocateStep ==
  ASSUME ~IsFiniteSet(Ids), GCTypes, GCTypes', GCSound, GCNamed, Allocate
  PROVE  GCNamed' /\ GraphStep
<1>1. /\ phase \in {"alloc", "again"} /\ phase # "run" /\ phase # "relocate"
      /\ RequestOK /\ HeapOK /\ Asked /\ stack \in [0..StackWords -> Words]
  BY DEF Allocate, GCTypes, GCNamed
<1>2. Objects = heap.objs BY <1>1 DEF Objects
<1>3. PICK X, b, c, n, m : X = heap.objs /\ b = heap.base /\ c = heap.current
                           /\ n = request.n /\ m = size - request.n
  OBVIOUS
<1>4. Distinct(X) BY <1>2, <1>3 DEF GCNamed
<1>5. /\ n \in Nat /\ m \in Nat /\ m >= 2 /\ m + n = size /\ m < StackWords /\ size \in Nat
      /\ StackWords \in Nat /\ size <= StackWords /\ request.pops = n /\ request.kind \in ObjectKinds
  <2>1. /\ request.pops = n /\ n \in Nat /\ request.kind \in ObjectKinds
        /\ Frame.base + Locals <= size - n /\ size - n < StackWords
    BY <1>1, <1>3 DEF RequestOK, Asked
  <2>2. size \in Nat /\ StackWords \in Nat /\ size <= StackWords BY DepthType
  <2>3. Frame.base + Locals \in Nat /\ Frame.base + Locals >= 2 BY FrameType
  <2>4. PICK bottom : bottom = Frame.base + Locals OBVIOUS
  <2> QED BY <1>3, <2>1, <2>2, <2>3, <2>4
<1>6. PICK s, t : s = Stack /\ t = Stack' OBVIOUS
<1>7. s \in Seq(Names) /\ Len(s) = size /\ \A i \in 1..size : s[i] = NameIn(X, b, stack[i - 1])
  <2>1. s = [i \in 1..size |-> NameIn(X, b, stack[i - 1])] BY <1>2, <1>3, <1>6 DEF Stack
  <2>2. s \in [1..size -> Names] /\ \A i \in 1..size : s[i] = NameIn(X, b, stack[i - 1])
    BY <1>4, <2>1, NameType
  <2> QED BY <1>5, <2>2, StackNames
<1>8. Pending = [kind |-> request.kind, n |-> n] /\ Pending # None
  <2>1. Pending = [kind |-> request.kind, n |-> n] BY <1>1, <1>3 DEF Pending
  <2>2. Pending \in [kind : ObjectKinds, n : Nat] BY <1>5, <2>1
  <2> QED BY <2>1, <2>2, GCAssumption
<1>9. CASE ~Fits
  <2>1. phase' = "killed" /\ UNCHANGED <<stack, size, request, heap>> BY <1>9 DEF Allocate
  <2>2. Objects' = Objects
    <3>1. phase' # "relocate" /\ heap'.objs = heap.objs BY <2>1
    <3>2. Objects' = heap'.objs BY <3>1 DEF Objects
    <3> QED BY <1>2, <3>1, <3>2
  <2>3. Stack' = Stack /\ Graphs' = Graphs /\ Pending' = Pending
    BY <1>1, <2>1, <2>2 DEF Stack, Graphs, Pending
  <2>4. GCNamed' BY <1>2, <1>3, <1>4, <2>1, <2>2 DEF GCNamed
  <2> QED BY <2>3, <2>4 DEF GraphStep
<1>10. CASE Fits
  <2> DEFINE F == [i \in 1..request.n |-> stack[request.first + i - 1]]
             yes == TRUE
             no == FALSE
             new == [kind |-> request.kind, id |-> NewId, fields |-> F,
                     fwd |-> None, mark |-> no, enq |-> no]
             Y == [o \in DOMAIN X \union {c} |-> IF o = c THEN new ELSE X[o]]
  <2>1. /\ heap' = [heap EXCEPT !.current = @ + SizeOf(new), !.objs = Y]
        /\ stack' = [stack EXCEPT ![size - request.pops] = ContentOf(b, c)]
        /\ size' = size - request.pops + 1
        /\ phase' = "run"
    BY <1>3, <1>10 DEF Allocate
  <2>2. /\ new.fields = F /\ new.kind = request.kind /\ new.id = NewId OBVIOUS
  <2> HIDE DEF new
  <2>3. heap'.base = b /\ heap'.objs = Y
    <3>1. heap' = [base |-> b, size |-> heap.size, current |-> c + SizeOf(new), objs |-> Y]
      BY <1>1, <1>3, <2>1 DEF HeapOK
    <3> QED BY <3>1
  <2>4. /\ DOMAIN Y = DOMAIN X \union {c} /\ Y[c] = new /\ c \notin DOMAIN X
        /\ \A q \in DOMAIN X : Y[q] = X[q]
    BY <1>1, <1>3 DEF HeapOK
  <2>5. DOMAIN F = 1..n /\ \A i \in 1..n : F[i] = stack[request.first + i - 1]
    BY <1>3
  <2> HIDE DEF F, Y
  <2>6. PICK V : V = Visible(new) OBVIOUS
  <2>7. DOMAIN V = 1..n /\ \A i \in 1..n : V[i] = stack[m + i - 1]
    <3>1. CASE request.kind # "closure"
      <4>1. V = F /\ request.first = m BY <1>1, <1>3, <2>2, <2>6, <3>1 DEF Visible, Asked
      <4> QED BY <2>5, <4>1
    <3>2. CASE request.kind = "closure"
      <4>1. /\ V = [i \in DOMAIN F |-> IF i = 1 THEN Plain ELSE F[i - 1]]
            /\ request.first = m + 1 /\ stack[m] = Plain
        BY <1>1, <1>3, <2>2, <2>6, <3>2 DEF Visible, Asked
      <4>2. ASSUME NEW i \in 1..n PROVE V[i] = stack[m + i - 1]
        <5>1. V[i] = IF i = 1 THEN Plain ELSE F[i - 1] BY <2>5, <4>1
        <5>2. CASE i = 1
          <6>1. m + i - 1 = m BY <1>5, <5>2
          <6> QED BY <4>1, <5>1, <5>2, <6>1
        <5>3. CASE i # 1
          <6>1. i - 1 \in 1..n /\ request.first + (i - 1) - 1 = m + i - 1 BY <1>5, <4>1, <5>3
          <6> QED BY <2>5, <5>1, <5>3, <6>1
        <5> QED BY <5>2, <5>3
      <4> QED BY <2>5, <4>1, <4>2
    <3> QED BY <3>1, <3>2
  <2>8. \A i \in 1..n : m + i - 1 \in 0..size - 1 /\ m + i \in 1..size BY <1>5
  <2>9. \A i \in 0..size - 1 : SoundAt(b, stack[i], DOMAIN X)
    <3>1. phase \in {"run", "alloc", "mark", "again"} BY <1>1
    <3> QED BY <1>3, <3>1, SoundStack DEF SoundIn
  <2>10. Grown(X, Y, b, c)
    <3>1. \A q \in DOMAIN X : X[q].fields \in Seq(Words) BY <1>1, <1>3 DEF HeapOK, IsObject
    <3>2. FieldsSound(X, b, DOMAIN X)
      BY <1>1, <1>3 DEF GCSound, FieldsIn, FieldsSound, SoundIn
    <3>3. Y[c].id \in Ids /\ \A q \in DOMAIN X : X[q].id # Y[c].id
      BY <1>1, <1>3, <2>2, <2>4, NewName
    <3>4. \A i \in DOMAIN Visible(Y[c]) : SoundAt(b, Visible(Y[c])[i], DOMAIN X)
      BY <2>4, <2>6, <2>7, <2>8, <2>9
    <3> QED BY <2>4, <3>1, <3>2, <3>3, <3>4 DEF Grown
  <2>11. PICK x : x = NewId OBVIOUS
  <2>12. /\ Distinct(Y)
         /\ \A w : SoundAt(b, w, DOMAIN X) => NameIn(Y, b, w) = NameIn(X, b, w)
         /\ GraphIn(Y, b) = WithNode(GraphIn(X, b), x, [kind |-> request.kind, fields |-> NamesIn(X, b, V)])
    <3>1. Y[c].id = x /\ Y[c].kind = request.kind /\ Visible(Y[c]) = V
      BY <2>2, <2>4, <2>6, <2>11
    <3>2. /\ Distinct(Y)
          /\ GraphIn(Y, b) = WithNode(GraphIn(X, b), Y[c].id,
                                 [kind |-> Y[c].kind, fields |-> NamesIn(X, b, Visible(Y[c]))])
      BY <1>4, <2>10, GraphGrows
    <3>3. \A w : SoundAt(b, w, DOMAIN X) => NameIn(Y, b, w) = NameIn(X, b, w)
      BY <2>4 DEF NameIn, SoundAt
    <3> QED BY <3>1, <3>2, <3>3
  <2>13. Objects' = Y /\ Graphs' = GraphIn(Y, b) /\ Graphs = GraphIn(X, b) /\ Pending' = None
    BY <1>2, <1>3, <2>1, <2>3 DEF Objects, Graphs, Pending
  <2>14. x \in Ids \ DOMAIN Graphs
    <3>1. DOMAIN Graphs = {X[q].id : q \in DOMAIN X} BY <1>4, <2>13, GraphIs
    <3> QED BY <1>1, <1>3, <2>11, <3>1, NewName
  <2>15. SubSeq(s, m + 1, size) = NamesIn(X, b, V)
    <3> DEFINE u == NamesIn(X, b, V)
               e == SubSeq(s, m + 1, size)
    <3>1. u \in Seq(Names) /\ Len(u) = n /\ \A i \in 1..n : u[i] = NameIn(X, b, V[i])
      BY <1>4, <1>5, <2>7, NamesAre
    <3>2. e \in Seq(Names) /\ Len(e) = n /\ \A i \in 1..n : e[i] = s[m + i]
      <4>1. m + 1 \in 1..Len(s) + 1 /\ size \in m..Len(s) /\ m + 1 \in Int /\ size \in Int
            /\ size - (m + 1) + 1 = n /\ \A i \in 1..n : m + 1 + i - 1 = m + i
        BY <1>5, <1>7
      <4>2. \A i \in m + 1..size : i \in 1..Len(s) BY <1>5, <1>7
      <4> QED BY <1>5, <1>7, <4>1, <4>2, SubSeqProperties
    <3> HIDE DEF u, e
    <3>3. ASSUME NEW i \in 1..n PROVE e[i] = u[i]
      <4>1. m + i \in 1..size /\ (m + i) - 1 = m + i - 1 BY <1>5
      <4>2. s[m + i] = NameIn(X, b, stack[m + i - 1]) BY <1>7, <4>1
      <4> QED BY <2>7, <3>1, <3>2, <4>2
    <3>4. e = u BY <3>1, <3>2, <3>3, SeqEqual
    <3> QED BY <3>4 DEF e, u
  <2>16. t = Append(SubSeq(s, 1, m), x)
    <3>1. size' = m + 1 /\ stack' = [stack EXCEPT ![m] = ContentOf(b, c)]
      BY <1>3, <1>5, <2>1
    <3>2. t = [i \in 1..m + 1 |-> NameIn(Y, b, stack'[i - 1])]
      BY <1>6, <2>3, <2>13, <3>1 DEF Stack
    <3>3. t \in [1..m + 1 -> Names] /\ \A i \in 1..m + 1 : t[i] = NameIn(Y, b, stack'[i - 1])
      BY <2>12, <3>2, NameType
    <3>4. m + 1 \in Nat BY <1>5
    <3>5. t \in Seq(Names) /\ Len(t) = m + 1 BY <3>3, <3>4, StackNames
    <3>6. ASSUME NEW i \in 1..m PROVE t[i] = s[i]
      <4>1. i \in 1..m + 1 /\ i \in 1..size /\ i - 1 \in 0..size - 1 /\ i - 1 \in 0..StackWords /\ i - 1 # m
        BY <1>5
      <4>2. stack'[i - 1] = stack[i - 1] BY <1>1, <3>1, <4>1
      <4> QED BY <1>7, <2>9, <2>12, <3>3, <4>1, <4>2
    <3>7. t[m + 1] = x
      <4>1. PICK i : i = m + 1 OBVIOUS
      <4>2. i \in 1..m + 1 /\ i - 1 = m /\ m \in 0..StackWords BY <1>5, <4>1
      <4>3. stack'[i - 1] = ContentOf(b, c) BY <1>1, <3>1, <4>2
      <4>4. t[i] = NameIn(Y, b, ContentOf(b, c)) BY <3>3, <4>2, <4>3
      <4>5. ContentOf(b, c)[1] = b /\ HeaderOf(ContentOf(b, c)) = c /\ ContentOf(b, c) # Plain
        <5>1. c \in Nat /\ b \in Bases BY <1>1, <1>3 DEF HeapOK
        <5> QED BY <5>1, GCAssumption DEF ContentOf, HeaderOf, Header
      <4>6. t[i] = Y[c].id BY <2>4, <4>4, <4>5 DEF NameIn
      <4> QED BY <2>2, <2>4, <2>11, <4>1, <4>6
    <3>8. x \in Names BY <2>14 DEF Names
    <3>9. m \in 0..Len(s) BY <1>5, <1>7
    <3> QED BY <1>7, <3>5, <3>6, <3>7, <3>8, <3>9, CutIs
  <2>17. GCNamed' BY <2>1, <2>12, <2>13 DEF GCNamed
  <2>18. /\ Graphs' = WithNode(Graphs, x, [kind |-> Pending.kind,
                        fields |-> SubSeq(Stack, Len(Stack) - Pending.n + 1, Len(Stack))])
         /\ Stack' = Append(SubSeq(Stack, 1, Len(Stack) - Pending.n), x)
    <3>1. Pending.kind = request.kind /\ Pending.n = n /\ Len(s) - n = m BY <1>5, <1>7, <1>8
    <3> QED BY <1>6, <1>7, <2>12, <2>13, <2>15, <2>16, <3>1
  <2> QED BY <1>8, <2>13, <2>14, <2>17, <2>18, AllocationMove DEF GraphStep
<1> QED BY <1>9, <1>10

-----------------------------------------------------------------------------
(* Steps of a collection that the graph does not show                      *)

(* A step of the collector that the graph does not show.                   *)
LEMMA Unseen ==
  ASSUME GCNamed, phase # "run", phase' # "run",
         Alike(Objects, Objects'), heap'.base = heap.base,
         stack' = stack, size' = size, request' = request
  PROVE  Distinct(Objects') /\ UNCHANGED <<Stack, Graphs, Pending>>
<1>1. PICK X, Y, b : X = Objects /\ Y = Objects' /\ b = heap.base OBVIOUS
<1>2. Alike(X, Y) /\ Distinct(X) BY <1>1 DEF GCNamed
<1>3. Distinct(Y) /\ GraphIn(X, b) = GraphIn(Y, b) BY <1>2, AlikeGraph
<1>4. \A w : NameIn(X, b, w) = NameIn(Y, b, w) BY <1>2 DEF NameIn, Alike
<1>5. /\ Stack = [i \in 1..size |-> NameIn(X, b, stack[i - 1])]
      /\ Stack' = [i \in 1..size |-> NameIn(Y, b, stack[i - 1])]
  BY <1>1 DEF Stack
<1>6. Stack' = Stack BY <1>4, <1>5
<1>7. Graphs' = Graphs BY <1>1, <1>3 DEF Graphs
<1>8. Pending' = Pending BY DEF Pending
<1> QED BY <1>1, <1>3, <1>6, <1>7, <1>8

LEMMA UnseenStep ==
  ASSUME GCNamed, phase \in {"alloc", "mark"}, phase' \in {"mark", "killed"},
         NEW X, OnlyBits(X), Alike(heap.objs, X)
  PROVE  GCNamed' /\ GraphStep
<1>1. /\ Alike(heap.objs, heap'.objs) /\ heap'.base = heap.base
      /\ stack' = stack /\ size' = size /\ request' = request
  BY DEF OnlyBits
<1>2. phase # "run" /\ phase' # "run" /\ Objects = heap.objs /\ Objects' = heap'.objs BY DEF Objects
<1>3. Distinct(Objects') /\ UNCHANGED <<Stack, Graphs, Pending>> BY <1>1, <1>2, Unseen
<1>4. Asked' BY <1>1 DEF GCNamed, Asked
<1> QED BY <1>3, <1>4 DEF GCNamed, GraphStep

LEMMA AlikeItself ==
  \A X : Alike(X, X)
BY DEF Alike

LEMMA StartMarkStep ==
  ASSUME GCTypes, GCNamed, StartMark
  PROVE  GCNamed' /\ GraphStep
<1>1. /\ phase = "alloc" /\ phase' = "mark" /\ UNCHANGED <<stack, size, request, heap>>
  BY DEF StartMark, interpreter
<1>2. OnlyBits(heap.objs) BY <1>1 DEF OnlyBits
<1> QED BY <1>1, <1>2, AlikeItself, UnseenStep

LEMMA QueuedAlike ==
  ASSUME GCTypes, NEW t, NEW w \in Words, ToMark(w)
  PROVE  Alike(heap.objs, Queued(t, w))
<1>1. w \in Bases \X Nat BY ToMarkWord
<1>2. /\ DOMAIN Queued(t, w) = DOMAIN heap.objs
      /\ \A o \in DOMAIN heap.objs : /\ Queued(t, w)[o].fields = heap.objs[o].fields
                                     /\ SameNode(Queued(t, w)[o], heap.objs[o])
  BY <1>1, QueuedTypes
<1> QED BY <1>2 DEF Alike, SameNode

LEMMA MarkRootStep ==
  ASSUME GCTypes, GCNamed, MarkRoot
  PROVE  GCNamed' /\ GraphStep
<1>1. phase = "mark" /\ phase' = "mark" BY MarkRootTypes
<1>2. PICK i \in DOMAIN gc.roots : ToMark(gc.roots[i]) /\ OnlyBits(Queued(0, gc.roots[i]))
  BY MarkRootTypes
<1>3. gc.roots[i] \in Words BY <1>1 DEF GCTypes
<1>4. Alike(heap.objs, Queued(0, gc.roots[i])) BY <1>2, <1>3, QueuedAlike
<1> QED BY <1>1, <1>2, <1>4, UnseenStep

LEMMA MarkObjectStep ==
  ASSUME GCTypes, GCNamed, MarkObject
  PROVE  GCNamed' /\ GraphStep
<1>1. phase = "mark" BY MarkObjectTypes
<1>2. CASE gc.head \in DOMAIN heap.objs /\ RefersToObject(heap.objs[gc.head].fwd)
  <2>1. PICK o : o = Target(gc.head) OBVIOUS
  <2>2. phase' = "mark" /\ OnlyBits(Blackened(o)) BY <1>2, <2>1, MarkObjectTypes
  <2>3. o \in DOMAIN heap.objs BY <1>2, <2>1 DEF RefersToObject, Target
  <2>4. /\ DOMAIN Blackened(o) = DOMAIN heap.objs
        /\ \A q \in DOMAIN heap.objs : /\ Blackened(o)[q].fields = heap.objs[q].fields
                                       /\ SameNode(Blackened(o)[q], heap.objs[q])
    BY <2>3, BlackenedTypes DEF Blackened
  <2>5. Alike(heap.objs, Blackened(o)) BY <2>4 DEF Alike, SameNode
  <2> QED BY <1>1, <2>2, <2>5, UnseenStep
<1>3. CASE ~(gc.head \in DOMAIN heap.objs /\ RefersToObject(heap.objs[gc.head].fwd))
  <2>1. phase' = "killed" /\ heap' = heap /\ UNCHANGED <<stack, size, request>>
    BY <1>3 DEF MarkObject, interpreter
  <2>2. OnlyBits(heap.objs) BY <2>1 DEF OnlyBits
  <2> QED BY <1>1, <2>1, <2>2, AlikeItself, UnseenStep
<1> QED BY <1>2, <1>3

LEMMA VisitFieldStep ==
  ASSUME GCTypes, GCNamed, VisitField
  PROVE  GCNamed' /\ GraphStep
<1>1. /\ phase = "mark" /\ phase' = "mark" /\ gc.fields \in Seq(Words) /\ gc.fields # <<>>
  BY VisitFieldTypes
<1>2. CASE ToVisit(Head(gc.fields))
  <2>1. PICK w : w = Head(gc.fields) OBVIOUS
  <2>2. OnlyBits(Queued(gc.tail, w)) BY <1>2, <2>1, VisitFieldTypes
  <2>3. w \in Words /\ ToMark(w) BY <1>1, <1>2, <2>1, HeadTailProperties DEF ToVisit
  <2>4. Alike(heap.objs, Queued(gc.tail, w)) BY <2>3, QueuedAlike
  <2> QED BY <1>1, <2>2, <2>4, UnseenStep
<1>3. CASE ~ToVisit(Head(gc.fields))
  <2>1. OnlyBits(heap.objs) BY <1>3, VisitFieldTypes
  <2> QED BY <1>1, <2>1, AlikeItself, UnseenStep
<1> QED BY <1>2, <1>3

LEMMA CompactGarbageStep ==
  ASSUME GCTypes, GCNamed, CompactGarbage
  PROVE  GCNamed' /\ GraphStep
<1>1. /\ phase = "mark" /\ phase' = "killed" /\ UNCHANGED <<stack, size, request, heap>>
  BY DEF CompactGarbage, MarkDone, interpreter
<1>2. OnlyBits(heap.objs) BY <1>1 DEF OnlyBits
<1> QED BY <1>1, <1>2, AlikeItself, UnseenStep

-----------------------------------------------------------------------------
(* Relocation, as a graph of objects                                       *)

(* The objects that the references of the new heap mean.                   *)
MovedTo(free) ==
  /\ DOMAIN Objects = Places(free)
  /\ \A q \in Settled(free) : Objects[q] = heap.objs[q]
  /\ \A p \in Moving : Objects[Place(p)] = heap.objs[p]

LEMMA MovedObjects ==
  ASSUME GCTypes, phase = "relocate", NEW free, Sliding(free)
  PROVE  MovedTo(free)
<1>1. PICK D, M, f : D = DOMAIN heap.objs /\ M = Moving /\ f = [p \in Moving |-> Place(p)] OBVIOUS
<1>2. /\ D \subseteq Nat /\ M \subseteq D /\ free \in Nat /\ gc.from \in Nat
      /\ M = {o \in D : gc.from <= o /\ heap.objs[o].mark}
      /\ \A p \in M : f[p] = heap.objs[p].fwd[2]
  BY <1>1 DEF GCTypes, HeapOK, Moving, Unmoved, Place, Sliding
<1>3. /\ \A p \in M : f[p] \in Nat /\ free <= f[p]
      /\ \A p, q \in M : p < q => f[p] < f[q]
      /\ \A p \in M : f[p] = free \/ \E q \in M : q < p
  <2>1. \A p \in M : heap.objs[p].fwd \in Bases \X Nat BY <1>1 DEF Sliding
  <2>2. \A p \in M : f[p] \in Nat BY <1>2, <2>1
  <2>3. \A p \in M : SizeOf(heap.objs[p]) \in Nat /\ SizeOf(heap.objs[p]) >= 2 BY <1>1, <1>2, ObjectIs
  <2>4. \A p, q \in M : p < q => f[p] + SizeOf(heap.objs[p]) <= f[q] BY <1>1 DEF Sliding
  <2>5. \A p \in M : f[p] = free \/ \E q \in M : q < p BY <1>1 DEF Sliding
  <2>6. \A p \in M : free <= f[p] BY <1>1 DEF Sliding
  <2>7. ASSUME NEW p \in M, NEW q \in M, p < q PROVE f[p] < f[q]
    <3>1. PICK s : s = SizeOf(heap.objs[p]) OBVIOUS
    <3>2. s \in Nat /\ s >= 2 /\ f[p] + s <= f[q] /\ f[p] \in Nat /\ f[q] \in Nat
      BY <2>2, <2>3, <2>4, <2>7, <3>1
    <3> QED BY <3>2
  <2> QED BY <2>2, <2>5, <2>6, <2>7
<1>4. \A p, q \in M : f[p] = f[q] => p = q
  <2>1. \A p, q \in M : p \in Nat /\ q \in Nat BY <1>2
  <2> QED BY <1>3, <2>1
<1>5. M # {} => \E p \in M : f[p] = free
  <2> SUFFICES ASSUME M # {} PROVE \E p \in M : f[p] = free
    OBVIOUS
  <2>1. M \in SUBSET Nat BY <1>2
  <2>2. PICK p \in M : \A q \in M : p <= q BY <2>1, LeastOf
  <2>3. \A q \in M : ~(q < p) BY <2>1, <2>2
  <2> QED BY <1>3, <2>3
<1> DEFINE W == {o \in DOMAIN heap.objs : gc.from <= o /\ heap.objs[o].mark}
           P == {heap.objs[o].fwd[2] : o \in W}
           e == IF W = {} THEN gc.live ELSE Min(P)
           d(q) == IF q < e THEN q ELSE CHOOSE o \in W : heap.objs[o].fwd[2] = q
<1>6. Objects = [q \in {o \in DOMAIN heap.objs : o < e} \union P |-> heap.objs[d(q)]]
  BY DEF Objects
<1>7. W = M /\ P = {f[p] : p \in M} BY <1>1, <1>2
<1> HIDE DEF W
<1>8. e = free
  <2>1. CASE M = {} BY <1>1, <1>7, <2>1 DEF Sliding
  <2>2. CASE M # {}
    <3>1. Min(P) = CHOOSE x \in P : \A y \in P : x <= y BY DEF Min
    <3>2. PICK S : S = P OBVIOUS
    <3>3. S \subseteq Nat /\ free \in S /\ \A x \in S : free <= x BY <1>3, <1>5, <1>7, <2>2, <3>2
    <3>4. \A x \in S : (\A y \in S : x <= y) => x = free BY <3>3
    <3>5. (CHOOSE x \in S : \A y \in S : x <= y) = free BY <3>3, <3>4
    <3> QED BY <1>7, <2>2, <3>1, <3>2, <3>5
  <2> QED BY <2>1, <2>2
<1>9. \A p \in M : d(f[p]) = p
  <2> SUFFICES ASSUME NEW p \in M PROVE d(f[p]) = p
    OBVIOUS
  <2>1. ~(f[p] < free) BY <1>2, <1>3
  <2>2. d(f[p]) = CHOOSE o \in M : heap.objs[o].fwd[2] = f[p] BY <1>7, <1>8, <2>1
  <2>3. \A o \in M : heap.objs[o].fwd[2] = f[p] => o = p BY <1>2, <1>4
  <2>4. heap.objs[p].fwd[2] = f[p] BY <1>2
  <2> QED BY <2>2, <2>3, <2>4
<1>10. \A q \in Settled(free) : q < free /\ q \in D BY <1>1 DEF Settled
<1>11. \A q \in Settled(free) : d(q) = q BY <1>8, <1>10
<1>12. DOMAIN Objects = Settled(free) \union P BY <1>6, <1>8 DEF Settled
<1>13. P = {Place(p) : p \in Moving} /\ \A p \in Moving : f[p] = Place(p) /\ f[p] \in P
  BY <1>1, <1>7
<1>14. \A q \in DOMAIN Objects : Objects[q] = heap.objs[d(q)]
  <2> HIDE DEF d, P, e
  <2> QED BY <1>6
<1> HIDE DEF d, P, e
<1> QED BY <1>1, <1>9, <1>11, <1>12, <1>13, <1>14 DEF Places, MovedTo

AllMoved == phase = "relocate" => \A free : Sliding(free) => MovedTo(free)

LEMMA AllMovedIs == GCTypes => AllMoved
BY MovedObjects DEF AllMoved

LEMMA AllMovedNext == GCTypes' => AllMoved'
BY AllMovedIs, PTL

LEMMA RelocateStep ==
  ASSUME GCTypes, GCTypes', GCNamed, Relocate
  PROVE  GCNamed' /\ GraphStep
<1>1. /\ phase = "relocate" /\ phase' = "relocate" /\ UNCHANGED <<stack, size, request>>
  BY DEF Relocate, interpreter
<1>2. PICK free \in 0..gc.from : Sliding(free) BY <1>1 DEF GCTypes
<1>3. (\A x : Sliding(x) => MovedTo(x))' BY <1>1, AllMovedNext DEF AllMoved
<1>4. PICK X, Y, n : X = Objects /\ Y = Objects' /\ n = free + SizeOf(heap.objs[gc.from])
  OBVIOUS
<1>5. /\ DOMAIN X = Settled(free) \union {Place(p) : p \in Moving}
      /\ \A q \in Settled(free) : X[q] = heap.objs[q]
      /\ \A p \in Moving : X[Place(p)] = heap.objs[p]
  BY <1>1, <1>2, <1>4, MovedObjects DEF MovedTo, Places
<1>6. Alike(X, Y) /\ heap'.base = heap.base
  <2>1. CASE ~heap.objs[gc.from].mark
    <3>1. /\ heap' = heap /\ Moving' = Moving /\ Settled(free)' = Settled(free) /\ Sliding(free)'
      BY <1>2, <2>1, PassOver
    <3>2. MovedTo(free)' BY <1>1, <1>3, <3>1
    <3>3. \A p : Place(p)' = Place(p) BY <3>1 DEF Place
    <3>4. /\ DOMAIN Y = DOMAIN X
          /\ \A q \in Settled(free) : Y[q] = heap.objs[q]
          /\ \A p \in Moving : Y[Place(p)] = heap.objs[p]
      BY <1>4, <1>5, <3>1, <3>2, <3>3 DEF MovedTo, Places
    <3>5. \A q \in DOMAIN X : Y[q] = X[q] BY <1>5, <3>4
    <3> QED BY <3>1, <3>4, <3>5 DEF Alike
  <2>2. CASE heap.objs[gc.from].mark
    <3>1. PICK a, N : a = gc.from /\ N = Moving \ {gc.from} OBVIOUS
    <3>2. /\ heap'.base = heap.base /\ a \in Moving /\ Place(a) = free
          /\ Moving' = N /\ Settled(n)' = Settled(free) \union {free}
          /\ \A o \in Settled(free) \union N : heap'.objs[o] = heap.objs[o]
          /\ heap'.objs[free].fields = heap.objs[a].fields
          /\ SameNode(heap'.objs[free], heap.objs[a])
          /\ \A p \in N : Place(p)' = Place(p)
          /\ Sliding(n)'
      BY <1>2, <1>4, <2>2, <3>1, MoveDown DEF Moving
    <3>3. MovedTo(n)' BY <1>1, <1>3, <3>2
    <3>4. /\ DOMAIN Y = Settled(n)' \union {Place(p)' : p \in N}
          /\ \A q \in Settled(n)' : Y[q] = heap'.objs[q]
          /\ \A p \in N : Y[Place(p)'] = heap'.objs[p]
      BY <1>4, <3>2, <3>3 DEF MovedTo, Places
    <3>5. {Place(p) : p \in Moving} = {Place(p) : p \in N} \union {free} BY <3>1, <3>2
    <3>6. {Place(p)' : p \in N} = {Place(p) : p \in N} BY <3>2
    <3>7. DOMAIN X = DOMAIN Y BY <1>5, <3>2, <3>4, <3>5, <3>6
    <3>8. \A q \in Settled(free) : Y[q] = X[q] BY <1>5, <3>2, <3>4
    <3>9. \A p \in N : Y[Place(p)] = X[Place(p)] BY <1>5, <3>1, <3>2, <3>4
    <3>10. Y[free].fields = X[free].fields /\ SameNode(Y[free], X[free]) BY <1>5, <3>2, <3>4
    <3>11. DOMAIN X = Settled(free) \union {Place(p) : p \in N} \union {free} BY <1>5, <3>5
    <3>12. ASSUME NEW q \in DOMAIN X
           PROVE  X[q].id = Y[q].id /\ X[q].kind = Y[q].kind /\ X[q].fields = Y[q].fields
      <4>1. CASE q \in Settled(free) BY <3>8, <4>1
      <4>2. CASE q \in {Place(p) : p \in N} BY <3>9, <4>2
      <4>3. CASE q = free BY <3>10, <4>3 DEF SameNode
      <4> QED BY <3>11, <4>1, <4>2, <4>3
    <3> QED BY <3>2, <3>7, <3>12 DEF Alike
  <2> QED BY <2>1, <2>2
<1>7. phase # "run" /\ phase' # "run" BY <1>1
<1>8. Distinct(Objects') /\ UNCHANGED <<Stack, Graphs, Pending>> BY <1>1, <1>4, <1>6, <1>7, Unseen
<1>9. Asked' BY <1>1 DEF GCNamed, Asked
<1> QED BY <1>8, <1>9 DEF GCNamed, GraphStep

LEMMA FinishStep ==
  ASSUME GCTypes, GCNamed, FinishCompact
  PROVE  GCNamed' /\ GraphStep
<1>1. /\ phase = "relocate" /\ phase' = "again" /\ UNCHANGED <<stack, size, request>>
  BY DEF FinishCompact, interpreter
<1>2. PICK free \in 0..gc.from : Sliding(free) BY <1>1 DEF GCTypes
<1>3. /\ Moving = {} /\ heap'.base = heap.base /\ DOMAIN heap'.objs = Settled(free)
      /\ \A o \in Settled(free) : heap'.objs[o] = heap.objs[o]
  BY <1>2, FinishIs
<1>4. PICK X, Y : X = Objects /\ Y = Objects' OBVIOUS
<1>5. DOMAIN X = Settled(free) /\ \A q \in Settled(free) : X[q] = heap.objs[q]
  BY <1>1, <1>2, <1>3, <1>4, MovedObjects DEF MovedTo, Places
<1>6. Y = heap'.objs BY <1>1, <1>4 DEF Objects
<1>7. Alike(X, Y) BY <1>3, <1>5, <1>6 DEF Alike
<1>8. phase # "run" /\ phase' # "run" BY <1>1
<1>9. Distinct(Objects') /\ UNCHANGED <<Stack, Graphs, Pending>> BY <1>1, <1>3, <1>4, <1>7, <1>8, Unseen
<1>10. Asked' BY <1>1 DEF GCNamed, Asked
<1> QED BY <1>9, <1>10 DEF GCNamed, GraphStep

-----------------------------------------------------------------------------
(* Compaction, as a graph of objects                                       *)

(* A reference u to where an object is that w refers to, when the objects  *)
(* of the domain of f are moved from the heap at b to their places f in a  *)
(* heap at c.                                                              *)
Follows(b, c, f, w, u) ==
  \/ w = Plain /\ u = Plain
  \/ /\ w # Plain /\ w[1] = b /\ HeaderOf(w) \in DOMAIN f
     /\ u # Plain /\ u[1] = c /\ HeaderOf(u) = f[HeaderOf(w)]

LEMMA VisibleFollows ==
  ASSUME NEW x, NEW y, NEW b, NEW c, NEW f, y.kind = x.kind,
         x.fields \in Seq(Words), DOMAIN y.fields = DOMAIN x.fields,
         \A i \in DOMAIN x.fields : Follows(b, c, f, x.fields[i], y.fields[i])
  PROVE  /\ DOMAIN Visible(y) = DOMAIN Visible(x)
         /\ \A i \in DOMAIN Visible(x) : Follows(b, c, f, Visible(x)[i], Visible(y)[i])
<1>1. CASE x.kind # "closure"
  <2>1. Visible(x) = x.fields /\ Visible(y) = y.fields BY <1>1 DEF Visible
  <2> QED BY <2>1
<1>2. CASE x.kind = "closure"
  <2>1. PICK n, g, h, v, w : n = Len(x.fields) /\ g = x.fields /\ h = y.fields
                             /\ v = Visible(x) /\ w = Visible(y)
    OBVIOUS
  <2>2. n \in Nat /\ DOMAIN g = 1..n /\ DOMAIN h = 1..n BY <2>1, LenProperties
  <2>3. /\ v = [i \in 1..n |-> IF i = 1 THEN Plain ELSE g[i - 1]]
        /\ w = [i \in 1..n |-> IF i = 1 THEN Plain ELSE h[i - 1]]
    BY <1>2, <2>1, <2>2 DEF Visible
  <2>4. ASSUME NEW i \in 1..n PROVE Follows(b, c, f, v[i], w[i])
    <3>1. CASE i = 1
      <4>1. v[i] = Plain /\ w[i] = Plain BY <2>3, <3>1
      <4> QED BY <4>1 DEF Follows
    <3>2. CASE i # 1
      <4>1. i - 1 \in 1..n BY <2>2, <3>2
      <4>2. v[i] = g[i - 1] /\ w[i] = h[i - 1] BY <2>3, <3>2
      <4>3. Follows(b, c, f, g[i - 1], h[i - 1]) BY <2>1, <2>2, <4>1
      <4> QED BY <4>2, <4>3
    <3> QED BY <3>1, <3>2
  <2>5. DOMAIN v = 1..n /\ DOMAIN w = 1..n BY <2>3
  <2> QED BY <2>1, <2>4, <2>5
<1> QED BY <1>1, <1>2

(* A heap at c with no other objects than those of the domain of f, which  *)
(* refer to nothing but each other.                                        *)
Shrunk(X, Y, b, c, f) ==
  /\ DOMAIN f \subseteq DOMAIN X /\ DOMAIN Y = {f[p] : p \in DOMAIN f}
  /\ \A p \in DOMAIN f :
       /\ SameNode(Y[f[p]], X[p])
       /\ X[p].fields \in Seq(Words) /\ DOMAIN Y[f[p]].fields = DOMAIN X[p].fields
       /\ \A i \in DOMAIN X[p].fields : Follows(b, c, f, X[p].fields[i], Y[f[p]].fields[i])

LEMMA GraphShrinks ==
  ASSUME NEW X, NEW Y, NEW b, NEW c, NEW f, Distinct(X), Shrunk(X, Y, b, c, f),
         NEW g, g = GraphIn(X, b), NEW h, h = GraphIn(Y, c)
  PROVE  /\ Distinct(Y) /\ DOMAIN h \subseteq DOMAIN g /\ h = [x \in DOMAIN h |-> g[x]]
         /\ \A w, u : Follows(b, c, f, w, u) => /\ NameIn(Y, c, u) = NameIn(X, b, w)
                                                /\ NameIn(X, b, w) \in DOMAIN h \union {Plain}
         /\ \A y \in DOMAIN h : \A i \in DOMAIN g[y].fields : g[y].fields[i] \in DOMAIN h \union {Plain}
<1>1. /\ DOMAIN f \subseteq DOMAIN X /\ DOMAIN Y = {f[p] : p \in DOMAIN f}
      /\ \A p \in DOMAIN f : f[p] \in DOMAIN Y /\ Y[f[p]].id = X[p].id /\ Y[f[p]].kind = X[p].kind
      /\ \A p \in DOMAIN f :
           /\ X[p].fields \in Seq(Words) /\ DOMAIN Y[f[p]].fields = DOMAIN X[p].fields
           /\ \A i \in DOMAIN X[p].fields : Follows(b, c, f, X[p].fields[i], Y[f[p]].fields[i])
  BY DEF Shrunk, SameNode
<1>2. Distinct(Y) BY <1>1 DEF Distinct
<1>3. /\ DOMAIN g = {X[q].id : q \in DOMAIN X}
      /\ \A q \in DOMAIN X : g[X[q].id] = Named(X, b, q)
  BY GraphIs
<1>4. /\ DOMAIN h = {Y[q].id : q \in DOMAIN Y}
      /\ \A q \in DOMAIN Y : h[Y[q].id] = Named(Y, c, q)
  BY <1>2, GraphIs
<1>5. DOMAIN h = {X[p].id : p \in DOMAIN f} BY <1>1, <1>4
<1>6. ASSUME NEW w, NEW u, Follows(b, c, f, w, u)
      PROVE  NameIn(Y, c, u) = NameIn(X, b, w) /\ NameIn(X, b, w) \in DOMAIN h \union {Plain}
  <2>1. CASE w = Plain /\ u = Plain BY <2>1 DEF NameIn
  <2>2. CASE ~(w = Plain /\ u = Plain)
    <3>1. PICK p \in DOMAIN f : /\ w # Plain /\ w[1] = b /\ HeaderOf(w) = p
                                /\ u # Plain /\ u[1] = c /\ HeaderOf(u) = f[p]
      BY <1>6, <2>2 DEF Follows
    <3>2. NameIn(X, b, w) = X[p].id /\ NameIn(Y, c, u) = Y[f[p]].id BY <1>1, <3>1 DEF NameIn
    <3> QED BY <1>1, <1>5, <3>2
  <2> QED BY <2>1, <2>2
<1>7. ASSUME NEW p \in DOMAIN f
      PROVE  /\ h[X[p].id] = g[X[p].id]
             /\ \A i \in DOMAIN g[X[p].id].fields : g[X[p].id].fields[i] \in DOMAIN h \union {Plain}
  <2>1. PICK v, w, r : v = Visible(X[p]) /\ w = Visible(Y[f[p]]) /\ r = f[p] OBVIOUS
  <2>2. DOMAIN w = DOMAIN v /\ \A i \in DOMAIN v : Follows(b, c, f, v[i], w[i])
    BY <1>1, <2>1, VisibleFollows
  <2>3. NamesIn(Y, c, w) = NamesIn(X, b, v)
        /\ \A i \in DOMAIN NamesIn(X, b, v) : NamesIn(X, b, v)[i] \in DOMAIN h \union {Plain}
    BY <1>6, <2>2 DEF NamesIn
  <2>4. g[X[p].id] = [kind |-> X[p].kind, fields |-> NamesIn(X, b, v)]
    BY <1>1, <1>3, <2>1 DEF Named
  <2>5. h[X[p].id] = [kind |-> X[p].kind, fields |-> NamesIn(Y, c, w)]
    BY <1>1, <1>4, <2>1 DEF Named
  <2>6. g[X[p].id].fields = NamesIn(X, b, v) BY <2>4
  <2> QED BY <2>3, <2>4, <2>5, <2>6
<1>8. h = [x \in DOMAIN h |-> h[x]] BY DEF GraphIn
<1>9. \A x \in DOMAIN h : h[x] = g[x] BY <1>5, <1>7
<1>10. h = [x \in DOMAIN h |-> g[x]] BY <1>8, <1>9
<1>11. DOMAIN h \subseteq DOMAIN g BY <1>1, <1>3, <1>5
<1>12. \A y \in DOMAIN h : \A i \in DOMAIN g[y].fields : g[y].fields[i] \in DOMAIN h \union {Plain}
  BY <1>5, <1>7
<1> QED BY <1>2, <1>6, <1>10, <1>11, <1>12

LEMMA ReclaimMove ==
  ASSUME Pending # None, Stack' = Stack, Pending' = Pending,
         DOMAIN Graphs' \subseteq DOMAIN Graphs,
         Graphs' = [x \in DOMAIN Graphs' |-> Graphs[x]],
         \A x \in DOMAIN Graphs \ DOMAIN Graphs' :
           /\ \A i \in DOMAIN Stack : Stack[i] # x
           /\ \A y \in DOMAIN Graphs' : \A i \in DOMAIN Graphs[y].fields : Graphs[y].fields[i] # x
  PROVE  Graph!Next
<1>1. /\ Stack' = Stack /\ Pending' = Pending
      /\ \A x \in DOMAIN Graphs \ DOMAIN Graphs' :
           /\ ~Graph!Refers(Stack, x)
           /\ \A y \in DOMAIN Graphs' : ~Graph!Refers(Graphs[y].fields, x)
  BY ZenonT(30) DEF Graph!Refers
<1>2. Graph!Reclaim BY <1>1, ZenonT(60) DEF Graph!Reclaim, Stack, Graphs, Pending
<1> QED BY <1>2 DEF Graph!Next, Pending

LEMMA CompactStep ==
  ASSUME GCTypes, GCTypes', GCSound, GCNamed, Compact
  PROVE  GCNamed' /\ GraphStep
<1>1. /\ phase = "mark" /\ phase' = "relocate" /\ size' = size /\ MarkDone
      /\ \A i \in DOMAIN gc.roots : ~ToMark(gc.roots[i])
      /\ RequestOK /\ Asked /\ stack \in [0..StackWords -> Words] /\ stack[0] = Plain
  BY DEF Compact, MarkDone, GCTypes, GCNamed, GCSound
<1>2. PICK base \in Bases \ {heap.base} :
        /\ heap' = [base |-> base, size |-> NextHeapSize, current |-> heap.current,
                    objs |-> FixedHeap(base)]
        /\ stack' = [i \in DOMAIN stack |->
                       IF i \in FixedWords THEN Redirected(stack[i], base) ELSE stack[i]]
        /\ request' = [request EXCEPT !.escaped = IF @ = None THEN @ ELSE Redirected(@, base)]
  BY CompactIs
<1>3. PICK L : L = Live OBVIOUS
<1>4. /\ RootWords \subseteq Words /\ L \subseteq DOMAIN heap.objs
      /\ \A w \in RootWords : SoundIn(w, L)
      /\ \A o \in L : FieldsIn(o, L)
  BY <1>1, <1>3, MarkedIsReached DEF Live
<1>5. heap'.base = base /\ heap'.objs = FixedHeap(base) BY <1>2
<1>6. /\ DOMAIN heap'.objs = DOMAIN heap.objs
      /\ \A o \in DOMAIN heap.objs : heap'.objs[o].mark = heap.objs[o].mark
                                     /\ SameNode(heap'.objs[o], heap.objs[o])
      /\ \A o \in L : /\ heap'.objs[o].fields = FixedFields(o, base)
                      /\ heap'.objs[o].fwd = <<heap.base, LiveSizeBelow(o)>>
  <2>1. DOMAIN FixedHeap(base) = DOMAIN heap.objs BY DEF FixedHeap
  <2>2. PICK X : X = FixedHeap(base) OBVIOUS
  <2>3. \A o \in DOMAIN heap.objs :
          /\ X[o].mark = heap.objs[o].mark /\ SameNode(X[o], heap.objs[o])
          /\ o \in L => X[o].fields = FixedFields(o, base) /\ X[o].fwd = <<heap.base, LiveSizeBelow(o)>>
    BY <1>1, <1>3, <2>2, FixedHeapTypes
  <2> QED BY <1>4, <1>5, <2>1, <2>2, <2>3
<1>7. gc'.from = 0 /\ Sliding(0)' BY CompactSlides DEF Compact
<1>8. Settled(0)' = {} /\ Moving' = L
  <2>1. DOMAIN heap.objs \subseteq Nat BY DEF GCTypes, HeapOK
  <2>2. Settled(0)' = {} BY <1>6, <2>1 DEF Settled
  <2>3. Unmoved' = DOMAIN heap.objs BY <1>6, <1>7, <2>1 DEF Unmoved
  <2> QED BY <1>3, <1>6, <2>2, <2>3 DEF Moving, Live
<1>9. MovedTo(0)' BY <1>1, <1>7, AllMovedNext DEF AllMoved
<1>10. PICK X, Y, b, f : X = heap.objs /\ Y = Objects' /\ b = heap.base
                         /\ f = [p \in L |-> LiveSizeBelow(p)]
  OBVIOUS
<1>11. \A p \in L : Place(p)' = f[p] BY <1>6, <1>10 DEF Place
<1>12. /\ DOMAIN f = L /\ DOMAIN Y = {f[p] : p \in L}
       /\ \A p \in L : Y[f[p]] = heap'.objs[p]
  <2>1. DOMAIN f = L BY <1>10
  <2>2. DOMAIN Y = {Place(p)' : p \in L} BY <1>8, <1>9, <1>10 DEF MovedTo, Places
  <2>3. \A p \in L : Y[Place(p)'] = heap'.objs[p] BY <1>8, <1>9, <1>10 DEF MovedTo
  <2> QED BY <1>11, <2>1, <2>2, <2>3
(* A reference to a live object follows it.                                *)
<1>13. ASSUME NEW w \in Words, SoundIn(w, L)
       PROVE  Follows(b, base, f, w, Redirected(w, base))
  <2>1. CASE w = Plain
    <3>1. Redirected(w, base) = Plain BY <1>1, <2>1, RedirectedType
    <3> QED BY <2>1, <3>1 DEF Follows
  <2>2. CASE w # Plain
    <3>1. PICK p, u : p = HeaderOf(w) /\ u = Redirected(w, base) OBVIOUS
    <3>2. p \in L /\ w[1] = b BY <1>10, <1>13, <2>2, <3>1 DEF SoundIn, SoundAt
    <3>3. SoundIn(w, DOMAIN heap.objs) BY <1>4, <1>10, <2>2, <3>1, <3>2 DEF SoundIn, SoundAt
    <3>4. RefersToObject(w) BY <1>1, <2>2, <3>3, SoundRefers
    <3>5. u = <<base, LiveSizeBelow(p) + Header>> BY <1>1, <1>3, <3>1, <3>2, <3>4, RedirectedType
    <3>6. LiveSizeBelow(p) \in Nat /\ LiveSizeBelow(p) = f[p] BY <1>1, <1>3, <1>10, <3>2, LivePlaces
    <3>7. u[1] = base /\ HeaderOf(u) = f[p] BY <3>5, <3>6 DEF HeaderOf, Header
    <3>8. u # Plain BY <3>5, <3>6, GCAssumption DEF Header
    <3> QED BY <1>12, <2>2, <3>1, <3>2, <3>7, <3>8 DEF Follows
  <2> QED BY <2>1, <2>2
<1>14. Shrunk(X, Y, b, base, f)
  <2>1. ASSUME NEW p \in L
        PROVE  /\ SameNode(Y[f[p]], X[p]) /\ X[p].fields \in Seq(Words)
               /\ DOMAIN Y[f[p]].fields = DOMAIN X[p].fields
               /\ \A i \in DOMAIN X[p].fields : Follows(b, base, f, X[p].fields[i], Y[f[p]].fields[i])
    <3>1. Y[f[p]].fields = [i \in DOMAIN X[p].fields |-> Redirected(X[p].fields[i], base)]
      BY <1>6, <1>10, <1>12 DEF FixedFields
    <3>2. p \in DOMAIN heap.objs BY <1>4
    <3>3. X[p].fields \in Seq(Words) BY <1>10, <3>2, ObjectIs DEF IsObject
    <3>4. \A i \in DOMAIN X[p].fields : X[p].fields[i] \in Words /\ SoundIn(X[p].fields[i], L)
      BY <1>4, <1>10, <3>2, FieldWord DEF FieldsIn
    <3>5. SameNode(Y[f[p]], X[p]) BY <1>6, <1>10, <1>12, <3>2
    <3> QED BY <1>13, <3>1, <3>3, <3>4, <3>5
  <2> QED BY <1>4, <1>10, <1>12, <2>1 DEF Shrunk
<1>15. PICK g, h : g = Graphs /\ h = Graphs' OBVIOUS
<1>16. Objects = X /\ g = GraphIn(X, b) /\ h = GraphIn(Y, base) /\ Distinct(X)
  BY <1>1, <1>5, <1>10, <1>15 DEF Objects, Graphs, GCNamed
<1>17. /\ Distinct(Y) /\ DOMAIN h \subseteq DOMAIN g /\ h = [x \in DOMAIN h |-> g[x]]
       /\ \A w, u : Follows(b, base, f, w, u) => /\ NameIn(Y, base, u) = NameIn(X, b, w)
                                                 /\ NameIn(X, b, w) \in DOMAIN h \union {Plain}
       /\ \A y \in DOMAIN h : \A i \in DOMAIN g[y].fields : g[y].fields[i] \in DOMAIN h \union {Plain}
  BY <1>14, <1>16, GraphShrinks
<1>18. /\ size \in Nat /\ size >= 2 /\ StackWords \in Nat /\ size <= StackWords
       /\ DOMAIN stack = 0..StackWords
  BY <1>1, DepthType
<1>19. stack'[0] = Plain /\ \A i \in 1..size : stack'[i] = Redirected(stack[i], base)
  <2>1. 0 \in 0..StackWords /\ 0 \notin 1..size /\ \A i \in 1..size : i \in 0..StackWords BY <1>18
  <2>2. DOMAIN stack' = DOMAIN stack /\ \A i \in 0..StackWords :
           stack'[i] = IF i \in 1..size THEN Redirected(stack[i], base) ELSE stack[i]
    BY <1>2, <1>18 DEF FixedWords
  <2> QED BY <1>1, <2>1, <2>2
<1>20. ASSUME NEW i \in 1..size
       PROVE  /\ NameIn(Y, base, stack'[i - 1]) = NameIn(X, b, stack[i - 1])
              /\ NameIn(X, b, stack[i - 1]) \in DOMAIN h \union {Plain}
  <2>1. CASE i = 1
    <3>1. i - 1 = 0 BY <2>1
    <3> QED BY <1>1, <1>19, <3>1 DEF NameIn
  <2>2. CASE i # 1
    <3>1. i - 1 \in 1..size - 1 /\ i - 1 \in 1..size BY <1>18, <2>2
    <3>2. stack[i - 1] \in RootWords BY <3>1 DEF RootWords
    <3>3. Follows(b, base, f, stack[i - 1], Redirected(stack[i - 1], base)) BY <1>4, <1>13, <3>2
    <3> QED BY <1>17, <1>19, <3>1, <3>3
  <2> QED BY <2>1, <2>2
<1>21. /\ Stack = [i \in 1..size |-> NameIn(X, b, stack[i - 1])]
       /\ Stack' = [i \in 1..size |-> NameIn(Y, base, stack'[i - 1])]
  BY <1>1, <1>5, <1>10, <1>16 DEF Stack
<1>22. Stack' = Stack BY <1>20, <1>21
<1>23. /\ request'.kind = request.kind /\ request'.n = request.n /\ request'.first = request.first
       /\ request'.pops = request.pops
  <2> DEFINE k == request.kind
             n == request.n
             j == request.first
             p == request.pops
             e == request.escaped
             d == IF e = None THEN e ELSE Redirected(e, base)
  <2>1. request = [kind |-> k, n |-> n, first |-> j, pops |-> p, escaped |-> e]
    BY <1>1 DEF RequestOK
  <2>2. request' = [request EXCEPT !.escaped = d] BY <1>2
  <2> HIDE DEF k, n, j, p, e, d
  <2>3. request' = [kind |-> k, n |-> n, first |-> j, pops |-> p, escaped |-> d]
    BY <2>1, <2>2
  <2> QED BY <2>3 DEF k, n, j, p
<1>24. Pending' = Pending /\ Pending # None
  <2>1. Pending = [kind |-> request.kind, n |-> request.n] BY <1>1 DEF Pending
  <2>2. Pending' = [kind |-> request.kind, n |-> request.n] BY <1>1, <1>23 DEF Pending
  <2>3. Pending \in [kind : ObjectKinds, n : Nat] BY <1>1, <2>1 DEF RequestOK
  <2> QED BY <2>1, <2>2, <2>3, GCAssumption
<1>25. Asked'
  <2>1. PICK m : m = size - request.n OBVIOUS
  <2>2. request.kind = "closure" => stack'[m] = Plain
    <3> SUFFICES ASSUME request.kind = "closure" PROVE stack'[m] = Plain
      OBVIOUS
    <3>1. stack[m] = Plain /\ request.first = m + 1 BY <1>1, <2>1 DEF Asked
    <3>2. m \in 0..size BY <1>1, <1>18, <2>1, <3>1 DEF RequestOK
    <3>3. CASE m = 0 BY <1>19, <3>3
    <3>4. CASE m # 0
      <4>1. m \in 1..size BY <1>18, <3>2, <3>4
      <4>2. Plain \in Words BY DEF Words
      <4> QED BY <1>1, <1>19, <3>1, <4>1, <4>2, RedirectedType
    <3> QED BY <3>3, <3>4
  <2> QED BY <1>1, <1>23, <2>1, <2>2 DEF Asked
<1>26. GCNamed' BY <1>10, <1>17, <1>25 DEF GCNamed
<1>27. ASSUME NEW x \in DOMAIN g \ DOMAIN h
       PROVE  /\ \A i \in DOMAIN Stack : Stack[i] # x
              /\ \A y \in DOMAIN h : \A i \in DOMAIN g[y].fields : g[y].fields[i] # x
  <2>1. x # Plain
    <3>1. DOMAIN GraphIn(X, b) = {X[q].id : q \in DOMAIN X} BY <1>16, GraphIs
    <3>2. x \in Ids BY <1>16, <3>1 DEF Distinct
    <3> QED BY <3>2, GCAssumption
  <2> QED BY <1>17, <1>20, <1>21, <2>1
<1> QED BY <1>15, <1>17, <1>22, <1>24, <1>26, <1>27, ReclaimMove DEF GraphStep

-----------------------------------------------------------------------------
(* The refinement                                                          *)

(* Names never run out.                                                    *)
Endless == ~IsFiniteSet(Ids)

LEMMA ExecuteStep ==
  ASSUME AllScanned, GCTypes, GCTypes', GCNamed, Execute
  PROVE  GCNamed' /\ GraphStep
<1>1. CASE Dup
  <2>1. Depth > 0 /\ Running /\ Replace(0, Top(0)) BY <1>1 DEF Dup
  <2>2. size - 1 \in 0..size - 1 /\ Top(0) = stack[size - 1]
    <3>1. size \in Nat /\ size >= 2 /\ size - 1 - 0 = size - 1 BY DepthType
    <3> QED BY <3>1 DEF Top
  <2> QED BY <2>1, <2>2, CopyStep
<1>2. CASE \E i \in Variables : Load(i) \/ Store(i)
  <2>1. PICK i \in Variables : Load(i) \/ Store(i) BY <1>2
  <2>2. CASE Load(i)
    <3>1. Running /\ Replace(0, stack[i]) BY <2>2 DEF Load
    <3>2. i \in 0..size - 1 BY VariableType
    <3> QED BY <3>1, <3>2, CopyStep
  <2> QED BY <2>1, <2>2, StoreStep
<1>3. CASE \E n \in program.arrays : NewArray(n)
  BY <1>3, NewArrayStep, Numbers DEF GCTypes
<1>4. CASE \E n \in program.sexps : NewSexp(n)
  BY <1>4, NewSexpStep, Numbers DEF GCTypes
<1>5. CASE \E n \in program.closures : NewClosure(n)
  BY <1>5, NewClosureStep, Numbers DEF GCTypes
<1>6. CASE \E args \in 0..1 : Begin(args) BY <1>6, BeginStep
<1> QED BY <1>1, <1>2, <1>3, <1>4, <1>5, <1>6, ConstStep, DropStep, SwapStep, ElemStep, StaStep,
           EndStep, NewStringStep, RenderStringStep DEF Execute

LEMMA CollectStep ==
  ASSUME Endless, GCTypes, GCTypes', GCSound, GCNamed, Collect
  PROVE  GCNamed' /\ GraphStep
BY AllocateStep, StartMarkStep, MarkRootStep, MarkObjectStep, VisitFieldStep, CompactStep,
   CompactGarbageStep, RelocateStep, FinishStep DEF Collect, Endless

LEMMA InitStep ==
  ASSUME GCInit
  PROVE  GCNamed /\ Graph!Init
<1>1. /\ program \in Programs /\ phase = "run" /\ stack = [i \in 0..StackWords |-> Plain]
      /\ size = Globals + 2 + Locals /\ DOMAIN heap.objs = {} /\ Objects = heap.objs
  BY DEF GCInit, Objects
<1>2. size \in Nat /\ StackWords \in Nat /\ size <= StackWords BY <1>1, Numbers
<1>3. GCNamed BY <1>1 DEF GCNamed, Distinct
<1>4. \A i \in 1..size : stack[i - 1] = Plain
  <2>1. \A i \in 1..size : i - 1 \in 0..StackWords BY <1>2
  <2> QED BY <1>1, <2>1
<1>5. Stack = [i \in 1..size |-> Plain]
  <2>1. \A i \in 1..size : NameIn(Objects, heap.base, stack[i - 1]) = Plain BY <1>4 DEF NameIn
  <2> QED BY <2>1 DEF Stack
<1>6. Stack \in Seq({Plain}) BY <1>2, <1>5, IsASeq
<1>7. Graphs = [x \in {} |-> Plain]
  <2>1. {Objects[q].id : q \in DOMAIN Objects} = {} BY <1>1
  <2> QED BY <2>1 DEF Graphs, GraphIn
<1>8. Pending = None BY <1>1 DEF Pending
<1> QED BY <1>3, <1>6, <1>7, <1>8 DEF Graph!Init, Stack, Graphs, Pending

LEMMA StutterStep ==
  ASSUME GCNamed, UNCHANGED gcVars
  PROVE  GCNamed' /\ GraphStep
<1>1. /\ phase' = phase /\ stack' = stack /\ size' = size /\ request' = request
      /\ heap' = heap /\ gc' = gc
  BY DEF gcVars
<1>2. Objects' = Objects BY <1>1 DEF Objects
<1>3. Stack' = Stack /\ Graphs' = Graphs /\ Pending' = Pending BY <1>1, <1>2 DEF Stack, Graphs, Pending
<1>4. Asked' = Asked BY <1>1 DEF Asked
<1> QED BY <1>1, <1>2, <1>3, <1>4 DEF GCNamed, GraphStep

LEMMA NextStep ==
  ASSUME AllScanned, Endless, GCTypes, GCTypes', GCSound, GCNamed, [GCNext]_gcVars
  PROVE  GCNamed' /\ [Graph!Next]_(Graph!vars)
<1>1. GCNamed' /\ GraphStep BY ExecuteStep, CollectStep, StutterStep DEF GCNext
<1> QED BY <1>1 DEF GraphStep, Graph!vars, Stack, Graphs, Pending

(* For those programs the collector cannot be seen: every step of the      *)
(* interpreter and of the runtime is one of a graph of objects that do not *)
(* move and that stay while they can be reached, or nothing happens to     *)
(* that graph.  Names for its objects must not run out; the code has none. *)
THEOREM GraphIsImplemented ==
  ASSUME AllScanned, Endless
  PROVE  GCSpec => ImplementsObjectGraph
<1>1. GCInit => GCNamed /\ Graph!Init BY InitStep
<1>2. GCTypes /\ GCTypes' /\ GCSound /\ GCNamed /\ [GCNext]_gcVars
        => GCNamed' /\ [Graph!Next]_(Graph!vars)
  BY NextStep
<1>3. GCSpec => [](GCTypes /\ GCSound) BY GCSoundInvariant
<1> QED BY <1>1, <1>2, <1>3, PTL DEF GCSpec, ImplementsObjectGraph, Graph!Spec

=============================================================================
