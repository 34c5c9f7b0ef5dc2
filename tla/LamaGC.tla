------------------------------- MODULE LamaGC -------------------------------
(***************************************************************************)
(* runtime/gc.c, the mark-compact collector of the Lama runtime, driven by *)
(* the instructions of Assignment04/src/interpreter.cpp that move words,   *)
(* read and write fields and allocate.  Marking keeps its queue inside the *)
(* objects: the forward address of the k-th object of the heap holds the   *)
(* k-th element.  Compaction copies the heap to a new mapping, redirects   *)
(* every reference and then slides the live objects down.                  *)
(*                                                                         *)
(* A word is Plain (an integer, or an address outside of the heap) or a    *)
(* heap address <<mapping, offset>>; offsets count words.  A reference is  *)
(* the address of an object's contents, Header words after its beginning.  *)
(*                                                                         *)
(* phase                                                                   *)
(*     run       the interpreter runs                                      *)
(*     alloc     alloc: about to look for room in the heap                 *)
(*     mark      gc_alloc: in mark_phase                                   *)
(*     relocate  gc_alloc: in physically_relocate                          *)
(*     again     gc_alloc: about to look for room once more                *)
(*     killed    the process has ended                                     *)
(***************************************************************************)
EXTENDS Integers, Sequences, FiniteSetsExt

CONSTANTS
  Bases,          (* the addresses that mmap may return                    *)
  Globals,        (* the size of the global area                           *)
  Locals,         (* the number of locals of each function                 *)
  Programs,       (* bounds: the programs that are run, see program        *)
  MinHeap,        (* MINIMUM_HEAP_CAPACITY and INIT_HEAP_SIZE, in words    *)
  ExtraRoom,      (* EXTRA_ROOM_HEAP_COEFFICIENT                           *)
  MaxExtraRoots,  (* MAX_EXTRA_ROOTS_NUMBER                                *)
  Ids,            (* names for the objects: more than fit in the heap      *)
  Plain, None

ObjectKinds == {"string", "array", "sexp", "closure"}

ASSUME GCAssumption ==
  /\ Cardinality(Bases) > 1          (* the old heap is still mapped when  *)
                                     (* the new one is                     *)
  /\ Plain \notin Bases \X Nat       (* markers are not addresses          *)
  /\ None \notin (Bases \X Nat) \union {Plain}
  /\ {Plain, None} \intersect Ids = {}
  /\ None \notin [kind : ObjectKinds, n : Nat]
  /\ {Globals, Locals, MinHeap, MaxExtraRoots} \subseteq Nat
  /\ ExtraRoom \in Nat \ {0}
  /\ \A p \in Programs : /\ {p.words, p.frames, p.live} \subseteq Nat
                         /\ p.arrays \union p.sexps \union p.closures \subseteq Nat
                         /\ p.words >= Globals + 2 + Locals

VARIABLES
  program,        (* what the program may do, chosen once: it uses words   *)
                  (* words of the stack and frames frames, builds arrays,  *)
                  (* sexps and closures of the sizes in these sets, and    *)
                  (* none while its objects have more than live words      *)
  phase,          (* see above                                             *)
  stack,          (* stack_buf: also the words above the top keep values   *)
  size,           (* the number of words below __gc_stack_bottom           *)
  frames,         (* frames_: base and number of arguments of each         *)
  request,        (* the arguments of the allocation in progress           *)
  heap,           (* base, size, current and the objects by their offset   *)
  gc              (* the iterators and pending roots of a collection       *)

interpreter == <<program, stack, size, frames>>
gcVars == <<program, phase, stack, size, frames, request, heap, gc>>

StackWords == program.words

Header == 2

Max2(a, b) == IF a > b THEN a ELSE b

(* obj_size_header_ptr in words: a sexp and a closure have one more word   *)
(* than fields that may hold references.  Strings here fit in a word.      *)
WordsOf(kind, n) ==
  Header + CASE kind = "string"              -> 1
             [] kind = "array"               -> n
             [] kind \in {"sexp", "closure"} -> n + 1

SizeOf(obj) == WordsOf(obj.kind, Len(obj.fields))

-----------------------------------------------------------------------------
(* The heap                                                                *)

(* is_valid_heap_pointer; current itself is allowed, which is where the    *)
(* contents of an empty array begin that ends the heap.                    *)
InHeap(w) == w # Plain /\ w[1] = heap.base /\ w[2] <= heap.current

(* get_obj_header_ptr: the offset of the object that w refers to.          *)
HeaderOf(w) == w[2] - Header

ContentOf(base, offset) == <<base, offset + Header>>

(* Whether w refers to an object: what the code takes for granted of every *)
(* word that InHeap accepts.                                               *)
RefersToObject(w) == InHeap(w) /\ HeaderOf(w) \in DOMAIN heap.objs

(* heap_next_obj_iterator                                                  *)
NextObj(offset) == offset + SizeOf(heap.objs[offset])

(* The objects that can be reached from the words of S: the least set that *)
(* has what they refer to, and what its own objects refer to.              *)
ReachedFrom(S) ==
  LET Holds(R, w) == RefersToObject(w) => HeaderOf(w) \in R
      Closed(R) == /\ \A w \in S : Holds(R, w)
                   /\ \A o \in R : \A i \in DOMAIN heap.objs[o].fields :
                        Holds(R, heap.objs[o].fields[i])
  IN  {o \in DOMAIN heap.objs : \A R \in SUBSET DOMAIN heap.objs : Closed(R) => o \in R}

(* The roots that mark_phase visits: the stack, without its first word,    *)
(* then the words that the runtime has registered with push_extra_root.    *)
Registered ==
  [i \in 1..request.n |-> stack[request.first + i - 1]]
    \o (IF request.escaped = None THEN <<>> ELSE <<request.escaped>>)

Roots == [i \in 1..size - 1 |-> stack[i]] \o Registered

-----------------------------------------------------------------------------
(* The instructions.  Each is complete but for the check of its operands   *)
(* against the bytecode, which Assignment04's verifier does beforehand.    *)

Running == phase = "run"

Top(k) == stack[size - 1 - k]

(* Pop k words and push w.                                                 *)
Replace(k, w) ==
  /\ size - k < StackWords
  /\ stack' = [stack EXCEPT ![size - k] = w]
  /\ size' = size - k + 1
  /\ UNCHANGED <<program, phase, frames, request, heap, gc>>

(* The words of its frame below which an instruction never pops.           *)
Frame == frames[Len(frames)]
Depth == size - (Frame.base + Locals)

Const == Running /\ Replace(0, Plain)

Dup == Running /\ Depth > 0 /\ Replace(0, Top(0))

Drop == /\ Running
        /\ Depth > 0
        /\ size' = size - 1
        /\ UNCHANGED <<program, phase, stack, frames, request, heap, gc>>

Swap == /\ Running
        /\ Depth > 1
        /\ stack' = [stack EXCEPT ![size - 1] = Top(1), ![size - 2] = Top(0)]
        /\ UNCHANGED <<program, phase, size, frames, request, heap, gc>>

(* The words that LD and ST reach: globals, locals, arguments.  The two    *)
(* arguments of main have no name in the language.                         *)
Variables == 0..Globals - 1
               \union Frame.base..Frame.base + Locals - 1
               \union (IF Len(frames) = 1 THEN {}
                       ELSE Frame.base - Frame.args..Frame.base - 1)

Load(i) == Running /\ i \in Variables /\ Replace(0, stack[i])

Store(i) == /\ Running
            /\ i \in Variables
            /\ Depth > 0
            /\ stack' = [stack EXCEPT ![i] = Top(0)]
            /\ UNCHANGED <<program, phase, size, frames, request, heap, gc>>

(* ELEM and STA of an aggregate; the index on the stack is any that passes *)
(* the interpreter's bounds check.                                         *)
IsAggregate(w) == RefersToObject(w) /\ heap.objs[HeaderOf(w)].kind \in {"array", "sexp"}

Elem == /\ Running
        /\ Depth > 1 /\ Top(0) = Plain /\ IsAggregate(Top(1))
        /\ LET obj == heap.objs[HeaderOf(Top(1))]
           IN  \E i \in DOMAIN obj.fields : Replace(2, obj.fields[i])

Sta == /\ Running
       /\ Depth > 2 /\ Top(1) = Plain /\ IsAggregate(Top(2))
       /\ LET offset == HeaderOf(Top(2))
          IN  \E i \in DOMAIN heap.objs[offset].fields :
                heap' = [heap EXCEPT !.objs[offset].fields[i] = Top(0)]
       /\ stack' = [stack EXCEPT ![size - 3] = Top(0)]
       /\ size' = size - 2
       /\ UNCHANGED <<program, phase, frames, request, gc>>

(* CALL and BEGIN: the locals are reserved, not initialised.               *)
Begin(args) ==
  /\ Running
  /\ Len(frames) < program.frames
  /\ Depth >= args
  /\ size + Locals <= StackWords
  /\ frames' = Append(frames, [base |-> size, args |-> args])
  /\ size' = size + Locals
  /\ UNCHANGED <<program, phase, stack, request, heap, gc>>

(* END and RET of a function other than main: its result replaces locals   *)
(* and arguments.                                                          *)
End ==
  /\ Running
  /\ Len(frames) > 1
  /\ Depth > 0
  /\ LET bottom == Frame.base - Frame.args
     IN  /\ stack' = [stack EXCEPT ![bottom] = Top(0)]
         /\ size' = bottom + 1
  /\ frames' = SubSeq(frames, 1, Len(frames) - 1)
  /\ UNCHANGED <<program, phase, request, heap, gc>>

-----------------------------------------------------------------------------
(* The instructions that allocate.  A request says what alloc is asked for *)
(* and where the fields are: n words of the stack from index first, which  *)
(* are read after the collection.  pops words are popped at the end.       *)
(* escaped is a word in an activation record of the runtime, or None.      *)

Ask(r) == /\ request' = r
          /\ phase' = IF r.n > MaxExtraRoots THEN "killed" ELSE "alloc"
          /\ UNCHANGED <<program, frames, heap, gc>>

(* Also by way of words that have been popped, which a closure may take.   *)
InUse == ReachedFrom({stack[i] : i \in DOMAIN stack})

MayAllocate == /\ Running
               /\ MapThenSumSet(LAMBDA o : SizeOf(heap.objs[o]), InUse) <= program.live

(* STRING                                                                  *)
NewString ==
  /\ MayAllocate
  /\ size < StackWords
  /\ Ask([kind |-> "string", n |-> 0, first |-> size, pops |-> 0, escaped |-> None])
  /\ UNCHANGED <<stack, size>>

(* CALL Lstring: the argument leaves the stack for an array on the C stack *)
(* of value::get_string, which Lstring registers.                          *)
RenderString ==
  /\ MayAllocate
  /\ Depth > 0
  /\ Ask([kind |-> "string", n |-> 0, first |-> size - 1, pops |-> 0, escaped |-> Top(0)])
  /\ size' = size - 1
  /\ UNCHANGED stack

(* CALL Barray                                                             *)
NewArray(n) ==
  /\ MayAllocate
  /\ Depth >= n /\ size - n < StackWords
  /\ Ask([kind |-> "array", n |-> n, first |-> size - n, pops |-> n, escaped |-> None])
  /\ UNCHANGED <<stack, size>>

(* SEXP: the hash of the tag is written above the top of the stack.        *)
NewSexp(n) ==
  /\ MayAllocate
  /\ Depth >= n /\ size - n < StackWords
  /\ Ask([kind |-> "sexp", n |-> n, first |-> size - n, pops |-> n, escaped |-> None])
  /\ stack' = [stack EXCEPT ![size] = Plain]
  /\ UNCHANGED size

(* CLOSURE: the entry point and the n captured values are pushed; Bclosure *)
(* is told of n + 1 values and takes the word above the top for the last.  *)
(* That word must not be the stale address of an object that has moved.    *)
NewClosure(n) ==
  /\ MayAllocate
  /\ size + n + 1 <= StackWords
  /\ stack[size + n + 1] = Plain \/ RefersToObject(stack[size + n + 1])
  /\ Ask([kind |-> "closure", n |-> n + 1, first |-> size + 1, pops |-> n + 1, escaped |-> None])
  /\ \E captured \in [1..n -> Variables] :
       stack' = [i \in DOMAIN stack |->
                   IF i = size THEN Plain
                   ELSE IF i \in size + 1..size + n THEN stack[captured[i - size]]
                   ELSE stack[i]]
  /\ size' = size + n + 1

Fits == heap.current + WordsOf(request.kind, request.n) <= heap.size

(* cur_id, which only a DEBUG_VERSION stores in the object: the collector  *)
(* never reads it.  Here it is a number that no object of the heap has.    *)
NewId == CHOOSE x \in Ids : \A o \in DOMAIN heap.objs : heap.objs[o].id # x

(* gc_alloc_on_existing_heap, and what the callers of alloc do with the    *)
(* words that it returns.  When there is no room even after a collection   *)
(* gc_alloc returns NULL, and its caller writes through it.                *)
Allocate ==
  LET fields == [i \in 1..request.n |-> stack[request.first + i - 1]]
      new    == [kind |-> request.kind, id |-> NewId, fields |-> fields,
                 fwd |-> None, mark |-> FALSE, enq |-> FALSE]
  IN  /\ (phase = "alloc" /\ Fits) \/ phase = "again"
      /\ IF Fits
         THEN /\ heap' = [heap EXCEPT
                            !.current = @ + SizeOf(new),
                            !.objs = [o \in DOMAIN @ \union {heap.current} |->
                                        IF o = heap.current THEN new ELSE @[o]]]
              /\ stack' = [stack EXCEPT
                             ![size - request.pops] = ContentOf(heap.base, heap.current)]
              /\ size' = size - request.pops + 1
              /\ request' = None
              /\ phase' = "run"
         ELSE phase' = "killed" /\ UNCHANGED <<stack, size, request, heap>>
      /\ UNCHANGED <<program, frames, gc>>

-----------------------------------------------------------------------------
(* mark_phase                                                              *)

StartMark ==
  /\ phase = "alloc"
  /\ ~Fits
  /\ phase' = "mark"
  /\ gc' = [roots |-> Roots, head |-> 0, tail |-> 0, fields |-> <<>>]
  /\ UNCHANGED <<interpreter, request, heap>>

(* Reading the bits of something that is no object gives anything; here it *)
(* is taken to be unmarked and not enqueued.                               *)
IsMarked(objs, w)   == HeaderOf(w) \in DOMAIN objs /\ objs[HeaderOf(w)].mark
IsEnqueued(objs, w) == HeaderOf(w) \in DOMAIN objs /\ objs[HeaderOf(w)].enq

(* queue_enqueue, on the objects and the tail iterator.  Past the last     *)
(* object the iterator has no object to measure; it is only told apart     *)
(* from the end of the heap then.                                          *)
Enqueue(q, w) ==
  [objs |-> [o \in DOMAIN q.objs |->
               [q.objs[o] EXCEPT !.fwd = IF o = q.tail THEN w ELSE @,
                                 !.enq = @ \/ o = HeaderOf(w)]],
   tail |-> q.tail + IF q.tail \in DOMAIN q.objs THEN SizeOf(q.objs[q.tail]) ELSE Header]

(* The loop of mark is over, or has not begun.                             *)
MarkDone == phase = "mark" /\ gc.head = gc.tail /\ gc.fields = <<>>

(* mark(root) until its loop, for the next root that it does not return    *)
(* from at once; the queue starts at the begin of the heap.                *)
ToMark(w) == InHeap(w) /\ ~IsMarked(heap.objs, w)

MarkRoot ==
  /\ MarkDone
  /\ \E i \in DOMAIN gc.roots :
       /\ ToMark(gc.roots[i])
       /\ \A j \in 1..i - 1 : ~ToMark(gc.roots[j])
       /\ LET q == Enqueue([objs |-> heap.objs, tail |-> 0], gc.roots[i])
          IN  /\ heap' = [heap EXCEPT !.objs = q.objs]
              /\ gc' = [roots |-> SubSeq(gc.roots, i + 1, Len(gc.roots)),
                        head |-> 0, tail |-> q.tail, fields |-> <<>>]
  /\ UNCHANGED <<phase, interpreter, request>>

(* One round of the loop: an object is dequeued and marked.                *)
MarkObject ==
  LET w      == heap.objs[gc.head].fwd
      offset == HeaderOf(w)
  IN  /\ phase = "mark"
      /\ gc.head # gc.tail
      /\ gc.fields = <<>>
      /\ IF gc.head \in DOMAIN heap.objs /\ RefersToObject(w)
         THEN /\ heap' = [heap EXCEPT !.objs[offset].enq = FALSE,
                                      !.objs[offset].mark = TRUE]
              /\ gc' = [gc EXCEPT !.head = NextObj(@), !.fields = heap.objs[offset].fields]
              /\ UNCHANGED phase
         ELSE phase' = "killed" /\ UNCHANGED <<heap, gc>>
      /\ UNCHANGED <<interpreter, request>>

(* Mutant of ToVisit: is_enqueued is not asked.                            *)
ToVisitUnmarked(f) == ToMark(f)

ToVisit(f) == ToMark(f) /\ ~IsEnqueued(heap.objs, f)

(* The loop over the fields of the object that was marked: each that is    *)
(* neither marked nor in the queue is enqueued.                            *)
VisitField ==
  /\ phase = "mark"
  /\ gc.fields # <<>>
  /\ LET q == IF ToVisit(Head(gc.fields))
              THEN Enqueue([objs |-> heap.objs, tail |-> gc.tail], Head(gc.fields))
              ELSE [objs |-> heap.objs, tail |-> gc.tail]
     IN  /\ heap' = [heap EXCEPT !.objs = q.objs]
         /\ gc' = [gc EXCEPT !.tail = q.tail, !.fields = Tail(@)]
  /\ UNCHANGED <<phase, interpreter, request>>

-----------------------------------------------------------------------------
(* compact_phase                                                           *)

(* compute_locations                                                       *)
Live == {o \in DOMAIN heap.objs : heap.objs[o].mark}

WordsIn(o) == o..NextObj(o) - 1

(* Mutant of LiveSizeBelow: free_ptr is advanced before its value is taken *)
(* for the forward address.                                                *)
LiveSizeUpTo(offset) == Cardinality(UNION {WordsIn(o) : o \in {x \in Live : x <= offset}})

(* free_ptr at offset: the words of the live objects below.                *)
LiveSizeBelow(offset) == Cardinality(UNION {WordsIn(o) : o \in {x \in Live : x < offset}})

Located == [o \in DOMAIN heap.objs |->
              IF o \in Live
              THEN [heap.objs[o] EXCEPT !.fwd = <<heap.base, LiveSizeBelow(o)>>]
              ELSE heap.objs[o]]

(* What update_references makes of the word w when the heap moves to base: *)
(* the forward address, moved to the new mapping, plus the header size.  A *)
(* dead object has an old forward address, or none, and gives a wild word. *)
Redirected(w, base) ==
  IF ~InHeap(w) THEN w
  ELSE IF ~RefersToObject(w) THEN Plain
  ELSE LET fwd == Located[HeaderOf(w)].fwd
       IN  IF fwd # None /\ fwd[1] = heap.base THEN ContentOf(base, fwd[2]) ELSE Plain

(* Mutant of FixedWords: the topmost word is left out.                     *)
FixedBelowTop == 1..size - 2

(* scan_and_fix_region goes one word past the top of the stack.            *)
FixedWords == 1..size

NextHeapSize ==
  Max2(Max2(LiveSizeBelow(heap.current) * ExtraRoom + WordsOf(request.kind, request.n),
            MinHeap),
       heap.size)

(* compact_phase up to physically_relocate: locations, the new mapping, a  *)
(* copy of the heap in it, the references from live objects, from the      *)
(* stack and from registered words outside of the stack.                   *)
Compact ==
  /\ MarkDone
  /\ \A i \in DOMAIN gc.roots : ~ToMark(gc.roots[i])
  /\ \E base \in Bases \ {heap.base} :
       /\ heap' = [heap EXCEPT
                     !.base = base,
                     !.size = NextHeapSize,
                     !.objs = [o \in DOMAIN @ |->
                                 IF o \in Live
                                 THEN [Located[o] EXCEPT
                                         !.fields = [i \in DOMAIN @ |-> Redirected(@[i], base)]]
                                 ELSE @[o]]]
       /\ stack' = [i \in DOMAIN stack |->
                      IF i \in FixedWords THEN Redirected(stack[i], base) ELSE stack[i]]
       /\ request' = [request EXCEPT !.escaped = IF @ = None THEN @ ELSE Redirected(@, base)]
  /\ gc' = [from |-> 0, live |-> LiveSizeBelow(heap.current)]
  /\ phase' = "relocate"
  /\ UNCHANGED <<program, size, frames>>

(* A word in the range of the heap that refers to no object: the type in   *)
(* what is taken for its header may be unknown, which ends the process.    *)
CompactGarbage ==
  /\ MarkDone
  /\ \A i \in DOMAIN gc.roots : ~ToMark(gc.roots[i])
  /\ \E i \in FixedWords : InHeap(stack[i]) /\ ~RefersToObject(stack[i])
  /\ phase' = "killed"
  /\ UNCHANGED <<interpreter, request, heap, gc>>

(* memmove of obj to offset to: the objects that it overlaps are gone.     *)
Moved(objs, obj, to) ==
  LET kept == {o \in DOMAIN objs \ {to} :
                 o + SizeOf(objs[o]) <= to \/ to + SizeOf(obj) <= o}
  IN  [o \in kept \union {to} |-> IF o = to THEN obj ELSE objs[o]]

(* Mutant of Unmarked: the mark bit stays.                                 *)
StillMarked(obj) == obj

(* unmark_object                                                           *)
Unmarked(obj) == [obj EXCEPT !.mark = FALSE]

(* Mutant of Relocate: only a live object advances the iterator.           *)
RelocateLive ==
  LET obj == heap.objs[gc.from]
  IN  /\ phase = "relocate"
      /\ gc.from < heap.current
      /\ obj.mark
      /\ gc' = [gc EXCEPT !.from = NextObj(@)]
      /\ heap' = [heap EXCEPT !.objs = Moved(@, Unmarked(obj), obj.fwd[2])]
      /\ UNCHANGED <<phase, interpreter, request>>

(* physically_relocate, one object at a time; the iterator is advanced     *)
(* before the object is moved.                                             *)
Relocate ==
  LET obj == heap.objs[gc.from]
  IN  /\ phase = "relocate"
      /\ gc.from < heap.current
      /\ gc' = [gc EXCEPT !.from = NextObj(@)]
      /\ heap' = [heap EXCEPT !.objs =
                    IF obj.mark THEN Moved(@, Unmarked(obj), obj.fwd[2]) ELSE @]
      /\ UNCHANGED <<phase, interpreter, request>>

(* The end of compact_phase: what is above the live objects is free.       *)
FinishCompact ==
  /\ phase = "relocate"
  /\ gc.from >= heap.current
  /\ heap' = [heap EXCEPT !.current = gc.live,
                          !.objs = [o \in {x \in DOMAIN @ : x < gc.live} |-> @[o]]]
  /\ gc' = None
  /\ phase' = "again"
  /\ UNCHANGED <<interpreter, request>>

-----------------------------------------------------------------------------

(* The state in which main's BEGIN leaves a new interpreter: its stack has *)
(* zeros, or what the verifier has left in stack_buf, addresses of the     *)
(* bytecode, which are plain words too; main has two arguments.            *)
GCInit ==
  /\ program \in Programs
  /\ phase = "run"
  /\ stack = [i \in 0..StackWords |-> Plain]
  /\ size = Globals + 2 + Locals
  /\ frames = <<[base |-> Globals + 2, args |-> 2]>>
  /\ request = None
  /\ heap = [base |-> CHOOSE base \in Bases : TRUE, size |-> MinHeap, current |-> 0,
             objs |-> [o \in {} |-> None]]
  /\ gc = None

Execute ==
  \/ Const \/ Dup \/ Drop \/ Swap \/ Elem \/ Sta
  \/ \E i \in Variables : Load(i) \/ Store(i)
  \/ \E args \in 0..1 : Begin(args)
  \/ End
  \/ NewString \/ RenderString
  \/ \E n \in program.arrays : NewArray(n)
  \/ \E n \in program.sexps : NewSexp(n)
  \/ \E n \in program.closures : NewClosure(n)

Collect == \/ Allocate \/ StartMark \/ MarkRoot \/ MarkObject \/ VisitField
           \/ Compact \/ CompactGarbage \/ Relocate \/ FinishCompact

GCNext == Execute \/ Collect

(* An allocation runs to its end; the program need not ask for one.        *)
GCSpec == GCInit /\ [][GCNext]_gcVars /\ WF_gcVars(Collect)

-----------------------------------------------------------------------------
(* Type invariant.  Outside of physically_relocate the objects lie one     *)
(* behind the other and fill the heap exactly up to current.  Within it,   *)
(* the memmove of an object never overwrites one that has not been moved.  *)
GCTypeOK ==
  /\ program \in Programs
  /\ phase \in {"run", "alloc", "mark", "relocate", "again", "killed"}
  /\ size \in 2..StackWords
  /\ heap.current \in 0..heap.size
  /\ IF phase = "relocate"
     THEN gc.from \in DOMAIN heap.objs \union {heap.current}
     ELSE \A o \in DOMAIN heap.objs :
            /\ o = 0 \/ \E p \in DOMAIN heap.objs : NextObj(p) = o
            /\ NextObj(o) = heap.current \/ NextObj(o) \in DOMAIN heap.objs

(* The offsets of the objects that hold the elements of the queue.         *)
QueueSlots ==
  IF phase = "mark" THEN {o \in DOMAIN heap.objs : gc.head <= o /\ o < gc.tail} ELSE {}

(* The comment on the loop of mark: the queue contains only references to  *)
(* unmarked objects, and each only once.  The bit in an object says        *)
(* whether it is in the queue, and the heap has room for the whole queue.  *)
QueueHoldsObjects ==
  /\ phase = "mark" => gc.tail <= heap.current
  /\ \A o \in QueueSlots : RefersToObject(heap.objs[o].fwd)
                           /\ ~heap.objs[HeaderOf(heap.objs[o].fwd)].mark
  /\ \A o, p \in QueueSlots : o # p => heap.objs[o].fwd # heap.objs[p].fwd
  /\ \A x \in DOMAIN heap.objs :
       heap.objs[x].enq <=> \E o \in QueueSlots : HeaderOf(heap.objs[o].fwd) = x

(* A collection, whatever the earlier ones have left behind, keeps nothing *)
(* that cannot be reached from its roots, and the new heap is large enough *)
(* for what is kept and for what is asked for.                             *)
CollectionIsExact ==
  phase = "again" => Fits /\ DOMAIN heap.objs = ReachedFrom(Range(Roots))

(* Every allocation comes to an end.                                       *)
AllocationEnds == phase = "alloc" ~> phase \in {"run", "killed"}

-----------------------------------------------------------------------------
(* The objects at the offsets at which references look for them: while     *)
(* physically_relocate is at work, references are already those of the     *)
(* finished heap, and an object that has not been moved yet is found by    *)
(* its forward address.  The program can read the fields of an object, of  *)
(* a closure the entry point and the values it has captured, but not the   *)
(* word from above the top.                                                *)
Visible(obj) ==
  IF obj.kind # "closure" THEN obj.fields
  ELSE [i \in DOMAIN obj.fields |-> IF i = 1 THEN Plain ELSE obj.fields[i - 1]]

Objects ==
  LET waiting == {o \in DOMAIN heap.objs : gc.from <= o /\ heap.objs[o].mark}
      places  == {heap.objs[o].fwd[2] : o \in waiting}
      free    == IF waiting = {} THEN gc.live ELSE Min(places)
  IN  IF phase # "relocate" THEN heap.objs
      ELSE [q \in {o \in DOMAIN heap.objs : o < free} \union places |->
              heap.objs[IF q < free THEN q
                        ELSE CHOOSE o \in waiting : heap.objs[o].fwd[2] = q]]

(* The name of the object that w refers to.                                *)
NameIn(objs, base, w) ==
  IF w = Plain THEN Plain
  ELSE IF w[1] = base /\ HeaderOf(w) \in DOMAIN objs THEN objs[HeaderOf(w)].id
  ELSE None

NamesIn(objs, base, s) == [i \in DOMAIN s |-> NameIn(objs, base, s[i])]

GraphIn(objs, base) ==
  [x \in {objs[q].id : q \in DOMAIN objs} |->
     LET obj == objs[CHOOSE q \in DOMAIN objs : objs[q].id = x]
     IN  [kind |-> obj.kind, fields |-> NamesIn(objs, base, Visible(obj))]]

(* The collector is invisible: interpreter and runtime together behave as  *)
(* a graph of objects in which nothing ever moves, disappears while it is  *)
(* needed or changes by itself.  Compact is where objects disappear; any   *)
(* other step of a collection is one in which nothing happens to the graph.*)
Graph ==
  INSTANCE ObjectGraph
    WITH Ids     <- Ids,
         Kinds   <- ObjectKinds,
         stack   <- [i \in 1..size |-> NameIn(Objects, heap.base, stack[i - 1])],
         node    <- GraphIn(Objects, heap.base),
         pending <- IF phase = "run" THEN None ELSE [kind |-> request.kind, n |-> request.n]

ImplementsObjectGraph == Graph!Spec

=============================================================================
