---------------------------- MODULE BoundedDeque ----------------------------
(***************************************************************************)
(* The ring buffer of Assignment10/src/bounded_deque.h, as operators on a  *)
(* deque value.  A deque is a record                                       *)
(*     container   the slots, numbered from 0 as in the code               *)
(*     front_pos   the slot that the next push_front will fill             *)
(*     back_pos    the slot that the next push_back will fill              *)
(*     count       the number of elements                                  *)
(* No operation checks the capacity: push on a full deque overwrites the   *)
(* element at the other end, pop on an empty one wraps the counter.  The   *)
(* operators below do exactly what the code does, and the modules that use *)
(* them state when the callers respect the preconditions.                  *)
(***************************************************************************)
EXTENDS Integers, Sequences

CONSTANT NoItem      (* a default-constructed element: what a fresh slot holds *)

(* container_.size(), which is also the result of capacity().              *)
CapacityOf(d) == Len(d.container)

(* The slot with index i of container_, counted from 0.                    *)
Slot(d, i) == d.container[i + 1]

(* Mutant of Left: the unsigned cursor is decremented before the modulus   *)
(* without adding the capacity, so that 0 stays where it is.               *)
LeftStuckAtZero(d, pos) == IF pos = 0 THEN 0 ELSE pos - 1

(* One position to the right, and to the left, around the ring.            *)
Right(d, pos) == (pos + 1) % CapacityOf(d)
Left(d, pos)  == (pos + CapacityOf(d) - 1) % CapacityOf(d)

(* bounded_deque(capacity): the cursors start side by side in the middle.  *)
NewDeque(capacity) ==
  [ container |-> [i \in 1..capacity |-> NoItem],
    front_pos |-> IF capacity = 0 THEN 0 ELSE capacity \div 2,
    back_pos  |-> IF capacity = 0 THEN 0 ELSE (capacity \div 2 + 1) % capacity,
    count     |-> 0 ]

IsEmpty(d) == d.count = 0

(* Mutant of Back: reads the slot that the next push_back will fill.       *)
BackAtCursor(d) == Slot(d, d.back_pos)

Front(d) == Slot(d, Right(d, d.front_pos))
Back(d)  == Slot(d, Left(d, d.back_pos))

PushBack(d, item) ==
  [d EXCEPT !.container[d.back_pos + 1] = item,
            !.count    = @ + 1,
            !.back_pos = Right(d, @)]

PushFront(d, item) ==
  [d EXCEPT !.container[d.front_pos + 1] = item,
            !.count     = @ + 1,
            !.front_pos = Left(d, @)]

(* The popped slot keeps its old content: only the cursor moves.           *)
PopFront(d) == [d EXCEPT !.front_pos = Right(d, @), !.count = @ - 1]
PopBack(d)  == [d EXCEPT !.back_pos  = Left(d, @),  !.count = @ - 1]

(* What the move constructor leaves in the object it moved from.  It tests *)
(* container_.empty() where the constructor tests !container_.empty(), so  *)
(* back_pos is 0 for every capacity but 0, for which it divides by zero:   *)
(* an object without slots must not be moved from.                         *)
MovedFrom(d) == [NewDeque(CapacityOf(d)) EXCEPT !.back_pos = 0]

(* The elements from front to back: what a user of the deque sees.         *)
Contents(d) ==
  [i \in 1..d.count |-> Slot(d, (d.front_pos + i) % CapacityOf(d))]

=============================================================================
