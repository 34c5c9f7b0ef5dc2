---------------------------- MODULE DequeObjects ----------------------------
(***************************************************************************)
(* A program that owns some bounded_deque objects and calls their public   *)
(* operations in any order that respects the preconditions: push where     *)
(* there is room, pop where there is an element, nothing but assignment    *)
(* and swap on an object that was moved from.  front() and back() change   *)
(* nothing: EndsAreElements says what they return in every state.          *)
(***************************************************************************)
EXTENDS BoundedDeque

CONSTANTS Deques,         (* the deque objects of the program             *)
          Items,          (* the values it stores                         *)
          Capacities      (* the capacities it constructs them with       *)

ASSUME ObjectsAssumption ==
  /\ Capacities \subseteq Nat \ {0}
  /\ NoItem \notin Items

VARIABLES deque,          (* deque[o]: the value of object o              *)
          live            (* the objects that have not been moved from    *)

dequeVars == <<deque, live>>

HasRoom(o)    == o \in live /\ deque[o].count < CapacityOf(deque[o])
HasElement(o) == o \in live /\ ~IsEmpty(deque[o])

DequesInit ==
  /\ \E size \in [Deques -> Capacities] :
        deque = [o \in Deques |-> NewDeque(size[o])]
  /\ live = Deques

Update(o, d) == /\ deque' = [deque EXCEPT ![o] = d]
                /\ UNCHANGED live

CallPushBack(o, item)  == HasRoom(o) /\ Update(o, PushBack(deque[o], item))
CallPushFront(o, item) == HasRoom(o) /\ Update(o, PushFront(deque[o], item))
CallPopFront(o)        == HasElement(o) /\ Update(o, PopFront(deque[o]))
CallPopBack(o)         == HasElement(o) /\ Update(o, PopBack(deque[o]))

(* swap(other): every member changes hands.                                *)
CallSwap(o, p) ==
  /\ o # p
  /\ deque' = [deque EXCEPT ![o] = deque[p], ![p] = deque[o]]
  /\ live'  = {x \in Deques :
                 (IF x = o THEN p ELSE IF x = p THEN o ELSE x) \in live}

(* operator=(const&): copy into a temporary and swap it in; assigning an   *)
(* object to itself does nothing.                                          *)
CallCopyAssign(o, from) ==
  /\ o # from
  /\ from \in live
  /\ deque' = [deque EXCEPT ![o] = deque[from]]
  /\ live'  = live \union {o}

(* operator=(&&): the temporary takes the value of from, and from is left  *)
(* as the move constructor leaves it.                                      *)
CallMoveAssign(o, from) ==
  /\ o # from
  /\ from \in live
  /\ deque' = [deque EXCEPT ![o] = deque[from], ![from] = MovedFrom(deque[from])]
  /\ live'  = (live \union {o}) \ {from}

DequesNext ==
  \E o \in Deques :
    \/ \E item \in Items : CallPushBack(o, item) \/ CallPushFront(o, item)
    \/ CallPopFront(o) \/ CallPopBack(o)
    \/ \E p \in Deques : CallSwap(o, p) \/ CallCopyAssign(o, p) \/ CallMoveAssign(o, p)

DequesSpec == DequesInit /\ [][DequesNext]_dequeVars

-----------------------------------------------------------------------------

(* Type invariant: the cursors of every object stay inside its ring and    *)
(* its counter inside its capacity.                                        *)
DequesTypeOK ==
  /\ \A o \in Deques :
       /\ deque[o].container \in Seq(Items \union {NoItem})
       /\ CapacityOf(deque[o]) \in Capacities
       /\ deque[o].front_pos \in 0..CapacityOf(deque[o]) - 1
       /\ deque[o].back_pos  \in 0..CapacityOf(deque[o]) - 1
       /\ deque[o].count     \in 0..CapacityOf(deque[o])
  /\ live \subseteq Deques

(* front() and back() read the two ends of the same sequence, and neither  *)
(* ever returns a slot that was never filled, however often the cursors    *)
(* have gone round the ring (front(), back() in bounded_deque.h).          *)
EndsAreElements ==
  \A o \in live :
    ~IsEmpty(deque[o]) =>
      LET s == Contents(deque[o])
      IN  /\ Front(deque[o]) = s[1]
          /\ Back(deque[o]) = s[Len(s)]
          /\ \A i \in DOMAIN s : s[i] \in Items

(* The objects behave as bounded double-ended sequences: every operation   *)
(* on slots and cursors is the operation of the same name on sequences,    *)
(* copies are independent of their originals, and a moved value is the     *)
(* value that was moved.                                                   *)
AbstractDeque ==
  INSTANCE Deque
    WITH Objects <- Deques,
         seq   <- [o \in Deques |-> IF o \in live THEN Contents(deque[o]) ELSE <<>>],
         bound <- [o \in Deques |-> CapacityOf(deque[o])],
         valid <- live

ImplementsDeque == AbstractDeque!Spec

=============================================================================
