------------------------------- MODULE Deque -------------------------------
(***************************************************************************)
(* What bounded_deque promises: each object is a bounded double-ended      *)
(* sequence.  Nothing here knows about slots or cursors.  An object that   *)
(* has been moved from promises nothing until it is assigned to.           *)
(***************************************************************************)
EXTENDS Integers, Sequences

CONSTANTS Objects,    (* the deque objects                                *)
          Items       (* the values stored in them                        *)

VARIABLES seq,        (* seq[o]: the elements of o from front to back     *)
          bound,      (* bound[o]: the capacity of o                      *)
          valid       (* the objects that have not been moved from        *)

vars == <<seq, bound, valid>>

Room(o)  == o \in valid /\ Len(seq[o]) < bound[o]
Some(o)  == o \in valid /\ seq[o] # <<>>

Init == /\ seq = [o \in Objects |-> <<>>]
        /\ bound \in [Objects -> Nat]
        /\ valid = Objects

Becomes(o, s) == /\ seq' = [seq EXCEPT ![o] = s]
                 /\ UNCHANGED <<bound, valid>>

PushBack(o, item)  == Room(o) /\ Becomes(o, Append(seq[o], item))
PushFront(o, item) == Room(o) /\ Becomes(o, <<item>> \o seq[o])
PopFront(o)        == Some(o) /\ Becomes(o, Tail(seq[o]))
PopBack(o)         == Some(o) /\ Becomes(o, SubSeq(seq[o], 1, Len(seq[o]) - 1))

Copy(o, from) ==
  /\ from \in valid
  /\ seq'   = [seq   EXCEPT ![o] = seq[from]]
  /\ bound' = [bound EXCEPT ![o] = bound[from]]
  /\ valid' = valid \union {o}

Move(o, from) ==
  /\ o # from
  /\ from \in valid
  /\ seq'   = [seq   EXCEPT ![o] = seq[from],   ![from] = <<>>]
  /\ bound' = [bound EXCEPT ![o] = bound[from]]
  /\ valid' = (valid \union {o}) \ {from}

Swap(o, p) ==
  /\ seq'   = [seq   EXCEPT ![o] = seq[p],   ![p] = seq[o]]
  /\ bound' = [bound EXCEPT ![o] = bound[p], ![p] = bound[o]]
  /\ valid' = {x \in Objects : (IF x = o THEN p ELSE IF x = p THEN o ELSE x) \in valid}

Next ==
  \E o \in Objects :
    \/ \E item \in Items : PushBack(o, item) \/ PushFront(o, item)
    \/ PopFront(o) \/ PopBack(o)
    \/ \E p \in Objects : Copy(o, p) \/ Move(o, p) \/ Swap(o, p)

Spec == Init /\ [][Next]_vars

=============================================================================
