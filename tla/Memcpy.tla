------------------------------- MODULE Memcpy -------------------------------
(***************************************************************************)
(* What parallel_memcpy promises its caller: between call and return the   *)
(* bytes of the destination are written in any order and by anyone, and    *)
(* the call returns only when no byte is left to write.                    *)
(***************************************************************************)
EXTENDS Integers

CONSTANT Sizes           (* the sizes of the copied blocks                 *)

VARIABLES busy,          (* a call is in progress                          *)
          todo           (* the offsets that it has not written yet        *)

vars == <<busy, todo>>

Init == busy = FALSE /\ todo = {}

Call == /\ ~busy
        /\ busy' = TRUE
        /\ \E size \in Sizes : todo' = 0..size - 1

Write == /\ busy
         /\ \E bytes \in SUBSET todo : todo' = todo \ bytes
         /\ UNCHANGED busy

Return == /\ busy
          /\ todo = {}
          /\ busy' = FALSE
          /\ UNCHANGED todo

Next == Call \/ Write \/ Return

Spec == Init /\ [][Next]_vars

=============================================================================
