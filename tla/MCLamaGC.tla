------------------------------ MODULE MCLamaGC ------------------------------
(* Instances of LamaGC for TLC: a heap that is full after one or two       *)
(* allocations, two mappings that take turns, and programs that            *)
(*   build arrays of arrays and strings                                    *)
(*   assign fields, so that there are cycles, and build arrays of more     *)
(*   words than there are extra roots                                      *)
(*   build closures                                                        *)
(*   call functions                                                        *)
(* MCLamaGCGlobals has a program with a global variable.                   *)
EXTENDS LamaGC

CONSTANTS A, B

MCBases == {A, B}

Strings ==
  [words |-> 4, frames |-> 1, arrays |-> {}, sexps |-> {}, closures |-> {}, live |-> 6]

MCPrograms ==
  {[Strings EXCEPT !.arrays = {2}, !.live = 7],
   [Strings EXCEPT !.arrays = {3}, !.sexps = {1}, !.words = 5, !.live = 4],
   [Strings EXCEPT !.closures = {0, 1}, !.live = 7],
   [Strings EXCEPT !.frames = 2]}

MCGlobalsPrograms == {[Strings EXCEPT !.sexps = {1}]}
=============================================================================
