--------------------------- MODULE MCDequeObjects ---------------------------
(* Instance of DequeObjects for TLC: objects, items and capacities small   *)
(* enough to enumerate, capacities large enough for the cursors to wrap.   *)
EXTENDS DequeObjects

CONSTANTS d1, d2, x, y

MCDeques    == {d1, d2}
MCItems      == {x, y}
MCCapacities == 1..3
=============================================================================
