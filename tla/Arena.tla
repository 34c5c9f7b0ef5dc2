------------------------------- MODULE Arena -------------------------------
(***************************************************************************)
(* What a memory pool promises its threads: a block of each size asked     *)
(* for, within the first Room bytes and apart from every other block, for  *)
(* as long as all that was asked for fits.  Blocks are never given back.   *)
(***************************************************************************)
EXTENDS Integers, FiniteSets

CONSTANTS Threads, Sizes, Room

VARIABLES asked,       (* the size that each thread waits for, or 0        *)
          blocks,      (* the blocks that each thread has, [addr, size]    *)
          alive        (* the process has not ended                        *)

vars == <<asked, blocks, alive>>

Bytes(b) == b.addr..b.addr + b.size - 1

(* What has been asked for, byte by byte: what threads wait for, and what  *)
(* they have.                                                              *)
Wanted == UNION {{t} \X (1..asked[t]) : t \in Threads}
Given  == UNION {UNION {Bytes(b) : b \in blocks[t]} : t \in Threads}

Init == /\ asked = [t \in Threads |-> 0]
        /\ blocks = [t \in Threads |-> {}]
        /\ alive = TRUE

Ask(t, size) == /\ asked[t] = 0
                /\ asked' = [asked EXCEPT ![t] = size]
                /\ UNCHANGED <<blocks, alive>>

Give(t) ==
  /\ asked[t] # 0
  /\ \E addr \in 0..Room - asked[t] :
       LET new == [addr |-> addr, size |-> asked[t]]
       IN  /\ \A u \in Threads : \A b \in blocks[u] : Bytes(b) \intersect Bytes(new) = {}
           /\ blocks' = [blocks EXCEPT ![t] = @ \union {new}]
  /\ asked' = [asked EXCEPT ![t] = 0]
  /\ UNCHANGED alive

End == /\ Cardinality(Wanted) + Cardinality(Given) > Room
       /\ alive' = FALSE
       /\ UNCHANGED <<asked, blocks>>

Next == alive /\ (End \/ \E t \in Threads : Give(t) \/ \E size \in Sizes : Ask(t, size))

Spec == Init /\ [][Next]_vars

=============================================================================
