---------------------------- MODULE PoolThreads -----------------------------
(***************************************************************************)
(* What MemoryPool and PoolRegistry share: threads of one process, each at *)
(* some point of the operation it is in.  The labels are those of the      *)
(* module that extends this one.                                           *)
(***************************************************************************)

CONSTANT Threads  (* the threads that use pools                            *)

VARIABLES
  pc,             (* where each thread is                                  *)
  alive           (* the process has not ended                             *)

Goto(t, label) == pc' = [pc EXCEPT ![t] = label]

=============================================================================
