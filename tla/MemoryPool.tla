----------------------------- MODULE MemoryPool -----------------------------
(***************************************************************************)
(* Assignment07/src/pool.h: a pool that all threads share, synchronized    *)
(* (by a mutex) or lock-free (by fetch_sub).  The pool is one mapping; its *)
(* lowest pages are a guard that nobody may touch, and blocks are cut off  *)
(* its upper end.  Nothing compares first_free_ with the end of the pool:  *)
(* it is the write of an object's constructor to the guard that ends the   *)
(* process, through the handler of sigsegv_handler.cpp.                    *)
(*                                                                         *)
(* An address is an offset in the mapping; below 0 lies what is not the    *)
(* pool's.  pc of a thread                                                 *)
(*     idle      not in the pool                                           *)
(*     locked    holds mutex_, about to read first_free_                   *)
(*     store     holds mutex_, about to write first_free_                  *)
(*     write     has an address, about to write the object there           *)
(*     handler   in sigsegv_handler                                        *)
(***************************************************************************)
EXTENDS Integers, FiniteSets, PoolThreads

CONSTANTS
  Sizes,         (* the sizes of their objects                             *)
  PageSize,      (* sysconf(_SC_PAGESIZE)                                  *)
  Capacity,      (* capacity and max_chunk_size of the pool's constructor  *)
  MaxChunk,
  Kinds,         (* the pools to look at                                   *)
  NoThread       (* mutex_ is free                                         *)

NextPagesize(size) == ((size + PageSize - 1) \div PageSize) * PageSize

GuardSize == NextPagesize(MaxChunk)
TotalSize == NextPagesize(Capacity) + GuardSize

(* The guard is made for one object of the largest size.  All the threads  *)
(* can be in it at once, so that each must have room for one there: the    *)
(* program has 16 threads and objects of 16 bytes to a page.               *)
ASSUME PoolAssumption ==
  /\ IsFiniteSet(Threads) /\ NoThread \notin Threads
  /\ PageSize \in Nat \ {0} /\ Capacity \in Nat /\ MaxChunk \in Nat
  /\ Sizes \subseteq 1..MaxChunk
  /\ Kinds \subseteq {"synchronized", "lock_free"}
  /\ Cardinality(Threads) * MaxChunk <= GuardSize

VARIABLES
  kind,          (* the kind of pool of this run                           *)
  mutex,         (* the thread that holds mutex_, or NoThread              *)
  first_free,    (* first_free_ - base_                                    *)
  size,          (* the argument of its allocate, 0 outside of it          *)
  addr,          (* its copy of first_free_, then its result               *)
  objects        (* the objects that each thread has constructed           *)

vars == <<kind, mutex, first_free, pc, size, addr, objects, alive>>

-----------------------------------------------------------------------------
(* synchronized_pool::allocate                                             *)

(* Mutant of Lock: allocate does not lock.                                 *)
EnterUnlocked(t, n) ==
  /\ kind = "synchronized" /\ pc[t] = "idle"
  /\ size' = [size EXCEPT ![t] = n]
  /\ Goto(t, "locked")
  /\ UNCHANGED <<kind, mutex, first_free, addr, objects, alive>>

Lock(t, n) ==
  /\ kind = "synchronized" /\ pc[t] = "idle"
  /\ mutex = NoThread
  /\ mutex' = t
  /\ size' = [size EXCEPT ![t] = n]
  /\ Goto(t, "locked")
  /\ UNCHANGED <<kind, first_free, addr, objects, alive>>

(* first_free_ -= size reads and writes.                                   *)
Read(t) ==
  /\ pc[t] = "locked"
  /\ addr' = [addr EXCEPT ![t] = first_free - size[t]]
  /\ Goto(t, "store")
  /\ UNCHANGED <<kind, mutex, first_free, size, objects, alive>>

(* The result is read before the destructor of the lock releases it.       *)
StoreAndUnlock(t) ==
  /\ pc[t] = "store"
  /\ first_free' = addr[t]
  /\ mutex' = NoThread
  /\ Goto(t, "write")
  /\ UNCHANGED <<kind, size, addr, objects, alive>>

-----------------------------------------------------------------------------
(* lock_free_pool::allocate                                                *)

FetchSub(t, n) ==
  /\ kind = "lock_free" /\ pc[t] = "idle"
  /\ size' = [size EXCEPT ![t] = n]
  /\ first_free' = first_free - n
  /\ addr' = [addr EXCEPT ![t] = first_free - n]
  /\ Goto(t, "write")
  /\ UNCHANGED <<kind, mutex, objects, alive>>

-----------------------------------------------------------------------------
(* The new-expression writes the object from its first byte on: within the *)
(* guard the first write faults.                                           *)

Construct(t) ==
  /\ pc[t] = "write"
  /\ addr[t] >= GuardSize
  /\ objects' = [objects EXCEPT ![t] = @ \union {[addr |-> addr[t], size |-> size[t]]}]
  /\ size' = [size EXCEPT ![t] = 0]
  /\ addr' = [addr EXCEPT ![t] = 0]
  /\ Goto(t, "idle")
  /\ UNCHANGED <<kind, mutex, first_free, alive>>

(* Mutant of Fault: the guard is not protected, the write goes through.    *)
WriteToGuard(t) ==
  /\ pc[t] = "write"
  /\ 0 <= addr[t] /\ addr[t] < GuardSize
  /\ objects' = [objects EXCEPT ![t] = @ \union {[addr |-> addr[t], size |-> size[t]]}]
  /\ size' = [size EXCEPT ![t] = 0]
  /\ addr' = [addr EXCEPT ![t] = 0]
  /\ Goto(t, "idle")
  /\ UNCHANGED <<kind, mutex, first_free, alive>>

Fault(t) ==
  /\ pc[t] = "write"
  /\ 0 <= addr[t] /\ addr[t] < GuardSize
  /\ Goto(t, "handler")
  /\ UNCHANGED <<kind, mutex, first_free, size, addr, objects, alive>>

(* Mutant of Exit: the handler finds no pool and returns to the write.     *)
ReturnToWrite(t) ==
  /\ pc[t] = "handler"
  /\ Goto(t, "write")
  /\ UNCHANGED <<kind, mutex, first_free, size, addr, objects, alive>>

(* sigsegv_handler finds the pool, prints its number and calls _Exit.      *)
Exit(t) ==
  /\ pc[t] = "handler"
  /\ alive' = FALSE
  /\ UNCHANGED <<kind, mutex, first_free, pc, size, addr, objects>>

-----------------------------------------------------------------------------

(* The pool that get_or_create has constructed.                            *)
Init ==
  /\ kind \in Kinds
  /\ mutex = NoThread
  /\ first_free = TotalSize
  /\ pc = [t \in Threads |-> "idle"]
  /\ size = [t \in Threads |-> 0]
  /\ addr = [t \in Threads |-> 0]
  /\ objects = [t \in Threads |-> {}]
  /\ alive = TRUE

Allocate(t) == \E n \in Sizes : Lock(t, n) \/ FetchSub(t, n)

Proceed(t) == Read(t) \/ StoreAndUnlock(t) \/ Construct(t) \/ Fault(t) \/ Exit(t)

Next == alive /\ \E t \in Threads : Allocate(t) \/ Proceed(t)

Spec == Init /\ [][Next]_vars

(* A thread that has begun an allocation goes on; none needs to begin.     *)
FairSpec == Spec /\ \A t \in Threads : WF_vars(alive /\ Proceed(t))

-----------------------------------------------------------------------------
(* Type invariant.                                                         *)
TypeOK ==
  /\ kind \in Kinds
  /\ mutex \in Threads \union {NoThread}
  /\ first_free \in Int /\ first_free <= TotalSize
  /\ pc \in [Threads -> {"idle", "locked", "store", "write", "handler"}]
  /\ size \in [Threads -> 0..MaxChunk]
  /\ addr \in [Threads -> Int]
  /\ objects \in [Threads -> SUBSET [addr : GuardSize..TotalSize, size : 1..MaxChunk]]
  /\ alive \in BOOLEAN

(* allocate never says that the pool is full.  All the same no constructor *)
(* ever writes below the pool: threads that run into the guard at the same *)
(* time all find their object in it, since none of them comes back to ask  *)
(* for another.                                                            *)
NoWildWrite == \A t \in Threads : pc[t] = "write" => addr[t] >= 0

Block(o) == [addr |-> o.addr - GuardSize, size |-> o.size]
Blocks == [t \in Threads |-> {Block(o) : o \in objects[t]}]

Abstract ==
  INSTANCE Arena WITH Room <- NextPagesize(Capacity), asked <- size, blocks <- Blocks

(* The threads get disjoint objects that lie in the pool's own room, and   *)
(* the process is ended only when what they asked for exceeds it           *)
(* (allocate of both pools).                                               *)
ImplementsArena == Abstract!Spec

(* A pool that has run out ends the process: the thread that hit the guard *)
(* does not hang, whatever the others do (sigsegv_handler).                *)
FullPoolEnds == (first_free < GuardSize) ~> ~alive

=============================================================================
