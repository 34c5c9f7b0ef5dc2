----------------------------- MODULE PoolProofs -----------------------------
(***************************************************************************)
(* Proofs about MemoryPool, PoolRegistry and SafeRead: where threads may   *)
(* write, and what a fault leads to.  For any number of threads, sizes of  *)
(* objects and of the pool, mappings, slots and addresses.                 *)
(***************************************************************************)
EXTENDS MemoryPool, PoolRegistry, SafeRead, FiniteSetTheorems, TLAPS

(***************************************************************************)
(* MemoryPool                                                              *)
(***************************************************************************)

(* The threads that have been given an address in the guard.  None of them *)
(* returns from there.                                                     *)
InGuard == {t \in Threads : pc[t] \in {"write", "handler"} /\ addr[t] < GuardSize}

(* The two threads of a critical section cannot be there at once, and what *)
(* one of them has read is still in first_free_ when it writes.            *)
CriticalSection ==
  \A t \in Threads :
    /\ pc[t] \in {"locked", "store"} => kind = "synchronized" /\ mutex = t
    /\ pc[t] = "store" => addr[t] = first_free - size[t]

(* Every address that was given out is at first_free or above it.          *)
Above ==
  \A t \in Threads :
    /\ pc[t] # "idle" => size[t] >= 1
    /\ pc[t] \in {"write", "handler"} => first_free <= addr[t] /\ addr[t] + size[t] <= TotalSize
    /\ \A o \in objects[t] : first_free <= o.addr /\ o.addr + o.size <= TotalSize

(* The pool has gone below its guard's upper end by no more than one       *)
(* object for each thread that is in the guard.                            *)
Debt == first_free >= GuardSize - MaxChunk * Cardinality(InGuard)

(* A thread outside of allocate has no size, and the handler is that of    *)
(* one whose address is in the guard.                                      *)
Places ==
  \A t \in Threads : /\ pc[t] = "idle" => size[t] = 0
                     /\ pc[t] = "handler" => addr[t] < GuardSize

Inv == TypeOK /\ CriticalSection /\ Above /\ Debt

(* Objects, and the blocks that are about to become objects, do not        *)
(* overlap.                                                                *)
Apart(a, m, b, n) == a + m <= b \/ b + n <= a

ObjectsApart ==
  \A t, u \in Threads : \A o \in objects[t], p \in objects[u] :
    t # u \/ o # p => Apart(o.addr, o.size, p.addr, p.size)

BlocksApart ==
  \A t, u \in Threads :
    pc[t] \in {"write", "handler"} =>
      /\ t # u /\ pc[u] \in {"write", "handler"} => Apart(addr[t], size[t], addr[u], size[u])
      /\ \A o \in objects[u] : Apart(addr[t], size[t], o.addr, o.size)

-----------------------------------------------------------------------------

LEMMA Extents ==
  /\ GuardSize \in Int /\ TotalSize \in Int
  /\ GuardSize <= TotalSize
  /\ MaxChunk \in Nat
<1>1. ASSUME NEW n \in Nat PROVE NextPagesize(n) \in Nat
  <2>1. (n + PageSize - 1) \div PageSize \in Nat
    BY PoolAssumption
  <2> QED BY <2>1, PoolAssumption DEF NextPagesize
<1> QED BY <1>1, PoolAssumption DEF GuardSize, TotalSize

LEMMA GuardFinite == IsFiniteSet(InGuard) /\ Cardinality(InGuard) \in Nat
BY FS_Subset, FS_CardinalityType, PoolAssumption DEF InGuard

(* The guard has room for an object of every thread.                       *)
LEMMA GuardSuffices == Debt => (first_free \in Int => first_free >= 0)
<1>1. /\ Cardinality(InGuard) <= Cardinality(Threads)
      /\ Cardinality(Threads) \in Nat /\ Cardinality(InGuard) \in Nat
  BY FS_Subset, FS_CardinalityType, PoolAssumption DEF InGuard
<1>2. \A m, k, n \in Nat : k <= n => m * k <= m * n
  OBVIOUS
<1>3. MaxChunk * Cardinality(InGuard) <= Cardinality(Threads) * MaxChunk
  BY <1>1, <1>2, Extents
<1>4. MaxChunk * Cardinality(InGuard) \in Int /\ Cardinality(Threads) * MaxChunk \in Int
  BY <1>1, Extents
<1> QED BY <1>3, <1>4, Extents, PoolAssumption DEF Debt

-----------------------------------------------------------------------------

LEMMA InitInv == Init => Inv
<1> SUFFICES ASSUME Init PROVE Inv
  OBVIOUS
<1>1. TypeOK
  BY Extents, PoolAssumption DEF Init, TypeOK
<1>2. CriticalSection /\ Above
  BY DEF Init, CriticalSection, Above
<1>3. InGuard = {}
  BY DEF Init, InGuard
<1>4. Debt
  BY <1>3, FS_EmptySet, Extents DEF Init, Debt
<1> QED BY <1>1, <1>2, <1>4 DEF Inv

(* What an allocation does to the debt: t gets the address a below         *)
(* first_free_, and nobody leaves the guard.                               *)
LEMMA DebtGrows ==
  ASSUME NEW t \in Threads, NEW a \in Int,
         Inv, pc[t] \notin {"write", "handler"},
         first_free' = a, addr'[t] = a, pc'[t] = "write",
         first_free - MaxChunk <= a, a <= first_free,
         \A u \in Threads \ {t} : pc'[u] = pc[u] /\ addr'[u] = addr[u]
  PROVE  Debt'
<1> DEFINE k == Cardinality(InGuard)
<1>1. k \in Nat /\ IsFiniteSet(InGuard)
  BY GuardFinite
<1>2. first_free \in Int /\ MaxChunk * k \in Int
  BY <1>1, Extents DEF Inv, TypeOK
<1>3. first_free >= GuardSize - MaxChunk * k
  BY DEF Inv, Debt
<1>4. t \notin InGuard
  BY DEF InGuard
<1>5. CASE a < GuardSize
  <2>1. InGuard' = InGuard \union {t}
    BY <1>5 DEF InGuard
  <2>2. Cardinality(InGuard') = k + 1
    BY <2>1, <1>1, <1>4, FS_AddElement
  <2>3. MaxChunk * (k + 1) = MaxChunk * k + MaxChunk
    BY <1>1, Extents
  <2>4. a >= GuardSize - (MaxChunk * k + MaxChunk)
    BY <1>2, <1>3, Extents
  <2> QED BY <2>2, <2>3, <2>4 DEF Debt
<1>6. CASE a >= GuardSize
  <2>1. InGuard' = InGuard
    BY <1>6, <1>4, Extents DEF InGuard
  <2>2. MaxChunk * k >= 0
    BY <1>1, Extents
  <2> QED BY <2>1, <2>2, <1>2, <1>6, Extents DEF Debt
<1> QED BY <1>5, <1>6, Extents

-----------------------------------------------------------------------------
(* The invariant, action by action.                                        *)

LEMMA StepInv == Inv /\ [Next]_vars => Inv'
<1> SUFFICES ASSUME Inv, [Next]_vars PROVE Inv'
  OBVIOUS
<1> USE Extents
<1>1. CASE UNCHANGED vars
  BY <1>1 DEF Inv, TypeOK, CriticalSection, Above, Debt, InGuard, vars
<1>2. ASSUME NEW t \in Threads, NEW n \in Sizes, Lock(t, n) PROVE Inv'
  <2>1. n \in 1..MaxChunk
    BY PoolAssumption
  <2>2. TypeOK'
    BY <1>2, <2>1 DEF Inv, TypeOK, Lock, Goto
  <2>3. CriticalSection' /\ Above'
    BY <1>2, <2>1, PoolAssumption DEF Inv, TypeOK, CriticalSection, Above, Lock, Goto
  <2>4. InGuard' = InGuard
    BY <1>2 DEF Inv, TypeOK, InGuard, Lock, Goto
  <2>5. Debt'
    BY <1>2, <2>4 DEF Inv, Debt, Lock
  <2> QED BY <2>2, <2>3, <2>5 DEF Inv
<1>3. ASSUME NEW t \in Threads, Read(t) PROVE Inv'
  <2>1. TypeOK'
    BY <1>3 DEF Inv, TypeOK, Read, Goto
  <2>2. CriticalSection' /\ Above'
    BY <1>3 DEF Inv, TypeOK, CriticalSection, Above, Read, Goto
  <2>3. InGuard' = InGuard
    BY <1>3 DEF Inv, TypeOK, InGuard, Read, Goto
  <2>4. Debt'
    BY <1>3, <2>3 DEF Inv, Debt, Read
  <2> QED BY <2>1, <2>2, <2>4 DEF Inv
<1>4. ASSUME NEW t \in Threads, StoreAndUnlock(t) PROVE Inv'
  <2>1. /\ addr[t] = first_free - size[t] /\ size[t] \in 1..MaxChunk
        /\ first_free \in Int /\ first_free <= TotalSize
    BY <1>4 DEF Inv, TypeOK, CriticalSection, Above, StoreAndUnlock
  <2>2. TypeOK'
    BY <1>4, <2>1 DEF Inv, TypeOK, StoreAndUnlock, Goto
  <2>3. CriticalSection'
    BY <1>4 DEF Inv, TypeOK, CriticalSection, StoreAndUnlock, Goto
  <2>4. Above'
    <3> SUFFICES ASSUME NEW u \in Threads
                 PROVE  /\ pc'[u] # "idle" => size[u] >= 1
                        /\ pc'[u] \in {"write", "handler"} =>
                             addr[t] <= addr[u] /\ addr[u] + size[u] <= TotalSize
                        /\ \A o \in objects[u] : addr[t] <= o.addr /\ o.addr + o.size <= TotalSize
      BY <1>4 DEF Above, StoreAndUnlock
    <3>1. CASE u = t
      BY <3>1, <1>4, <2>1 DEF Inv, TypeOK, Above, StoreAndUnlock, Goto
    <3>2. CASE u # t
      BY <3>2, <1>4, <2>1 DEF Inv, TypeOK, Above, StoreAndUnlock, Goto
    <3> QED BY <3>1, <3>2
  <2>5. Debt'
    BY <1>4, <2>1, DebtGrows DEF Inv, TypeOK, StoreAndUnlock, Goto
  <2> QED BY <2>2, <2>3, <2>4, <2>5 DEF Inv
<1>5. ASSUME NEW t \in Threads, NEW n \in Sizes, FetchSub(t, n) PROVE Inv'
  <2>1. n \in 1..MaxChunk /\ first_free \in Int /\ first_free <= TotalSize
    BY PoolAssumption DEF Inv, TypeOK
  <2>2. TypeOK'
    BY <1>5, <2>1 DEF Inv, TypeOK, FetchSub, Goto
  <2>3. CriticalSection'
    BY <1>5 DEF Inv, TypeOK, CriticalSection, FetchSub, Goto
  <2>4. Above'
    <3> SUFFICES ASSUME NEW u \in Threads
                 PROVE  /\ pc'[u] # "idle" => size'[u] >= 1
                        /\ pc'[u] \in {"write", "handler"} =>
                             first_free - n <= addr'[u] /\ addr'[u] + size'[u] <= TotalSize
                        /\ \A o \in objects[u] : first_free - n <= o.addr /\ o.addr + o.size <= TotalSize
      BY <1>5 DEF Above, FetchSub
    <3>1. CASE u = t
      BY <3>1, <1>5, <2>1 DEF Inv, TypeOK, Above, FetchSub, Goto
    <3>2. CASE u # t
      BY <3>2, <1>5, <2>1 DEF Inv, TypeOK, Above, FetchSub, Goto
    <3> QED BY <3>1, <3>2
  <2>5. Debt'
    BY <1>5, <2>1, DebtGrows DEF Inv, TypeOK, FetchSub, Goto
  <2> QED BY <2>2, <2>3, <2>4, <2>5 DEF Inv
<1>6. ASSUME NEW t \in Threads, Construct(t) PROVE Inv'
  <2> DEFINE new == [addr |-> addr[t], size |-> size[t]]
  <2>1. /\ new \in [addr : GuardSize..TotalSize, size : 1..MaxChunk]
        /\ first_free <= new.addr /\ new.addr + new.size <= TotalSize
    BY <1>6 DEF Inv, TypeOK, Above, Construct
  <2>2. TypeOK'
    BY <1>6, <2>1 DEF Inv, TypeOK, Construct, Goto
  <2>3. CriticalSection'
    BY <1>6 DEF Inv, TypeOK, CriticalSection, Construct, Goto
  <2>4. Above'
    BY <1>6, <2>1 DEF Inv, TypeOK, Above, Construct, Goto
  <2>5. InGuard' = InGuard
    BY <1>6 DEF Inv, TypeOK, InGuard, Construct, Goto
  <2>6. Debt'
    BY <1>6, <2>5 DEF Inv, Debt, Construct
  <2> QED BY <2>2, <2>3, <2>4, <2>6 DEF Inv
<1>7. ASSUME NEW t \in Threads, Fault(t) \/ Exit(t) PROVE Inv'
  <2>1. TypeOK' /\ CriticalSection' /\ Above'
    BY <1>7 DEF Inv, TypeOK, CriticalSection, Above, Fault, Exit, Goto
  <2>2. InGuard' = InGuard
    BY <1>7 DEF Inv, TypeOK, InGuard, Fault, Exit, Goto
  <2>3. Debt'
    BY <1>7, <2>2 DEF Inv, Debt, Fault, Exit
  <2> QED BY <2>1, <2>3 DEF Inv
<1> QED BY <1>1, <1>2, <1>3, <1>4, <1>5, <1>6, <1>7 DEF Next, Allocate, Proceed

LEMMA InvNoWildWrite == Inv => NoWildWrite
BY GuardSuffices DEF Inv, TypeOK, Above, NoWildWrite

(* TypeOK of the shared pools: whatever the threads, the sizes and the     *)
(* capacity, every object lies between the guard and the end of the pool.  *)
THEOREM PoolTypeCorrect == Spec => []TypeOK
<1>1. Inv => TypeOK
  BY DEF Inv
<1> QED BY <1>1, InitInv, StepInv, PTL DEF Spec

(* NoWildWrite of the shared pools: no number of threads that run out of   *)
(* memory at the same time writes below the mapping.                       *)
THEOREM NeverBelowThePool == Spec => []NoWildWrite
BY InitInv, StepInv, InvNoWildWrite, PTL DEF Spec

-----------------------------------------------------------------------------
(* Disjointness.                                                           *)

LEMMA InitApart == Init => BlocksApart /\ ObjectsApart
BY DEF Init, BlocksApart, ObjectsApart

(* A new block ends where everything given out before begins.              *)
LEMMA BlockBelow ==
  ASSUME NEW t \in Threads, Inv, Inv', BlocksApart, ObjectsApart,
         pc[t] \notin {"write", "handler"},
         objects' = objects,
         pc'[t] = "write", addr'[t] + size'[t] = first_free,
         \A u \in Threads \ {t} : pc'[u] = pc[u] /\ addr'[u] = addr[u] /\ size'[u] = size[u]
  PROVE  BlocksApart' /\ ObjectsApart'
<1>1. ObjectsApart'
  BY DEF ObjectsApart, Apart
<1>2. ASSUME NEW u \in Threads, NEW v \in Threads, pc'[u] \in {"write", "handler"}
      PROVE  /\ u # v /\ pc'[v] \in {"write", "handler"} =>
                  Apart(addr'[u], size'[u], addr'[v], size'[v])
             /\ \A o \in objects'[v] : Apart(addr'[u], size'[u], o.addr, o.size)
  <2>1. CASE u = t
    BY <1>2, <2>1 DEF Inv, TypeOK, Above, Apart
  <2>2. CASE u # t /\ v = t
    BY <1>2, <2>2 DEF Inv, TypeOK, Above, Apart, BlocksApart
  <2>3. CASE u # t /\ v # t
    BY <1>2, <2>3 DEF Apart, BlocksApart
  <2> QED BY <2>1, <2>2, <2>3
<1> QED BY <1>1, <1>2 DEF BlocksApart

LEMMA StepApart == Inv /\ Inv' /\ BlocksApart /\ ObjectsApart /\ [Next]_vars
                     => BlocksApart' /\ ObjectsApart'
<1> SUFFICES ASSUME Inv, Inv', BlocksApart, ObjectsApart, [Next]_vars
             PROVE  BlocksApart' /\ ObjectsApart'
  OBVIOUS
<1>1. CASE UNCHANGED vars
  BY <1>1 DEF BlocksApart, ObjectsApart, Apart, vars
<1>2. ASSUME NEW t \in Threads, NEW n \in Sizes, Lock(t, n)
      PROVE  BlocksApart' /\ ObjectsApart'
  BY <1>2 DEF Inv, TypeOK, BlocksApart, ObjectsApart, Apart, Lock, Goto
<1>3. ASSUME NEW t \in Threads, Read(t) PROVE BlocksApart' /\ ObjectsApart'
  BY <1>3 DEF Inv, TypeOK, BlocksApart, ObjectsApart, Apart, Read, Goto
<1>4. ASSUME NEW t \in Threads, StoreAndUnlock(t) PROVE BlocksApart' /\ ObjectsApart'
  <2>1. addr'[t] + size'[t] = first_free
    BY <1>4 DEF Inv, TypeOK, CriticalSection, StoreAndUnlock
  <2> QED BY <1>4, <2>1, BlockBelow DEF Inv, TypeOK, StoreAndUnlock, Goto
<1>5. ASSUME NEW t \in Threads, NEW n \in Sizes, FetchSub(t, n)
      PROVE  BlocksApart' /\ ObjectsApart'
  <2>1. addr'[t] + size'[t] = first_free
    BY <1>5, PoolAssumption DEF Inv, TypeOK, FetchSub
  <2> QED BY <1>5, <2>1, BlockBelow DEF Inv, TypeOK, FetchSub, Goto
<1>6. ASSUME NEW t \in Threads, Construct(t) PROVE BlocksApart' /\ ObjectsApart'
  <2> DEFINE new == [addr |-> addr[t], size |-> size[t]]
  <2>1. /\ pc[t] = "write" /\ pc'[t] = "idle"
        /\ objects'[t] = objects[t] \union {new}
        /\ \A u \in Threads \ {t} : /\ pc'[u] = pc[u] /\ addr'[u] = addr[u]
                                     /\ size'[u] = size[u] /\ objects'[u] = objects[u]
    BY <1>6 DEF Inv, TypeOK, Construct, Goto
  <2>2. ObjectsApart'
    BY <2>1 DEF BlocksApart, ObjectsApart, Apart
  <2>3. BlocksApart'
    BY <2>1 DEF Inv, TypeOK, BlocksApart, Apart
  <2> QED BY <2>2, <2>3
<1>7. ASSUME NEW t \in Threads, Fault(t) \/ Exit(t) PROVE BlocksApart' /\ ObjectsApart'
  BY <1>7 DEF Inv, TypeOK, BlocksApart, ObjectsApart, Apart, Fault, Exit, Goto
<1> QED BY <1>1, <1>2, <1>3, <1>4, <1>5, <1>6, <1>7 DEF Next, Allocate, Proceed

(* No two objects overlap, of one thread or of two, from either pool.      *)
THEOREM ObjectsNeverOverlap == Spec => []ObjectsApart
<1>1. Init => Inv /\ BlocksApart /\ ObjectsApart
  BY InitInv, InitApart
<1>2. Inv /\ BlocksApart /\ ObjectsApart /\ [Next]_vars
        => Inv' /\ BlocksApart' /\ ObjectsApart'
  BY StepInv, StepApart
<1> QED BY <1>1, <1>2, PTL DEF Spec

-----------------------------------------------------------------------------
(* The refinement of Arena.                                                *)

(* Everything above first_free_ is in an object, or in a block that a      *)
(* thread has been given and will make one of.                             *)
Covered ==
  \A x \in first_free..TotalSize - 1 :
    \/ \E t \in Threads : \E o \in objects[t] : x \in o.addr..o.addr + o.size - 1
    \/ \E t \in Threads : /\ pc[t] \in {"write", "handler"}
                          /\ x \in addr[t]..addr[t] + size[t] - 1

LEMMA InitCovered == Init => Covered
BY Extents DEF Init, Covered

(* A new block takes the bytes below first_free_.                          *)
LEMMA BlockCovered ==
  ASSUME NEW t \in Threads, Inv, Inv', Covered,
         pc[t] \notin {"write", "handler"},
         objects' = objects,
         pc'[t] = "write", addr'[t] = first_free', addr'[t] + size'[t] = first_free,
         \A u \in Threads \ {t} : pc'[u] = pc[u] /\ addr'[u] = addr[u] /\ size'[u] = size[u]
  PROVE  Covered'
<1>1. first_free \in Int /\ first_free' \in Int /\ TotalSize \in Int /\ TotalSize' = TotalSize
  BY Extents DEF Inv, TypeOK, TotalSize, GuardSize, NextPagesize
<1> SUFFICES ASSUME NEW x \in first_free'..TotalSize - 1
             PROVE  \/ \E u \in Threads : \E o \in objects'[u] : x \in o.addr..o.addr + o.size - 1
                    \/ \E u \in Threads : /\ pc'[u] \in {"write", "handler"}
                                          /\ x \in addr'[u]..addr'[u] + size'[u] - 1
  BY <1>1 DEF Covered
<1>2. CASE x < first_free
  <2>1. addr'[t] \in Int /\ size'[t] \in Int
    BY DEF Inv, TypeOK
  <2>2. x \in addr'[t]..addr'[t] + size'[t] - 1
    BY <1>1, <1>2, <2>1
  <2> QED BY <2>2
<1>3. CASE x >= first_free
  <2>1. x \in first_free..TotalSize - 1
    BY <1>1, <1>3
  <2> QED BY <2>1 DEF Covered
<1> QED BY <1>1, <1>2, <1>3

LEMMA StepCovered == Inv /\ Inv' /\ Covered /\ [Next]_vars => Covered'
<1> SUFFICES ASSUME Inv, Inv', Covered, [Next]_vars PROVE Covered'
  OBVIOUS
<1>1. CASE UNCHANGED vars
  BY <1>1 DEF Covered, vars
<1>2. ASSUME NEW t \in Threads, NEW n \in Sizes, Lock(t, n) PROVE Covered'
  BY <1>2 DEF Inv, TypeOK, Covered, Lock, Goto
<1>3. ASSUME NEW t \in Threads, Read(t) PROVE Covered'
  BY <1>3 DEF Inv, TypeOK, Covered, Read, Goto
<1>4. ASSUME NEW t \in Threads, StoreAndUnlock(t) PROVE Covered'
  <2>1. addr'[t] + size'[t] = first_free
    BY <1>4 DEF Inv, TypeOK, CriticalSection, StoreAndUnlock
  <2> QED BY <1>4, <2>1, BlockCovered DEF Inv, TypeOK, StoreAndUnlock, Goto
<1>5. ASSUME NEW t \in Threads, NEW n \in Sizes, FetchSub(t, n) PROVE Covered'
  <2>1. addr'[t] + size'[t] = first_free
    BY <1>5, PoolAssumption DEF Inv, TypeOK, FetchSub
  <2> QED BY <1>5, <2>1, BlockCovered DEF Inv, TypeOK, FetchSub, Goto
<1>6. ASSUME NEW t \in Threads, Construct(t) PROVE Covered'
  <2> DEFINE new == [addr |-> addr[t], size |-> size[t]]
  <2>1. /\ first_free' = first_free /\ objects'[t] = objects[t] \union {new}
        /\ \A u \in Threads \ {t} : /\ pc'[u] = pc[u] /\ addr'[u] = addr[u]
                                     /\ size'[u] = size[u] /\ objects'[u] = objects[u]
    BY <1>6 DEF Inv, TypeOK, Construct, Goto
  <2> SUFFICES ASSUME NEW x \in first_free..TotalSize - 1
               PROVE  \/ \E u \in Threads :
                           \E o \in objects'[u] : x \in o.addr..o.addr + o.size - 1
                      \/ \E u \in Threads : /\ pc'[u] \in {"write", "handler"}
                                            /\ x \in addr'[u]..addr'[u] + size'[u] - 1
    BY <2>1 DEF Covered, TotalSize, GuardSize, NextPagesize
  <2>2. CASE \E u \in Threads : \E o \in objects[u] : x \in o.addr..o.addr + o.size - 1
    BY <2>1, <2>2
  <2>3. ASSUME NEW u \in Threads, pc[u] \in {"write", "handler"},
               x \in addr[u]..addr[u] + size[u] - 1
        PROVE  \/ \E v \in Threads :
                    \E o \in objects'[v] : x \in o.addr..o.addr + o.size - 1
               \/ \E v \in Threads : /\ pc'[v] \in {"write", "handler"}
                                     /\ x \in addr'[v]..addr'[v] + size'[v] - 1
    <3>1. CASE u = t
      <4>1. new \in objects'[t] /\ x \in new.addr..new.addr + new.size - 1
        BY <2>1, <2>3, <3>1
      <4> QED BY <4>1
    <3>2. CASE u # t
      BY <2>1, <2>3, <3>2
    <3> QED BY <3>1, <3>2
  <2> QED BY <2>2, <2>3 DEF Covered
<1>7. ASSUME NEW t \in Threads, Fault(t) \/ Exit(t) PROVE Covered'
  BY <1>7 DEF Inv, TypeOK, Covered, Fault, Exit, Goto
<1> QED BY <1>1, <1>2, <1>3, <1>4, <1>5, <1>6, <1>7 DEF Next, Allocate, Proceed

-----------------------------------------------------------------------------
(* Room.                                                                   *)

LEMMA RoomIsAbove == NextPagesize(Capacity) = TotalSize - GuardSize
<1>1. NextPagesize(Capacity) \in Int
  <2>1. (Capacity + PageSize - 1) \div PageSize \in Int
    BY PoolAssumption
  <2> QED BY <2>1, PoolAssumption DEF NextPagesize
<1> QED BY <1>1, Extents DEF TotalSize

LEMMA SameCardinality == \A S : Abstract!Cardinality(S) = Cardinality(S)
BY Zenon DEF Abstract!Cardinality, Abstract!IsFiniteSet, Cardinality, IsFiniteSet

LEMMA GuardNat == GuardSize \in Nat
<1>1. (MaxChunk + PageSize - 1) \div PageSize \in Nat
  BY PoolAssumption
<1> QED BY <1>1, PoolAssumption DEF GuardSize, NextPagesize

(* What is wanted and what was given are finitely many bytes.              *)
LEMMA WantedFinite ==
  ASSUME Inv
  PROVE  /\ IsFiniteSet(Abstract!Wanted) /\ Cardinality(Abstract!Wanted) \in Nat
         /\ \A w : w \in Abstract!Wanted <=> w \in Threads \X (1..MaxChunk) /\ w[2] <= size[w[1]]
<1>1. \A t \in Threads : size[t] \in 0..MaxChunk
  BY DEF Inv, TypeOK
<1>2. \A w : w \in Abstract!Wanted <=> w \in Threads \X (1..MaxChunk) /\ w[2] <= size[w[1]]
  BY <1>1, Extents DEF Abstract!Wanted
<1>3. IsFiniteSet(Threads \X (1..MaxChunk))
  <2>1. IsFiniteSet(1..MaxChunk)
    BY FS_Interval, Extents
  <2> QED BY <2>1, FS_Product, PoolAssumption
<1>4. Abstract!Wanted \in SUBSET (Threads \X (1..MaxChunk))
  BY <1>2
<1> QED BY <1>2, <1>3, <1>4, FS_Subset, FS_CardinalityType

LEMMA GivenFinite ==
  ASSUME Inv
  PROVE  /\ IsFiniteSet(Abstract!Given) /\ Cardinality(Abstract!Given) \in Nat
         /\ \A t \in Threads : \A o \in objects[t] :
              \A x \in o.addr..o.addr + o.size - 1 : x - GuardSize \in Abstract!Given
<1>1. \A t \in Threads : \A o \in objects[t] :
        /\ o.addr \in Int /\ o.size \in Int
        /\ o.addr >= GuardSize /\ o.addr + o.size <= TotalSize
  BY Extents DEF Inv, TypeOK, Above
<1>2. \A y : y \in Abstract!Given <=>
        \E t \in Threads : \E o \in objects[t] :
          y \in o.addr - GuardSize..o.addr - GuardSize + o.size - 1
  <2>1. \A t \in Threads : Blocks[t] = {Block(o) : o \in objects[t]}
    BY DEF Blocks
  <2>2. \A o : Abstract!Bytes(Block(o)) = o.addr - GuardSize..o.addr - GuardSize + o.size - 1
    BY DEF Abstract!Bytes, Block
  <2>3. \A y : y \in Abstract!Given <=>
          \E t \in Threads : \E b \in Blocks[t] : y \in Abstract!Bytes(b)
    BY DEF Abstract!Given
  <2>4. \A y : \A t \in Threads :
          (\E b \in Blocks[t] : y \in Abstract!Bytes(b))
            <=> \E o \in objects[t] : y \in Abstract!Bytes(Block(o))
    BY <2>1, Zenon
  <2> QED BY <2>2, <2>3, <2>4, ZenonT(30)
<1>3. Abstract!Given \in SUBSET (0..TotalSize)
  <2>1. \A t \in Threads : \A o \in objects[t] :
          \A y \in o.addr - GuardSize..o.addr - GuardSize + o.size - 1 : y \in 0..TotalSize
    <3> SUFFICES ASSUME NEW t \in Threads, NEW o \in objects[t],
                        NEW y \in o.addr - GuardSize..o.addr - GuardSize + o.size - 1
                 PROVE  y \in 0..TotalSize
      OBVIOUS
    <3>1. GuardSize \in Nat
      BY GuardNat
    <3> QED BY <1>1, <3>1, Extents
  <2> QED BY <1>2, <2>1
<1>4. IsFiniteSet(0..TotalSize)
  BY FS_Interval, Extents
<1>5. IsFiniteSet(Abstract!Given) /\ Cardinality(Abstract!Given) \in Nat
  BY <1>3, <1>4, FS_Subset, FS_CardinalityType
<1>6. \A t \in Threads : \A o \in objects[t] : \A x \in o.addr..o.addr + o.size - 1 :
        x - GuardSize \in o.addr - GuardSize..o.addr - GuardSize + o.size - 1
  BY <1>1, Extents
<1> QED BY <1>2, <1>5, <1>6

(* The bytes below first_free_ are no more than those that were asked for. *)
LEMMA CoveredIsAskedFor ==
  ASSUME Inv, Covered
  PROVE  TotalSize - first_free <= Cardinality(Abstract!Wanted) + Cardinality(Abstract!Given)
<1> DEFINE W == Abstract!Wanted
           G == Abstract!Given
           f == [w \in W |-> addr[w[1]] + w[2] - 1 - GuardSize]
           R == {f[w] : w \in W}
           I == first_free - GuardSize..TotalSize - 1 - GuardSize
<1>1. first_free \in Int /\ first_free <= TotalSize
  BY DEF Inv, TypeOK
<1>2. f \in Surjection(W, R)
  BY DEF Surjection
<1>3. IsFiniteSet(R) /\ Cardinality(R) <= Cardinality(W)
  <2> HIDE DEF f, R
  <2> QED BY <1>2, WantedFinite, FS_Surjection
<1>4. Cardinality(R) \in Nat /\ Cardinality(W) \in Nat /\ Cardinality(G) \in Nat
      /\ IsFiniteSet(G)
  BY <1>3, WantedFinite, GivenFinite, FS_CardinalityType
<1>5. I \subseteq R \union G
  <2> SUFFICES ASSUME NEW y \in I PROVE y \in R \union G
    OBVIOUS
  <2> DEFINE x == y + GuardSize
  <2>1. x \in first_free..TotalSize - 1 /\ y = x - GuardSize
    BY <1>1, Extents
  <2>2. CASE \E t \in Threads : \E o \in objects[t] : x \in o.addr..o.addr + o.size - 1
    BY <2>1, <2>2, GivenFinite
  <2>3. ASSUME NEW t \in Threads, pc[t] \in {"write", "handler"},
               x \in addr[t]..addr[t] + size[t] - 1
        PROVE  y \in R
    <3> DEFINE w == <<t, x - addr[t] + 1>>
    <3>1. addr[t] \in Int /\ size[t] \in 0..MaxChunk
      BY DEF Inv, TypeOK
    <3>2. w \in Threads \X (1..MaxChunk) /\ w[2] <= size[w[1]]
      BY <2>1, <2>3, <3>1, Extents
    <3>3. w \in W
      BY <3>2, WantedFinite
    <3>4. f[w] = y
      BY <2>1, <2>3, <3>1, <3>3, Extents
    <3> QED BY <3>3, <3>4
  <2> QED BY <2>1, <2>2, <2>3 DEF Covered
<1>6. Cardinality(I) = TotalSize - first_free
  <2>1. first_free - GuardSize \in Int /\ TotalSize - 1 - GuardSize \in Int
    BY <1>1, Extents
  <2>2. Cardinality(I) = IF first_free - GuardSize > TotalSize - 1 - GuardSize
                           THEN 0
                           ELSE (TotalSize - 1 - GuardSize) - (first_free - GuardSize) + 1
    BY <2>1, FS_Interval, Zenon
  <2> QED BY <1>1, <2>2, Extents
<1>7. /\ IsFiniteSet(R \union G)
      /\ Cardinality(R \union G) = Cardinality(R) + Cardinality(G) - Cardinality(R \cap G)
  <2> HIDE DEF R, G
  <2> QED BY <1>3, <1>4, FS_Union
<1>8. Cardinality(R \cap G) \in Nat
  <2> HIDE DEF R, G
  <2> QED BY <1>3, FS_Intersection, FS_CardinalityType
<1>9. Cardinality(I) <= Cardinality(R \union G)
  <2> HIDE DEF R, G, I
  <2> QED BY <1>5, <1>7, FS_Subset
<1> HIDE DEF W, R, G, I
<1>10. TotalSize - first_free <= Cardinality(W) + Cardinality(G)
  BY <1>1, <1>3, <1>4, <1>6, <1>7, <1>8, <1>9, Extents
<1> QED BY <1>10 DEF W, G

-----------------------------------------------------------------------------

LEMMA InitPlaces == Init => Places
BY DEF Init, Places

LEMMA StepPlaces == Inv /\ Places /\ [Next]_vars => Places'
<1> SUFFICES ASSUME Inv, Places, [Next]_vars PROVE Places'
  OBVIOUS
<1> USE Extents DEF Places, Inv, TypeOK
<1>1. CASE UNCHANGED vars
  BY <1>1 DEF vars
<1>2. ASSUME NEW t \in Threads, NEW n \in Sizes, Lock(t, n) \/ FetchSub(t, n) PROVE Places'
  BY <1>2 DEF Lock, FetchSub, Goto
<1>3. ASSUME NEW t \in Threads, Proceed(t) PROVE Places'
  BY <1>3 DEF Proceed, Read, StoreAndUnlock, Construct, Fault, Exit, Goto
<1> QED BY <1>1, <1>2, <1>3 DEF Next, Allocate

LEMMA InitArena == Init => Abstract!Init
BY DEF Init, Abstract!Init, Blocks

LEMMA StepArena ==
  Inv /\ Inv' /\ BlocksApart /\ Covered /\ Places /\ [Next]_vars => [Abstract!Next]_(Abstract!vars)
<1> SUFFICES ASSUME Inv, Inv', BlocksApart, Covered, Places, [Next]_vars
             PROVE  Abstract!Next \/ UNCHANGED Abstract!vars
  OBVIOUS
<1>1. CASE UNCHANGED vars
  BY <1>1 DEF vars, Abstract!vars, Blocks
<1>2. ASSUME alive, NEW t \in Threads, NEW n \in Sizes, Lock(t, n) \/ FetchSub(t, n)
      PROVE  Abstract!Next
  <2>1. size[t] = 0
    BY <1>2 DEF Places, Lock, FetchSub
  <2>2. size' = [size EXCEPT ![t] = n] /\ UNCHANGED <<Blocks, alive>>
    BY <1>2 DEF Lock, FetchSub, Blocks
  <2>3. Abstract!Ask(t, n)
    BY <2>1, <2>2 DEF Abstract!Ask
  <2> QED BY <1>2, <2>3 DEF Abstract!Next
<1>3. ASSUME NEW t \in Threads, Read(t) \/ StoreAndUnlock(t) \/ Fault(t)
      PROVE  UNCHANGED Abstract!vars
  BY <1>3 DEF Read, StoreAndUnlock, Fault, Abstract!vars, Blocks
<1>4. ASSUME alive, NEW t \in Threads, Construct(t) PROVE Abstract!Next
  <2> DEFINE object == [addr |-> addr[t], size |-> size[t]]
             a == addr[t] - GuardSize
             new == [addr |-> a, size |-> size[t]]
  <2>1. /\ pc[t] = "write" /\ size[t] \in 1..MaxChunk /\ addr[t] \in Int
        /\ addr[t] >= GuardSize /\ addr[t] + size[t] <= TotalSize
    BY <1>4 DEF Inv, TypeOK, Above, Construct
  <2>2. a \in 0..NextPagesize(Capacity) - size[t] /\ size[t] # 0
    BY <2>1, RoomIsAbove, Extents
  <2>3. ASSUME NEW u \in Threads, NEW b \in Blocks[u]
        PROVE  Abstract!Bytes(b) \intersect Abstract!Bytes(new) = {}
    <3>1. PICK o \in objects[u] : b = Block(o)
      BY <2>3 DEF Blocks
    <3>2. o.addr \in Int /\ o.size \in Int
      BY Extents DEF Inv, TypeOK
    <3>3. Apart(addr[t], size[t], o.addr, o.size)
      BY <2>1 DEF BlocksApart
    <3> QED BY <2>1, <3>1, <3>2, <3>3, Extents DEF Abstract!Bytes, Block, Apart
  <2>4. Blocks' = [Blocks EXCEPT ![t] = @ \union {new}]
    <3>1. /\ objects \in [Threads -> SUBSET [addr : GuardSize..TotalSize, size : 1..MaxChunk]]
          /\ objects' = [objects EXCEPT ![t] = @ \union {object}]
      BY <1>4 DEF Inv, TypeOK, Construct
    <3>2. Block(object) = new /\ \A o : Block(o)' = Block(o)
      BY DEF Block, GuardSize, NextPagesize
    <3>3. Blocks' = [u \in Threads |-> {Block(o) : o \in objects'[u]}]
      BY <3>2 DEF Blocks
    <3>4. ASSUME NEW u \in Threads
          PROVE  {Block(o) : o \in objects'[u]} = [Blocks EXCEPT ![t] = @ \union {new}][u]
      <4>1. CASE u = t
        <5>1. objects'[u] = objects[t] \union {object}
          BY <3>1, <4>1
        <5>2. [Blocks EXCEPT ![t] = @ \union {new}][u] = Blocks[t] \union {new}
          BY <4>1 DEF Blocks
        <5> HIDE DEF object, new
        <5> QED BY <3>2, <5>1, <5>2 DEF Blocks
      <4>2. CASE u # t
        BY <3>1, <4>2 DEF Blocks
      <4> QED BY <4>1, <4>2
    <3> QED BY <3>3, <3>4 DEF Blocks
  <2>5. size' = [size EXCEPT ![t] = 0] /\ UNCHANGED alive
    BY <1>4 DEF Construct
  <2>6. Abstract!Give(t)
    <3> HIDE DEF new
    <3> QED BY <2>2, <2>3, <2>4, <2>5 DEF Abstract!Give, new
  <2> QED BY <1>4, <2>6 DEF Abstract!Next
<1>5. ASSUME alive, NEW t \in Threads, Exit(t) PROVE Abstract!Next
  <2>1. first_free \in Int /\ addr[t] \in Int /\ first_free <= addr[t] /\ addr[t] < GuardSize
    BY <1>5 DEF Inv, TypeOK, Above, Places, Exit
  <2>2. TotalSize - first_free <= Cardinality(Abstract!Wanted) + Cardinality(Abstract!Given)
    BY CoveredIsAskedFor
  <2>3. Cardinality(Abstract!Wanted) + Cardinality(Abstract!Given) > NextPagesize(Capacity)
    BY <2>1, <2>2, RoomIsAbove, WantedFinite, GivenFinite, Extents
  <2>4. alive' = FALSE /\ UNCHANGED <<size, Blocks>>
    BY <1>5 DEF Exit, Blocks
  <2>5. Abstract!End
    BY <2>3, <2>4, SameCardinality, Zenon DEF Abstract!End
  <2> QED BY <1>5, <2>5 DEF Abstract!Next
<1> QED BY <1>1, <1>2, <1>3, <1>4, <1>5 DEF Next, Allocate, Proceed

(* The shared pools are an Arena: disjoint blocks within the capacity, and *)
(* an end only when more was asked for than fits (allocate of both pools,  *)
(* sigsegv_handler), for any number of threads.                            *)
THEOREM PoolImplementsArena == Spec => ImplementsArena
<1>1. Init => Inv /\ BlocksApart /\ ObjectsApart /\ Covered /\ Places
  BY InitInv, InitApart, InitCovered, InitPlaces
<1>2. Inv /\ BlocksApart /\ ObjectsApart /\ Covered /\ Places /\ [Next]_vars
        => Inv' /\ BlocksApart' /\ ObjectsApart' /\ Covered' /\ Places'
  BY StepInv, StepApart, StepCovered, StepPlaces
<1>3. Inv /\ Inv' /\ BlocksApart /\ Covered /\ Places /\ [Next]_vars => [Abstract!Next]_(Abstract!vars)
  BY StepArena
<1> QED BY <1>1, <1>2, <1>3, InitArena, PTL DEF Spec, ImplementsArena, Abstract!Spec

(***************************************************************************)
(* PoolRegistry                                                            *)
(***************************************************************************)

RegistryTypes ==
  /\ guard_firsts \in [Slots -> Nat]
  /\ guard_lasts \in [Slots -> {Nullptr} \union {GuardLast(r) : r \in Regions}]
  /\ pc \in [Threads -> {"outside", "register", "complete", "use", "unmap",
                         "find", "match", "found", "npos"}]
  /\ region \in [Threads -> Regions \union {0}]
  /\ pos \in [Threads -> 0..MaxPools + 1]
  /\ slot \in [Threads -> 0..MaxPools]
  /\ hit \in [Threads -> Nat]
  /\ first \in [Threads -> Nat]
  /\ disturbed \in [Threads -> BOOLEAN]
  /\ alive \in BOOLEAN

(* From the exchange in register_pool to the store in unregister_pool.     *)
Holds(t) == pc[t] = "complete" \/ Registered(t)

(* The slot that a thread holds is its own and has the bounds of its guard *)
(* as far as they have been written.                                       *)
Owned ==
  \A t \in Threads :
    /\ pc[t] # "outside" => region[t] \in Regions
    /\ pc[t] = "register" => pos[t] >= 1
    /\ Holds(t) => SlotOf(t) \in Slots /\ guard_firsts[SlotOf(t)] = GuardFirst(region[t])
    /\ Registered(t) => guard_lasts[SlotOf(t)] = GuardLast(region[t])

Exclusive == \A t, u \in Threads : t # u /\ Holds(t) /\ Holds(u) => SlotOf(t) # SlotOf(u)

(* A slot that is taken is held by a thread.                               *)
NoStaleSlot ==
  \A s \in Slots : guard_firsts[s] # Nullptr => \E t \in Threads : Holds(t) /\ SlotOf(t) = s

(* The search for the guard of the thread's own pool does not get past it. *)
SearchBelow ==
  \A t \in Threads : InHandler(t) =>
    /\ pos[t] >= 1 /\ (pc[t] = "match" => pos[t] <= MaxPools)
    /\ hit[t] = GuardFirst(region[t]) =>
         /\ pc[t] # "npos"
         /\ pos[t] <= slot[t]
         /\ pc[t] = "match" /\ pos[t] = slot[t] => first[t] = GuardFirst(region[t])

RegistryInv == RegistryTypes /\ Owned /\ Exclusive /\ NoStaleSlot /\ SearchBelow

-----------------------------------------------------------------------------

LEMMA InitRegistryInv == RegistryInit => RegistryInv
BY RegistryAssumption
   DEF RegistryInit, RegistryInv, RegistryTypes, Owned, Exclusive, NoStaleSlot, SearchBelow, Holds, Registered,
       InHandler, Slots, Nullptr

LEMMA GuardTypes ==
  ASSUME NEW r \in Regions
  PROVE  /\ GuardFirst(r) \in Nat /\ GuardLast(r) \in Nat
         /\ GuardFirst(r) # Nullptr /\ GuardFirst(r) < GuardLast(r)
BY RegistryAssumption DEF GuardFirst, GuardLast, Nullptr

(* The actions that neither write the table nor change who holds a slot.   *)
LEMMA TableKept ==
  ASSUME RegistryInv, RegistryTypes', UNCHANGED table,
         \A t \in Threads :
           /\ Holds(t)' <=> Holds(t)
           /\ Registered(t)' <=> Registered(t)
           /\ Holds(t) => SlotOf(t)' = SlotOf(t) /\ region'[t] = region[t]
           /\ pc'[t] # "outside" => region'[t] \in Regions
           /\ pc'[t] = "register" => pos'[t] >= 1
  PROVE  Owned' /\ Exclusive' /\ NoStaleSlot'
BY DEF RegistryInv, Owned, Exclusive, NoStaleSlot, table, Registered, Holds

LEMMA StepRegistryInv == RegistryInv /\ [RegistryNext]_registryVars => RegistryInv'
<1> SUFFICES ASSUME RegistryInv, [RegistryNext]_registryVars PROVE RegistryInv'
  OBVIOUS
<1> USE RegistryAssumption DEF Slots
<1>1. CASE UNCHANGED registryVars
  BY <1>1 DEF RegistryInv, RegistryTypes, Owned, Exclusive, NoStaleSlot, SearchBelow, Holds, Registered,
              InHandler, SlotOf, registryVars, table, search
<1>2. ASSUME NEW t \in Threads, NEW r \in Regions, Map(t, r) PROVE RegistryInv'
  <2>1. RegistryTypes'
    BY <1>2, SMTT(45) DEF RegistryInv, RegistryTypes, Map, Goto, table, search
  <2>2. \A u \in Threads :
           /\ Holds(u)' <=> Holds(u)
           /\ Registered(u)' <=> Registered(u)
           /\ Holds(u) => SlotOf(u)' = SlotOf(u) /\ region'[u] = region[u]
           /\ pc'[u] # "outside" => region'[u] \in Regions
           /\ pc'[u] = "register" => pos'[u] >= 1
    BY <1>2 DEF RegistryInv, RegistryTypes, Owned, Map, Goto, table, search, Holds, Registered, InHandler, SlotOf
  <2>3. Owned' /\ Exclusive' /\ NoStaleSlot'
    BY <1>2, <2>1, <2>2, TableKept DEF Map, table
  <2>4. SearchBelow'
    BY <1>2 DEF RegistryInv, RegistryTypes, SearchBelow, InHandler, Map, Goto, table, search
  <2> QED BY <2>1, <2>3, <2>4 DEF RegistryInv
<1>3. ASSUME NEW t \in Threads, TakeSlot(t) PROVE RegistryInv'
  <2> DEFINE s == pos[t]
  <2>1. /\ s \in Slots /\ region[t] \in Regions /\ guard_firsts[s] = Nullptr
        /\ GuardFirst(region[t]) \in Nat /\ GuardFirst(region[t]) # Nullptr
    BY <1>3, GuardTypes DEF RegistryInv, Owned, TakeSlot
  <2>2. RegistryTypes'
    BY <1>3, <2>1 DEF RegistryInv, RegistryTypes, TakeSlot, Goto, Disturb, search
  <2>3. \A u \in Threads : Holds(u) => u # t /\ SlotOf(u) # s
    BY <1>3, <2>1, GuardTypes DEF RegistryInv, Owned, TakeSlot, Holds, Registered, InHandler
  <2>4. /\ Holds(t)' /\ ~Registered(t)' /\ SlotOf(t)' = s /\ region' = region
        /\ \A u \in Threads \ {t} : /\ pc'[u] = pc[u] /\ pos'[u] = pos[u]
                                    /\ Holds(u)' <=> Holds(u)
                                    /\ Registered(u)' <=> Registered(u)
                                    /\ SlotOf(u)' = SlotOf(u)
    BY <1>3 DEF RegistryInv, RegistryTypes, TakeSlot, Goto, Holds, Registered, InHandler, SlotOf, search
  <2>5. /\ guard_lasts' = guard_lasts /\ guard_firsts'[s] = GuardFirst(region[t])
        /\ \A x \in Slots \ {s} : guard_firsts'[x] = guard_firsts[x]
    BY <1>3, <2>1 DEF RegistryInv, RegistryTypes, TakeSlot
  <2>6. Owned'
    <3> SUFFICES ASSUME NEW u \in Threads
                 PROVE  (/\ pc[u] # "outside" => region[u] \in Regions
                         /\ pc[u] = "register" => pos[u] >= 1
                         /\ Holds(u) => SlotOf(u) \in Slots /\ guard_firsts[SlotOf(u)] = GuardFirst(region[u])
                         /\ Registered(u) => guard_lasts[SlotOf(u)] = GuardLast(region[u]))'
      BY DEF Owned
    <3>1. CASE u = t
      BY <3>1, <2>1, <2>4, <2>5, <1>3 DEF TakeSlot, Goto, RegistryInv, RegistryTypes
    <3>2. CASE u # t
      BY <3>2, <2>3, <2>4, <2>5 DEF RegistryInv, Owned, Holds
    <3> QED BY <3>1, <3>2
  <2>7. Exclusive'
    BY <2>3, <2>4 DEF RegistryInv, Exclusive
  <2>8. NoStaleSlot'
    BY <2>3, <2>4, <2>5 DEF RegistryInv, NoStaleSlot
  <2>9. SearchBelow'
    BY <1>3 DEF RegistryInv, RegistryTypes, SearchBelow, InHandler, TakeSlot, Goto, search
  <2> QED BY <2>2, <2>6, <2>7, <2>8, <2>9 DEF RegistryInv
<1>4. ASSUME NEW t \in Threads, SkipSlot(t) PROVE RegistryInv'
  <2>1. RegistryTypes'
    BY <1>4 DEF RegistryInv, RegistryTypes, SkipSlot, table, search
  <2>2. \A u \in Threads :
           /\ Holds(u)' <=> Holds(u)
           /\ Registered(u)' <=> Registered(u)
           /\ Holds(u) => SlotOf(u)' = SlotOf(u) /\ region'[u] = region[u]
           /\ pc'[u] # "outside" => region'[u] \in Regions
           /\ pc'[u] = "register" => pos'[u] >= 1
    BY <1>4 DEF RegistryInv, RegistryTypes, Owned, SkipSlot, table, search, Holds, Registered, InHandler, SlotOf
  <2>3. Owned' /\ Exclusive' /\ NoStaleSlot'
    BY <1>4, <2>1, <2>2, TableKept DEF SkipSlot, table
  <2>4. SearchBelow'
    BY <1>4 DEF RegistryInv, RegistryTypes, SearchBelow, InHandler, SkipSlot, search
  <2> QED BY <2>1, <2>3, <2>4 DEF RegistryInv
<1>5. ASSUME NEW t \in Threads, NoSlot(t) \/ EndProcess(t) PROVE RegistryInv'
  <2>1. /\ UNCHANGED <<guard_firsts, guard_lasts, pc, region, pos, slot, hit, first, disturbed>>
        /\ alive' \in BOOLEAN
    BY <1>5 DEF NoSlot, EndProcess, table, search
  <2> QED BY <2>1 DEF RegistryInv, RegistryTypes, Owned, Exclusive, NoStaleSlot, SearchBelow, Holds, Registered,
                      InHandler, SlotOf
<1>6. ASSUME NEW t \in Threads, Complete(t) PROVE RegistryInv'
  <2> DEFINE s == pos[t]
  <2>1. /\ Holds(t) /\ SlotOf(t) = s /\ s \in Slots /\ region[t] \in Regions
    BY <1>6 DEF RegistryInv, Owned, Complete, Holds, SlotOf, InHandler
  <2>2. RegistryTypes'
    BY <1>6, <2>1 DEF RegistryInv, RegistryTypes, Complete, Goto, Disturb, search
  <2>3. /\ Holds(t)' /\ Registered(t)' /\ SlotOf(t)' = s /\ region' = region
        /\ \A u \in Threads \ {t} : /\ pc'[u] = pc[u] /\ pos'[u] = pos[u]
                                    /\ Holds(u)' <=> Holds(u)
                                    /\ Registered(u)' <=> Registered(u)
                                    /\ SlotOf(u)' = SlotOf(u)
    BY <1>6 DEF RegistryInv, RegistryTypes, Complete, Goto, Holds, Registered, InHandler, SlotOf, search
  <2>4. /\ guard_firsts' = guard_firsts /\ guard_lasts'[s] = GuardLast(region[t])
        /\ \A x \in Slots \ {s} : guard_lasts'[x] = guard_lasts[x]
    BY <1>6, <2>1 DEF RegistryInv, RegistryTypes, Complete
  <2>5. Owned'
    <3> SUFFICES ASSUME NEW u \in Threads
                 PROVE  (/\ pc[u] # "outside" => region[u] \in Regions
                         /\ pc[u] = "register" => pos[u] >= 1
                         /\ Holds(u) => SlotOf(u) \in Slots /\ guard_firsts[SlotOf(u)] = GuardFirst(region[u])
                         /\ Registered(u) => guard_lasts[SlotOf(u)] = GuardLast(region[u]))'
      BY DEF Owned
    <3>1. CASE u = t
      BY <3>1, <2>1, <2>3, <2>4, <1>6 DEF Complete, Goto, RegistryInv, RegistryTypes, Owned
    <3>2. CASE u # t
      BY <3>2, <2>1, <2>3, <2>4 DEF RegistryInv, Owned, Exclusive, Holds
    <3> QED BY <3>1, <3>2
  <2>6. Exclusive'
    BY <2>1, <2>3 DEF RegistryInv, Exclusive
  <2>7. NoStaleSlot'
    BY <2>1, <2>3, <2>4 DEF RegistryInv, NoStaleSlot
  <2>8. SearchBelow'
    BY <1>6 DEF RegistryInv, RegistryTypes, SearchBelow, InHandler, Complete, Goto, search
  <2> QED BY <2>2, <2>5, <2>6, <2>7, <2>8 DEF RegistryInv
<1>7. ASSUME NEW t \in Threads, Unregister(t) PROVE RegistryInv'
  <2> DEFINE s == pos[t]
  <2>1. /\ Holds(t) /\ SlotOf(t) = s /\ s \in Slots /\ region[t] \in Regions
    BY <1>7 DEF RegistryInv, Owned, Unregister, Holds, Registered, SlotOf, InHandler
  <2>2. RegistryTypes'
    BY <1>7, <2>1 DEF RegistryInv, RegistryTypes, Unregister, Goto, Disturb, search, Nullptr
  <2>3. /\ ~Holds(t)' /\ ~Registered(t)' /\ region' = region /\ pc'[t] = "unmap"
        /\ \A u \in Threads \ {t} : /\ pc'[u] = pc[u] /\ pos'[u] = pos[u]
                                    /\ Holds(u)' <=> Holds(u)
                                    /\ Registered(u)' <=> Registered(u)
                                    /\ SlotOf(u)' = SlotOf(u)
    BY <1>7 DEF RegistryInv, RegistryTypes, Unregister, Goto, Holds, Registered, InHandler, SlotOf, search
  <2>4. /\ guard_lasts' = guard_lasts /\ guard_firsts'[s] = Nullptr
        /\ \A x \in Slots \ {s} : guard_firsts'[x] = guard_firsts[x]
    BY <1>7, <2>1 DEF RegistryInv, RegistryTypes, Unregister
  <2>5. Owned'
    BY <2>1, <2>3, <2>4 DEF RegistryInv, Owned, Exclusive, Holds
  <2>6. Exclusive'
    BY <2>3 DEF RegistryInv, Exclusive
  <2>7. NoStaleSlot'
    BY <2>1, <2>3, <2>4 DEF RegistryInv, NoStaleSlot
  <2>8. SearchBelow'
    BY <1>7 DEF RegistryInv, RegistryTypes, SearchBelow, InHandler, Unregister, Goto, search
  <2> QED BY <2>2, <2>5, <2>6, <2>7, <2>8 DEF RegistryInv
<1>8. ASSUME NEW t \in Threads, Unmap(t) PROVE RegistryInv'
  <2>1. RegistryTypes'
    BY <1>8 DEF RegistryInv, RegistryTypes, Unmap, Goto, table, search
  <2>2. \A u \in Threads :
           /\ Holds(u)' <=> Holds(u)
           /\ Registered(u)' <=> Registered(u)
           /\ Holds(u) => SlotOf(u)' = SlotOf(u) /\ region'[u] = region[u]
           /\ pc'[u] # "outside" => region'[u] \in Regions
           /\ pc'[u] = "register" => pos'[u] >= 1
    BY <1>8 DEF RegistryInv, RegistryTypes, Owned, Unmap, Goto, table, search, Holds, Registered, InHandler, SlotOf
  <2>3. Owned' /\ Exclusive' /\ NoStaleSlot'
    BY <1>8, <2>1, <2>2, TableKept DEF Unmap, table
  <2>4. SearchBelow'
    BY <1>8 DEF RegistryInv, RegistryTypes, SearchBelow, InHandler, Unmap, Goto, table, search
  <2> QED BY <2>1, <2>3, <2>4 DEF RegistryInv
<1>9. ASSUME NEW t \in Threads, NEW r \in Regions, NEW address \in Pages(r), Segv(t, address)
      PROVE  RegistryInv'
  <2>1. address \in Nat /\ pos[t] \in Slots
    BY <1>9, GuardTypes DEF Pages, RegistryInv, Owned, Segv, Holds, Registered, SlotOf, InHandler
  <2>2. RegistryTypes'
    <3>1. disturbed' \in [Threads -> BOOLEAN]
      BY <1>9, Zenon DEF RegistryInv, RegistryTypes, Segv
    <3>2. /\ pc' \in [Threads -> {"outside", "register", "complete", "use", "unmap",
                                  "find", "match", "found", "npos"}]
          /\ pos' \in [Threads -> 0..MaxPools + 1]
          /\ slot' \in [Threads -> 0..MaxPools]
          /\ hit' \in [Threads -> Nat]
      BY <1>9, <2>1, SMTT(45) DEF RegistryInv, RegistryTypes, Segv, Goto
    <3>3. UNCHANGED <<guard_firsts, guard_lasts, region, first, alive>>
      BY <1>9 DEF Segv, table
    <3> QED BY <3>1, <3>2, <3>3 DEF RegistryInv, RegistryTypes
  <2>3. \A u \in Threads :
           /\ Holds(u)' <=> Holds(u)
           /\ Registered(u)' <=> Registered(u)
           /\ Holds(u) => SlotOf(u)' = SlotOf(u) /\ region'[u] = region[u]
           /\ pc'[u] # "outside" => region'[u] \in Regions
           /\ pc'[u] = "register" => pos'[u] >= 1
    BY <1>9 DEF RegistryInv, RegistryTypes, Owned, Segv, Goto, table, Holds, Registered, InHandler, SlotOf
  <2>4. Owned' /\ Exclusive' /\ NoStaleSlot'
    BY <1>9, <2>2, <2>3, TableKept DEF Segv, table
  <2>5. SearchBelow'
    <3>1. /\ pc'[t] = "find" /\ pos'[t] = 1 /\ slot'[t] >= 1
          /\ \A u \in Threads \ {t} : /\ pc'[u] = pc[u] /\ pos'[u] = pos[u]
                                      /\ slot'[u] = slot[u] /\ hit'[u] = hit[u]
          /\ first' = first /\ region' = region
      BY <1>9, <2>1 DEF RegistryInv, RegistryTypes, Segv, Goto
    <3> QED BY <3>1 DEF RegistryInv, SearchBelow, InHandler
  <2> QED BY <2>2, <2>4, <2>5 DEF RegistryInv
<1>10. ASSUME NEW t \in Threads, LoadFirst(t) \/ LoadLast(t) \/ NotFound(t) PROVE RegistryInv'
  <2>1. RegistryTypes'
    <3>1. CASE LoadFirst(t)
      <4>1. pos[t] \in Slots /\ guard_firsts[pos[t]] \in Nat /\ pos[t] + 1 \in 0..MaxPools + 1
        BY <3>1 DEF RegistryInv, RegistryTypes, LoadFirst
      <4>2. /\ first' = [first EXCEPT ![t] = guard_firsts[pos[t]]]
            /\ pos' = pos \/ pos' = [pos EXCEPT ![t] = pos[t] + 1]
        BY <3>1 DEF LoadFirst
      <4>3. first' \in [Threads -> Nat] /\ pos' \in [Threads -> 0..MaxPools + 1]
        BY <4>1, <4>2 DEF RegistryInv, RegistryTypes
      <4>4. pc' \in [Threads -> {"outside", "register", "complete", "use", "unmap",
                                 "find", "match", "found", "npos"}]
        BY <3>1 DEF RegistryInv, RegistryTypes, LoadFirst, Goto
      <4> QED BY <3>1, <4>3, <4>4 DEF RegistryInv, RegistryTypes, LoadFirst, table
    <3>2. CASE LoadLast(t)
      <4>1. pos[t] + 1 \in 0..MaxPools + 1
        BY <3>2 DEF RegistryInv, RegistryTypes, SearchBelow, InHandler, LoadLast
      <4>2. pos' = pos \/ pos' = [pos EXCEPT ![t] = pos[t] + 1]
        BY <3>2 DEF LoadLast
      <4>3. pos' \in [Threads -> 0..MaxPools + 1]
        BY <4>1, <4>2 DEF RegistryInv, RegistryTypes
      <4>4. pc' \in [Threads -> {"outside", "register", "complete", "use", "unmap",
                                 "find", "match", "found", "npos"}]
        BY <3>2 DEF RegistryInv, RegistryTypes, LoadLast, Goto
      <4> QED BY <3>2, <4>3, <4>4 DEF RegistryInv, RegistryTypes, LoadLast, table, search
    <3>3. CASE NotFound(t)
      BY <3>3 DEF RegistryInv, RegistryTypes, NotFound, Goto, table, search
    <3> QED BY <1>10, <3>1, <3>2, <3>3
  <2>2. \A u \in Threads :
           /\ Holds(u)' <=> Holds(u)
           /\ Registered(u)' <=> Registered(u)
           /\ Holds(u) => SlotOf(u)' = SlotOf(u) /\ region'[u] = region[u]
           /\ pc'[u] # "outside" => region'[u] \in Regions
           /\ pc'[u] = "register" => pos'[u] >= 1
    BY <1>10, SMTT(30) DEF RegistryInv, RegistryTypes, Owned, LoadFirst, LoadLast, NotFound, Goto, table, search,
                 Holds, Registered, InHandler, SlotOf
  <2>3. Owned' /\ Exclusive' /\ NoStaleSlot'
    BY <1>10, <2>1, <2>2, TableKept DEF LoadFirst, LoadLast, NotFound, table
  <2>4. InHandler(t) =>
          /\ slot[t] \in Slots /\ region[t] \in Regions
          /\ guard_firsts[slot[t]] = GuardFirst(region[t])
          /\ guard_lasts[slot[t]] = GuardLast(region[t])
    BY DEF RegistryInv, Owned, Holds, Registered, SlotOf, InHandler
  <2>5. /\ GuardFirst(region[t]) # Nullptr
        /\ GuardFirst(region[t]) < GuardLast(region[t]) /\ GuardFirst(region[t]) \in Nat
        \/ ~InHandler(t)
    BY <2>4, GuardTypes
  <2>6. ASSUME LoadFirst(t) PROVE SearchBelow'
    BY <2>4, <2>5, <2>6, SMTT(30) DEF RegistryInv, RegistryTypes, SearchBelow, InHandler, LoadFirst, Goto, table
  <2>7. ASSUME LoadLast(t) PROVE SearchBelow'
    <3>1. /\ pc[t] = "match" /\ pos[t] \in Nat /\ slot[t] \in Nat /\ pos[t] >= 1
          /\ hit[t] = GuardFirst(region[t]) =>
               pos[t] <= slot[t] /\ (pos[t] = slot[t] => first[t] = GuardFirst(region[t]))
      BY <2>7 DEF RegistryInv, RegistryTypes, SearchBelow, InHandler, LoadLast
    <3>2. hit[t] = GuardFirst(region[t]) /\ pos[t] = slot[t] => Matches(t)
      BY <2>4, <2>5, <3>1 DEF Matches, InHandler
    <3>3. UNCHANGED <<slot, hit, first, region>>
      BY <2>7 DEF LoadLast, search
    <3>4. CASE Matches(t)
      <4>1. pos' = pos /\ pc' = [pc EXCEPT ![t] = "found"]
        BY <2>7, <3>4 DEF LoadLast, Goto
      <4> QED BY <3>1, <3>3, <4>1 DEF RegistryInv, RegistryTypes, SearchBelow, InHandler
    <3>5. CASE ~Matches(t)
      <4>1. pos' = [pos EXCEPT ![t] = @ + 1] /\ pc' = [pc EXCEPT ![t] = "find"]
        BY <2>7, <3>5 DEF LoadLast, Goto
      <4>2. hit[t] = GuardFirst(region[t]) => pos[t] + 1 <= slot[t]
        BY <3>1, <3>2, <3>5
      <4> QED BY <3>1, <3>3, <4>1, <4>2 DEF RegistryInv, RegistryTypes, SearchBelow, InHandler
    <3> QED BY <3>4, <3>5
  <2>8. ASSUME NotFound(t) PROVE SearchBelow'
    BY <2>4, <2>8 DEF RegistryInv, RegistryTypes, SearchBelow, InHandler, NotFound, Goto, table, search
  <2> QED BY <1>10, <2>1, <2>3, <2>6, <2>7, <2>8 DEF RegistryInv
<1>11. ASSUME NEW t \in Threads, Return(t) PROVE RegistryInv'
  <2>1. /\ pc[t] = "npos" /\ pc' = [pc EXCEPT ![t] = "use"] /\ pos' = [pos EXCEPT ![t] = slot[t]]
        /\ slot' = [slot EXCEPT ![t] = 0] /\ hit' = [hit EXCEPT ![t] = 0]
        /\ first' = [first EXCEPT ![t] = 0] /\ disturbed' = [disturbed EXCEPT ![t] = FALSE]
        /\ UNCHANGED <<table, region, alive>>
    BY <1>11 DEF Return, Goto
  <2>2. slot[t] \in 0..MaxPools + 1 /\ 0 \in 0..MaxPools
    BY RegistryAssumption DEF RegistryInv, RegistryTypes
  <2>3. RegistryTypes'
    BY <2>1, <2>2 DEF RegistryInv, RegistryTypes, table
  <2>4. \A u \in Threads :
           /\ Holds(u)' <=> Holds(u)
           /\ Registered(u)' <=> Registered(u)
           /\ Holds(u) => SlotOf(u)' = SlotOf(u) /\ region'[u] = region[u]
           /\ pc'[u] # "outside" => region'[u] \in Regions
           /\ pc'[u] = "register" => pos'[u] >= 1
    BY <2>1 DEF RegistryInv, RegistryTypes, Owned, Holds, Registered, InHandler, SlotOf
  <2>5. Owned' /\ Exclusive' /\ NoStaleSlot'
    BY <2>1, <2>3, <2>4, TableKept DEF table
  <2>6. SearchBelow'
    BY <2>1 DEF RegistryInv, RegistryTypes, SearchBelow, InHandler
  <2> QED BY <2>3, <2>5, <2>6 DEF RegistryInv
<1> QED BY <1>1, <1>2, <1>3, <1>4, <1>5, <1>6, <1>7, <1>8, <1>9, <1>10, <1>11
        DEF RegistryNext, Pool, Handler

LEMMA RegistryInvAlways == RegistrySpec => []RegistryInv
<1>1. RegistryInit => RegistryInv
  BY InitRegistryInv
<1>2. RegistryInv /\ [RegistryNext]_registryVars => RegistryInv'
  BY StepRegistryInv
<1> QED BY <1>1, <1>2, PTL DEF RegistrySpec

-----------------------------------------------------------------------------

(* The table and the variables of the threads have their types, and no     *)
(* slot keeps the guard of a pool that is gone: a pool that is destroyed   *)
(* always takes its entry with it, at any number of threads and slots.     *)
THEOREM RegistryTypeCorrect == RegistrySpec => []RegistryTypeOK
<1>1. ASSUME RegistryInv PROVE RegistryTypeOK
  <2>1. ASSUME NEW s \in Slots
        PROVE  guard_firsts[s] \in {Nullptr} \union {GuardFirst(region[t]) : t \in Threads}
    BY <1>1, <2>1 DEF RegistryInv, Owned, NoStaleSlot
  <2> QED BY <1>1, <2>1 DEF RegistryInv, RegistryTypes, RegistryTypeOK
<1> QED BY <1>1, RegistryInvAlways, PTL

(* No two live pools ever have the same slot, and the slot of each has the *)
(* bounds of its guard: compare_exchange_strong alone is enough to share   *)
(* the table, at any number of threads, mappings and slots.                *)
THEOREM SlotsAreExclusive == RegistrySpec => []PoolsKeepTheirSlots
<1>1. RegistryInv => PoolsKeepTheirSlots
  BY DEF RegistryInv, Owned, Exclusive, Holds, PoolsKeepTheirSlots
<1> QED BY <1>1, RegistryInvAlways, PTL

(* The search does not get past the slot of the pool whose guard was hit,  *)
(* whatever the other threads register and unregister meanwhile.           *)
THEOREM GuardHitsAreFound == RegistrySpec => []GuardHitFound
<1>1. RegistryInv => GuardHitFound
  BY DEF RegistryInv, SearchBelow, InHandler, GuardHitFound
<1> QED BY <1>1, RegistryInvAlways, PTL

-----------------------------------------------------------------------------
(* What an undisturbed search knows.                                       *)

(* mmap never returns the mapping of a pool that exists.                   *)
RegionsApart == \A t, u \in Threads : t # u /\ region[t] # 0 => region[t] # region[u]

(* Since the fault no pool has come or gone, so that the address belongs to *)
(* the guard of the searching thread's pool or to none, and the words that *)
(* find_pool has compared are still those of one pool.                     *)
SearchKnows(t) ==
  /\ \A u \in Threads : pc[u] # "complete"
  /\ \A u \in Threads : Registered(u) /\ hit[t] \in Pages(region[u]) =>
       u = t /\ hit[t] = GuardFirst(region[t])
  /\ pc[t] = "match" => first[t] = guard_firsts[pos[t]] /\ first[t] # Nullptr
  /\ pc[t] = "found" => /\ pos[t] \in Slots /\ guard_firsts[pos[t]] # Nullptr
                        /\ guard_firsts[pos[t]] <= hit[t] /\ hit[t] < guard_lasts[pos[t]]

Undisturbed == \A t \in Threads : InHandler(t) /\ ~disturbed[t] => SearchKnows(t)

LEMMA InitUndisturbed == RegistryInit => RegionsApart /\ Undisturbed
BY DEF RegistryInit, RegionsApart, Undisturbed, InHandler

LEMMA StepRegions == RegistryInv /\ RegionsApart /\ [RegistryNext]_registryVars => RegionsApart'
<1> SUFFICES ASSUME RegistryInv, RegionsApart, [RegistryNext]_registryVars PROVE RegionsApart'
  OBVIOUS
<1>0. region \in [Threads -> Regions \union {0}]
  BY DEF RegistryInv, RegistryTypes
<1>1. ASSUME NEW t \in Threads, NEW r \in Regions, Map(t, r) PROVE RegionsApart'
  BY <1>0, <1>1 DEF Map, RegionsApart
<1>2. ASSUME NEW t \in Threads, Unmap(t) PROVE RegionsApart'
  BY <1>0, <1>2 DEF Unmap, RegionsApart
<1>3. CASE region' = region
  BY <1>3 DEF RegionsApart
<1> QED
  BY <1>1, <1>2, <1>3
     DEF RegistryNext, Pool, Handler, TakeSlot, SkipSlot, NoSlot, Complete, Unregister, Segv, LoadFirst,
         LoadLast, NotFound, EndProcess, Return, registryVars

(* The guard of a pool is in the pages of no other.                        *)
LEMMA GuardOfOnePool ==
  ASSUME NEW r \in Regions, NEW s \in Regions, GuardFirst(r) \in Pages(s)
  PROVE  s = r
<1>1. r \in Nat /\ s \in Nat
  BY RegistryAssumption
<1>2. 2 * r = 2 * s \/ 2 * r = 2 * s + 1
  BY DEF Pages, GuardFirst, GuardLast
<1> QED BY <1>1, <1>2

(* A change of the table disturbs every search under way.                  *)
LEMMA TableDisturbs ==
  ASSUME RegistryInv, Disturb, \A u \in Threads : InHandler(u)' <=> InHandler(u)
  PROVE  Undisturbed'
BY Zenon DEF Disturb, Undisturbed

(* What a step leaves alone, when it is not one of the search's thread.    *)
LEMMA OtherKnows ==
  ASSUME RegistryInv, Undisturbed, UNCHANGED table, NEW u \in Threads,
         pc'[u] = pc[u], pos'[u] = pos[u], hit'[u] = hit[u], first'[u] = first[u],
         disturbed'[u] = disturbed[u], InHandler(u)', ~disturbed'[u],
         \A v \in Threads : pc'[v] = "complete" => pc[v] = "complete",
         \A v \in Threads : Registered(v)' => Registered(v) /\ region'[v] = region[v]
  PROVE  SearchKnows(u)'
<1>1. InHandler(u) /\ ~disturbed[u] /\ InHandler(u)'
  BY DEF InHandler
<1>2. SearchKnows(u) /\ Registered(u) /\ Registered(u)'
  BY <1>1 DEF Undisturbed, Registered
<1>3. region'[u] = region[u]
  BY <1>2
<1> QED BY <1>2, <1>3 DEF SearchKnows, table

LEMMA StepUndisturbed ==
  RegistryInv /\ RegionsApart /\ Undisturbed /\ [RegistryNext]_registryVars => Undisturbed'
<1> SUFFICES ASSUME RegistryInv, RegionsApart, Undisturbed, [RegistryNext]_registryVars PROVE Undisturbed'
  OBVIOUS
<1>0. /\ pc \in [Threads -> {"outside", "register", "complete", "use", "unmap",
                             "find", "match", "found", "npos"}]
      /\ region \in [Threads -> Regions \union {0}] /\ pos \in [Threads -> 0..MaxPools + 1]
      /\ hit \in [Threads -> Nat] /\ first \in [Threads -> Nat]
      /\ disturbed \in [Threads -> BOOLEAN]
  BY DEF RegistryInv, RegistryTypes
<1>1. ASSUME NEW t \in Threads, TakeSlot(t) \/ Complete(t) \/ Unregister(t) PROVE Undisturbed'
  <2>1. Disturb
    BY <1>1 DEF TakeSlot, Complete, Unregister
  <2>2. \A u \in Threads : InHandler(u)' <=> InHandler(u)
    BY <1>0, <1>1 DEF TakeSlot, Complete, Unregister, Goto, InHandler
  <2> QED BY <2>1, <2>2, TableDisturbs
<1>2. ASSUME NEW t \in Threads, \/ \E r \in Regions : Map(t, r)
                                \/ SkipSlot(t) \/ NoSlot(t) \/ Unmap(t) \/ EndProcess(t)
      PROVE Undisturbed'
  <2> SUFFICES ASSUME NEW u \in Threads, InHandler(u)', ~disturbed'[u] PROVE SearchKnows(u)'
    BY DEF Undisturbed
  <2>1. /\ UNCHANGED table /\ UNCHANGED <<hit, first, disturbed>>
        /\ \A v \in Threads : pc'[v] = "complete" => pc[v] = "complete"
        /\ \A v \in Threads : InHandler(v)' => pc'[v] = pc[v] /\ pos'[v] = pos[v]
        /\ \A v \in Threads : Registered(v)' => Registered(v) /\ region'[v] = region[v]
    BY <1>0, <1>2 DEF Map, SkipSlot, NoSlot, Unmap, EndProcess, Goto, InHandler, Registered, search
  <2> QED BY <2>1, OtherKnows
<1>3. CASE UNCHANGED registryVars
  <2> SUFFICES ASSUME NEW u \in Threads, InHandler(u)', ~disturbed'[u] PROVE SearchKnows(u)'
    BY DEF Undisturbed
  <2>1. /\ UNCHANGED table /\ UNCHANGED <<hit, first, disturbed, pc, pos, region>>
        /\ \A v \in Threads : Registered(v)' => Registered(v)
    BY <1>3 DEF registryVars, search, Registered, InHandler
  <2> QED BY <2>1, OtherKnows
<1>4. ASSUME NEW t \in Threads, LoadFirst(t) \/ LoadLast(t) \/ NotFound(t) PROVE Undisturbed'
  <2>1. /\ UNCHANGED table /\ UNCHANGED <<hit, disturbed, region>> /\ InHandler(t)
        /\ \A v \in Threads : v # t => pc'[v] = pc[v] /\ pos'[v] = pos[v] /\ first'[v] = first[v]
        /\ \A v \in Threads : pc'[v] = "complete" => pc[v] = "complete"
        /\ \A v \in Threads : Registered(v)' <=> Registered(v)
    BY <1>0, <1>4 DEF LoadFirst, LoadLast, NotFound, Goto, InHandler, Registered, search
  <2>2. ASSUME ~disturbed'[t] PROVE SearchKnows(t)'
    <3>1. SearchKnows(t)
      BY <2>1, <2>2 DEF Undisturbed
    <3>2. CASE LoadFirst(t)
      BY <1>0, <2>1, <3>1, <3>2 DEF LoadFirst, Goto, SearchKnows, table
    <3>3. CASE LoadLast(t)
      <4>1. pos[t] \in Slots
        BY <3>3 DEF LoadLast, RegistryInv, RegistryTypes, SearchBelow, InHandler, Slots
      <4> QED BY <1>0, <2>1, <3>1, <3>3, <4>1 DEF LoadLast, Matches, Goto, SearchKnows, table, search
    <3>4. CASE NotFound(t)
      BY <1>0, <2>1, <3>1, <3>4 DEF NotFound, Goto, SearchKnows, table, search
    <3> QED BY <1>4, <3>2, <3>3, <3>4
  <2>3. ASSUME NEW u \in Threads, u # t, InHandler(u)', ~disturbed'[u] PROVE SearchKnows(u)'
    BY <2>1, <2>3, OtherKnows
  <2> QED BY <2>2, <2>3 DEF Undisturbed
<1>5. ASSUME NEW t \in Threads, NEW a \in Nat, Segv(t, a) PROVE Undisturbed'
  <2>1. /\ UNCHANGED table /\ UNCHANGED <<first, region>> /\ pc[t] = "use" /\ pc'[t] = "find"
        /\ \A v \in Threads : v # t => pc'[v] = pc[v] /\ pos'[v] = pos[v] /\ hit'[v] = hit[v]
        /\ \A v \in Threads : pc'[v] = "complete" <=> pc[v] = "complete"
        /\ \A v \in Threads : Registered(v)' <=> Registered(v)
        /\ hit'[t] = a
    BY <1>0, <1>5 DEF Segv, Goto, InHandler, Registered
  <2>2. /\ disturbed'[t] <=> \E u \in Threads : pc[u] = "complete"
        /\ \A v \in Threads : v # t => disturbed'[v] = disturbed[v]
    BY <1>0, <1>5, Zenon DEF Segv
  <2>3. ASSUME ~disturbed'[t] PROVE SearchKnows(t)'
    <3>1. \A u \in Threads : pc'[u] # "complete"
      BY <2>1, <2>2, <2>3
    <3>2. ASSUME NEW u \in Threads, Registered(u), a \in Pages(region[u])
          PROVE  u = t /\ a = GuardFirst(region[t])
      <4>1. region[u] \in Regions /\ region[t] \in Regions /\ region[u] # 0
        BY <2>1, <3>2, RegistryAssumption DEF RegistryInv, Owned, Registered, InHandler
      <4>2. a \in Mapped
        BY <3>2, <4>1 DEF Mapped
      <4>3. a = GuardFirst(region[t])
        BY <1>5, <4>2 DEF Segv
      <4>4. region[u] = region[t]
        BY <3>2, <4>1, <4>3, GuardOfOnePool
      <4> QED BY <4>1, <4>3, <4>4 DEF RegionsApart
    <3> QED BY <2>1, <3>1, <3>2 DEF SearchKnows
  <2>4. ASSUME NEW u \in Threads, u # t, InHandler(u)', ~disturbed'[u] PROVE SearchKnows(u)'
    BY <2>1, <2>2, <2>4, OtherKnows
  <2> QED BY <2>3, <2>4 DEF Undisturbed
<1>6. ASSUME NEW t \in Threads, Return(t) PROVE Undisturbed'
  <2>1. /\ UNCHANGED table /\ UNCHANGED region /\ pc[t] = "npos" /\ pc'[t] = "use"
        /\ \A v \in Threads : v # t => /\ pc'[v] = pc[v] /\ pos'[v] = pos[v] /\ hit'[v] = hit[v]
                                       /\ first'[v] = first[v] /\ disturbed'[v] = disturbed[v]
    BY <1>0, <1>6 DEF Return, Goto
  <2>2. /\ ~InHandler(t)' /\ \A v \in Threads : pc'[v] = "complete" => pc[v] = "complete"
        /\ \A v \in Threads : Registered(v)' => Registered(v)
    BY <2>1 DEF InHandler, Registered
  <2>3. ASSUME NEW u \in Threads, InHandler(u)', ~disturbed'[u] PROVE SearchKnows(u)'
    BY <2>1, <2>2, <2>3, OtherKnows
  <2> QED BY <2>3 DEF Undisturbed
<1>7. \A r \in Regions : Pages(r) \subseteq Nat
  BY GuardTypes DEF Pages
<1> QED BY <1>1, <1>2, <1>3, <1>4, <1>5, <1>6, <1>7 DEF RegistryNext, Pool, Handler

(* An undisturbed search ends with the pool whose guard was hit, and never *)
(* with a pool for an address that is in no guard (find_pool).             *)
THEOREM RightPoolIsBlamed == RegistrySpec => []BlamesRightPool
<1>1. ASSUME RegistryInv, Undisturbed PROVE BlamesRightPool
  <2> SUFFICES ASSUME NEW t \in Threads, pc[t] = "found", ~disturbed[t]
               PROVE  hit[t] = GuardFirst(region[t]) /\ pos[t] = slot[t]
    BY DEF BlamesRightPool
  <2>1. SearchKnows(t) /\ InHandler(t)
    BY <1>1 DEF Undisturbed, InHandler
  <2>2. PICK u \in Threads : Holds(u) /\ SlotOf(u) = pos[t]
    BY <1>1, <2>1 DEF SearchKnows, RegistryInv, NoStaleSlot
  <2>3. Registered(u) /\ region[u] \in Regions
    BY <1>1, <2>1, <2>2 DEF SearchKnows, Holds, RegistryInv, Owned, Registered, InHandler
  <2>4. GuardFirst(region[u]) <= hit[t] /\ hit[t] < GuardLast(region[u]) /\ hit[t] \in Nat
    BY <1>1, <2>1, <2>2, <2>3 DEF SearchKnows, RegistryInv, Owned, RegistryTypes
  <2>5. hit[t] \in Pages(region[u])
    BY <2>3, <2>4, RegistryAssumption DEF Pages, GuardFirst, GuardLast
  <2> QED BY <2>1, <2>2, <2>3, <2>5 DEF SearchKnows, SlotOf
<1>2. RegistryInv /\ RegionsApart /\ Undisturbed /\ [RegistryNext]_registryVars => RegionsApart' /\ Undisturbed'
  BY StepRegions, StepUndisturbed
<1> QED BY <1>1, <1>2, InitUndisturbed, RegistryInvAlways, PTL DEF RegistrySpec

(***************************************************************************)
(* SafeRead                                                                *)
(*                                                                         *)
(* While reads do not overlap (Calm) there is at most one reader; where it *)
(* stands says what the dispositions are and what has been kept of the old *)
(* ones, and a fault that is being handled is that of the reader, at the   *)
(* address it has announced, or that of a probe whose handler has been     *)
(* kept.                                                                   *)
(***************************************************************************)

\* sig_handler is installed for s, respectively the old disposition of s is kept in
\* prev, by the reader t.
Installed(t, s) ==
  \/ th[t].pc = "install" /\ s = "SIGBUS" /\ th[t].sig = "SIGSEGV"
  \/ th[t].pc = "save" /\ (s = "SIGBUS" \/ th[t].sig = "SIGSEGV")
  \/ th[t].pc = "restore" /\ (s = "SIGSEGV" \/ th[t].sig = "SIGBUS")
  \/ th[t].pc \in {"arm", "setjmp", "read", "handler"}
Kept(t, s) ==
  th[t].pc \in {"install", "save"} => s = "SIGBUS" /\ th[t].sig = "SIGSEGV"

OneReader == \A t, u \in Callers : Reading(t) /\ Reading(u) => t = u

ActionIs ==
  /\ Idle => \A s \in Signals : action[s] = wanted[s]
  /\ \A t \in Callers : Reading(t) =>
       \A s \in Signals : IF Installed(t, s) THEN action[s] = "sig_handler"
                                             ELSE action[s] = wanted[s]
PrevIs ==
  \A t \in Callers : Reading(t) =>
    /\ \A s \in Signals : Kept(t, s) => prev[s] = wanted[s]
    /\ th[t].pc = "save" => th[t].old = wanted[th[t].sig]
Announced ==
  \A t \in Callers : Reading(t) =>
    /\ th[t].pc \in {"setjmp", "read", "handler"} => savedPtr = th[t].ptr
    /\ th[t].pc \in {"read", "handler"} => env = t
MaskIs ==
  \A t \in Callers :
    /\ th[t].blocked = IF th[t].pc = "handler" THEN {th[t].sig} ELSE {}
    /\ th[t].pc = "idle" => th[t].sig = "SIGBUS"
ProbesRecover ==
  \A t \in Callers : Probing(t) =>
    /\ wanted[SignalOf(th[t].ptr)] = "custom"
    /\ th[t].pc = "handler" => /\ th[t].sig = SignalOf(th[t].ptr)
                               /\ InSave(th[t].sig) \/ prev[th[t].sig] = "custom"

Calm == ~overlapped /\ status = "running"
Orderly == OneReader /\ ActionIs /\ PrevIs /\ Announced /\ MaskIs /\ ProbesRecover
ReadsInv == ReadsTypeOK /\ (Calm => Orderly) /\ OnlyRacesEnd /\ HandlersComeBack
-----------------------------------------------------------------------------
(* Types.                                                                  *)

\* A fault leads into the handler, out of a probe, or to the end.
LEMMA FaultType ==
  ASSUME ReadsTypeOK, NEW t \in Callers, AccessFaults(t), th[t].pc \in {"read", "probe"}
  PROVE  ReadsTypeOK'
<1> DEFINE s == SignalOf(th[t].ptr)
<1>1. s \in Signals
  BY DEF SignalOf, Signals
<1>2. th' \in [Callers -> ThreadStates] /\ status' \in {"running", "killed", "undefined"}
  BY <1>1 DEF AccessFaults, ReadsTypeOK, ThreadStates, Outside, Signals, Dispositions, Programs
<1> QED BY <1>2 DEF AccessFaults, ReadsTypeOK, statics, ghosts

LEMMA HandleType ==
  ASSUME ReadsTypeOK, NEW t \in Callers, Handle(t)
  PROVE  ReadsTypeOK'
<1>1. CASE JumpBack(t)
  BY <1>1 DEF Handle, JumpBack, ReadsTypeOK, ThreadStates, AfterJump, MaskAfterJump, statics, Signals
<1>2. CASE PassOn(t)
  BY <1>2 DEF Handle, PassOn, ReadsTypeOK, ThreadStates, Outside, statics, Signals, Dispositions, Programs
<1> QED BY <1>1, <1>2 DEF Handle

LEMMA StepType ==
  ASSUME ReadsTypeOK, NEW t \in Callers, Step(t)
  PROVE  ReadsTypeOK'
<1> USE DEF ReadsTypeOK
<1>t. th[t] \in ThreadStates
  OBVIOUS
<1>1. CASE Install(t)
  <2>1. action[th[t].sig] \in Dispositions /\ action' \in [Signals -> Dispositions]
    BY <1>1, <1>t DEF Install, ThreadStates, Dispositions
  <2>2. th' \in [Callers -> ThreadStates]
    BY <1>1, <1>t, <2>1 DEF Install, ThreadStates
  <2> QED BY <1>1, <2>1, <2>2 DEF Install, statics, ghosts
<1>2. CASE Save(t)
  BY <1>2 DEF Save, ThreadStates, ghosts, Signals
<1>3. CASE Arm(t)
  BY <1>3 DEF Arm, ThreadStates, ghosts
<1>4. CASE Setjmp(t)
  BY <1>4 DEF Setjmp, ThreadStates, ghosts
<1>5. CASE ReadByte(t)
  <2>1. th[t].ptr \in Readable \union {None} /\ "SIGBUS" \in Signals
    BY <1>5 DEF ReadByte, Signals
  <2>2. th' \in [Callers -> ThreadStates]
    BY <1>5, <1>t, <2>1 DEF ReadByte, ByteAt, ThreadStates
  <2> QED BY <1>5, <2>2 DEF ReadByte, statics, ghosts
<1>6. CASE ReadFaults(t)
  BY <1>6, FaultType DEF ReadFaults
<1>7. CASE Restore(t)
  <2>1. prev[th[t].sig] \in Dispositions /\ action' \in [Signals -> Dispositions]
    BY <1>7, <1>t DEF Restore, Restored, ThreadStates
  <2>2. th' \in [Callers -> ThreadStates]
    BY <1>7, <1>t DEF Restore, Outside, ThreadStates, Signals, Dispositions, Programs
  <2> QED BY <1>7, <2>1, <2>2 DEF Restore, statics, ghosts
<1>8. CASE Handle(t)
  BY <1>8, HandleType
<1>9. CASE Probe(t)
  BY <1>9, FaultType DEF Probe
<1> QED BY <1>1, <1>2, <1>3, <1>4, <1>5, <1>6, <1>7, <1>8, <1>9 DEF Step

LEMMA NextType ==
  ASSUME ReadsTypeOK, [ReadsNext]_readVars
  PROVE  ReadsTypeOK'
<1>1. CASE UNCHANGED readVars
  BY <1>1 DEF ReadsTypeOK, readVars, statics, ghosts
<1>2. ASSUME NEW t \in Callers, CallRead(t) PROVE ReadsTypeOK'
  <2>1. th[t] \in ThreadStates
    BY DEF ReadsTypeOK
  <2>2. CASE UNCHANGED overlapped /\ th' = [th EXCEPT ![t].answer = None]
    BY <1>2, <2>1, <2>2 DEF CallRead, ReadsTypeOK, ThreadStates, statics
  <2>3. ASSUME NEW a \in Canonical, overlapped' = (overlapped \/ ~Idle),
               th' = [th EXCEPT ![t].pc = "install", ![t].ptr = a, ![t].answer = None]
        PROVE  ReadsTypeOK'
    <3>1. th' \in [Callers -> ThreadStates]
      BY <2>1, <2>3 DEF ReadsTypeOK, ThreadStates
    <3> QED BY <1>2, <2>3, <3>1 DEF CallRead, ReadsTypeOK, statics
  <2> QED BY <1>2, <2>2, <2>3 DEF CallRead
<1>3. ASSUME NEW t \in Callers, SetDisposition(t) PROVE ReadsTypeOK'
  BY <1>3 DEF SetDisposition, ReadsTypeOK, statics, Dispositions
<1>4. ASSUME NEW t \in Callers, StartProbe(t) PROVE ReadsTypeOK'
  <2>1. th[t] \in ThreadStates
    BY DEF ReadsTypeOK
  <2>2. PICK a \in Canonical : th' = [th EXCEPT ![t].pc = "probe", ![t].ptr = a]
    BY <1>4 DEF StartProbe, Canonical
  <2>3. th' \in [Callers -> ThreadStates]
    BY <2>1, <2>2 DEF ReadsTypeOK, ThreadStates
  <2> QED BY <1>4, <2>3 DEF StartProbe, ReadsTypeOK, statics, ghosts
<1> QED BY <1>1, <1>2, <1>3, <1>4, StepType DEF ReadsNext
-----------------------------------------------------------------------------
(* The invariant.                                                          *)

LEMMA InstallStep ==
  ASSUME ReadsInv, ReadsTypeOK', status = "running", NEW t \in Callers, Install(t)
  PROVE  ReadsInv'
<1>1. th[t] \in ThreadStates /\ th[t].pc = "install" /\ DOMAIN th = Callers
  BY DEF ReadsInv, ReadsTypeOK, Install
<1>2. /\ th'[t].pc = "save" /\ th'[t].sig = th[t].sig /\ th'[t].ptr = th[t].ptr
      /\ th'[t].old = action[th[t].sig] /\ th'[t].blocked = th[t].blocked
      /\ \A u \in Callers : u # t => th'[u] = th[u]
  BY <1>1 DEF Install, ThreadStates
<1>3. Reading(t) /\ Reading(t)' /\ ~Idle' /\ status' = "running" /\ UNCHANGED <<statics, ghosts>>
  BY <1>1, <1>2 DEF Reading, Idle, Install
<1>4. ASSUME ~overlapped PROVE Orderly'
  <2>0. Orderly
    BY <1>3, <1>4 DEF ReadsInv, Calm
  <2>1. OneReader'
    BY <2>0, <1>1, <1>2, <1>3 DEF Orderly, OneReader, Reading
  <2>2. action = [s \in Signals |-> action[s]] /\ \A s \in Signals :
           action'[s] = IF s = th[t].sig THEN "sig_handler" ELSE action[s]
    BY DEF ReadsInv, ReadsTypeOK, Install
  <2>3. ActionIs'
    BY <2>0, <2>1, <2>2, <1>1, <1>2, <1>3 DEF Orderly, ActionIs, OneReader, Installed, ghosts, ThreadStates, Signals
  <2>4. PrevIs'
    BY <2>0, <2>1, <1>1, <1>2, <1>3 DEF Orderly, ActionIs, PrevIs, OneReader, Installed, Kept, statics, ghosts, ThreadStates, Signals
  <2>5. Announced' /\ MaskIs'
    BY <2>0, <2>1, <1>1, <1>2, <1>3 DEF Orderly, OneReader, Announced, MaskIs, statics
  <2>6. ProbesRecover'
    BY <2>0, <1>1, <1>2, <1>3 DEF Orderly, ProbesRecover, Probing, InSave, statics, ghosts
  <2> QED BY <2>1, <2>3, <2>4, <2>5, <2>6 DEF Orderly
<1> QED BY <1>3, <1>4 DEF ReadsInv, Calm, OnlyRacesEnd, HandlersComeBack, ghosts

LEMMA SaveStep ==
  ASSUME ReadsInv, ReadsTypeOK', status = "running", NEW t \in Callers, Save(t)
  PROVE  ReadsInv'
<1>1. th[t] \in ThreadStates /\ th[t].pc = "save" /\ DOMAIN th = Callers
  BY DEF ReadsInv, ReadsTypeOK, Save
<1>2. /\ th'[t].pc = IF th[t].sig = "SIGBUS" THEN "install" ELSE "arm"
      /\ th'[t].sig = "SIGSEGV" /\ th'[t].ptr = th[t].ptr /\ th'[t].blocked = th[t].blocked
      /\ \A u \in Callers : u # t => th'[u] = th[u]
  BY <1>1 DEF Save, ThreadStates, Signals
<1>3. /\ Reading(t) /\ Reading(t)' /\ ~Idle' /\ status' = "running"
      /\ UNCHANGED <<action, savedPtr, env, ghosts>>
  BY <1>1, <1>2 DEF Reading, Idle, Save
<1>4. \A s \in Signals : prev'[s] = IF s = th[t].sig THEN th[t].old ELSE prev[s]
  BY DEF ReadsInv, ReadsTypeOK, Save
<1>5. ASSUME ~overlapped PROVE Orderly'
  <2>0. Orderly
    BY <1>3, <1>5 DEF ReadsInv, Calm
  <2>1. OneReader'
    BY <2>0, <1>1, <1>2, <1>3 DEF Orderly, OneReader, Reading
  <2>2. ActionIs'
    BY <2>0, <2>1, <1>1, <1>2, <1>3 DEF Orderly, ActionIs, OneReader, Installed, ghosts, ThreadStates, Signals
  <2>3. PrevIs'
    BY <2>0, <2>1, <1>1, <1>2, <1>3, <1>4 DEF Orderly, PrevIs, OneReader, Kept, ghosts, ThreadStates, Signals
  <2>4. Announced' /\ MaskIs'
    BY <2>0, <2>1, <1>1, <1>2, <1>3, ZenonT(30) DEF Orderly, OneReader, Announced, MaskIs
  <2>5. ASSUME NEW u \in Callers, Probing(u)'
        PROVE  /\ wanted'[SignalOf(th'[u].ptr)] = "custom"
               /\ th'[u].pc = "handler" => /\ th'[u].sig = SignalOf(th'[u].ptr)
                                           /\ InSave(th[u].sig)' \/ prev'[th'[u].sig] = "custom"
    <3>1. u # t /\ th'[u] = th[u] /\ Probing(u) /\ th[u].sig \in Signals
      BY <1>1, <1>2, <2>5 DEF Probing, ReadsInv, ReadsTypeOK, ThreadStates
    <3>2. wanted[SignalOf(th[u].ptr)] = "custom" /\ th[t].old = wanted[th[t].sig]
      BY <2>0, <1>1, <1>3, <3>1 DEF Orderly, ProbesRecover, PrevIs
    <3>3. ASSUME th[u].pc = "handler", th[u].sig # th[t].sig, InSave(th[u].sig)
          PROVE  InSave(th[u].sig)'
      BY <1>1, <1>2, <3>3 DEF InSave
    <3> QED BY <2>0, <1>3, <1>4, <3>1, <3>2, <3>3 DEF Orderly, ProbesRecover, ghosts
  <2>6. ProbesRecover'
    BY <2>5, <1>1, <1>2, <1>3 DEF ProbesRecover, InSave, SignalOf, Probing
  <2> QED BY <2>1, <2>2, <2>3, <2>4, <2>6 DEF Orderly
<1> QED BY <1>3, <1>5 DEF ReadsInv, Calm, OnlyRacesEnd, HandlersComeBack, ghosts

LEMMA ArmStep ==
  ASSUME ReadsInv, ReadsTypeOK', status = "running", NEW t \in Callers, Arm(t)
  PROVE  ReadsInv'
<1>1. th[t] \in ThreadStates /\ th[t].pc = "arm" /\ DOMAIN th = Callers
  BY DEF ReadsInv, ReadsTypeOK, Arm
<1>2. /\ th'[t].pc = "setjmp" /\ th'[t].sig = th[t].sig
      /\ th'[t].ptr = th[t].ptr /\ th'[t].blocked = th[t].blocked
      /\ \A u \in Callers : u # t => th'[u] = th[u]
  BY <1>1 DEF Arm, ThreadStates
<1>3. /\ Reading(t) /\ Reading(t)' /\ ~Idle' /\ status' = "running"
      /\ UNCHANGED <<action, prev, env, ghosts>>
  BY <1>1, <1>2 DEF Reading, Idle, Arm, statics
<1>4. ASSUME ~overlapped PROVE Orderly'
  <2>0. Orderly
    BY <1>3, <1>4 DEF ReadsInv, Calm
  <2>1. OneReader'
    BY <2>0, <1>1, <1>2, <1>3 DEF Orderly, OneReader, Reading
  <2>2. ActionIs'
    BY <2>0, <2>1, <1>1, <1>2, <1>3 DEF Orderly, ActionIs, OneReader, Installed, ghosts, ThreadStates, Signals
  <2>3. PrevIs'
    BY <2>0, <2>1, <1>1, <1>2, <1>3 DEF Orderly, PrevIs, OneReader, Kept, ghosts, ThreadStates, Signals
  <2>4. Announced' /\ MaskIs'
    BY <2>0, <2>1, <1>1, <1>2, <1>3 DEF Orderly, OneReader, Announced, MaskIs, Arm
  <2>5. ProbesRecover'
    BY <2>0, <1>1, <1>2, <1>3 DEF Orderly, ProbesRecover, Probing, InSave, ghosts
  <2> QED BY <2>1, <2>2, <2>3, <2>4, <2>5 DEF Orderly
<1> QED BY <1>3, <1>4 DEF ReadsInv, Calm, OnlyRacesEnd, HandlersComeBack, ghosts

LEMMA SetjmpStep ==
  ASSUME ReadsInv, ReadsTypeOK', status = "running", NEW t \in Callers, Setjmp(t)
  PROVE  ReadsInv'
<1>1. th[t] \in ThreadStates /\ th[t].pc = "setjmp" /\ DOMAIN th = Callers
  BY DEF ReadsInv, ReadsTypeOK, Setjmp
<1>2. /\ th'[t].pc = "read" /\ th'[t].sig = th[t].sig
      /\ th'[t].ptr = th[t].ptr /\ th'[t].blocked = th[t].blocked
      /\ \A u \in Callers : u # t => th'[u] = th[u]
  BY <1>1 DEF Setjmp, ThreadStates
<1>3. /\ Reading(t) /\ Reading(t)' /\ ~Idle' /\ status' = "running"
      /\ UNCHANGED <<action, prev, savedPtr, ghosts>>
  BY <1>1, <1>2 DEF Reading, Idle, Setjmp, statics
<1>4. ASSUME ~overlapped PROVE Orderly'
  <2>0. Orderly
    BY <1>3, <1>4 DEF ReadsInv, Calm
  <2>1. OneReader'
    BY <2>0, <1>1, <1>2, <1>3 DEF Orderly, OneReader, Reading
  <2>2. ActionIs'
    BY <2>0, <2>1, <1>1, <1>2, <1>3 DEF Orderly, ActionIs, OneReader, Installed, ghosts, ThreadStates, Signals
  <2>3. PrevIs'
    BY <2>0, <2>1, <1>1, <1>2, <1>3 DEF Orderly, PrevIs, OneReader, Kept, ghosts, ThreadStates, Signals
  <2>4. Announced' /\ MaskIs'
    BY <2>0, <2>1, <1>1, <1>2, <1>3 DEF Orderly, OneReader, Announced, MaskIs, Setjmp
  <2>5. ProbesRecover'
    BY <2>0, <1>1, <1>2, <1>3 DEF Orderly, ProbesRecover, Probing, InSave, ghosts
  <2> QED BY <2>1, <2>2, <2>3, <2>4, <2>5 DEF Orderly
<1> QED BY <1>3, <1>4 DEF ReadsInv, Calm, OnlyRacesEnd, HandlersComeBack, ghosts

LEMMA ReadByteStep ==
  ASSUME ReadsInv, ReadsTypeOK', status = "running", NEW t \in Callers, ReadByte(t)
  PROVE  ReadsInv'
<1>1. th[t] \in ThreadStates /\ th[t].pc = "read" /\ DOMAIN th = Callers
  BY DEF ReadsInv, ReadsTypeOK, ReadByte
<1>2. /\ th'[t].pc = "restore" /\ th'[t].sig = "SIGBUS"
      /\ th'[t].ptr = th[t].ptr /\ th'[t].blocked = th[t].blocked
      /\ \A u \in Callers : u # t => th'[u] = th[u]
  BY <1>1 DEF ReadByte, ThreadStates
<1>3. /\ Reading(t) /\ Reading(t)' /\ ~Idle' /\ status' = "running"
      /\ UNCHANGED <<action, prev, savedPtr, env, ghosts>>
  BY <1>1, <1>2 DEF Reading, Idle, ReadByte, statics
<1>4. ASSUME ~overlapped PROVE Orderly'
  <2>0. Orderly
    BY <1>3, <1>4 DEF ReadsInv, Calm
  <2>1. OneReader'
    BY <2>0, <1>1, <1>2, <1>3 DEF Orderly, OneReader, Reading
  <2>2. ActionIs'
    BY <2>0, <2>1, <1>1, <1>2, <1>3 DEF Orderly, ActionIs, OneReader, Installed, ghosts, ThreadStates, Signals
  <2>3. PrevIs'
    BY <2>0, <2>1, <1>1, <1>2, <1>3 DEF Orderly, PrevIs, OneReader, Kept, ghosts, ThreadStates, Signals
  <2>4. Announced' /\ MaskIs'
    BY <2>0, <2>1, <1>1, <1>2, <1>3 DEF Orderly, OneReader, Announced, MaskIs, ReadByte
  <2>5. ProbesRecover'
    BY <2>0, <1>1, <1>2, <1>3 DEF Orderly, ProbesRecover, Probing, InSave, ghosts
  <2> QED BY <2>1, <2>2, <2>3, <2>4, <2>5 DEF Orderly
<1> QED BY <1>3, <1>4 DEF ReadsInv, Calm, OnlyRacesEnd, HandlersComeBack, ghosts

\* What a thread does that reads neither before nor after leaves the reader alone.
LEMMA BesideReaders ==
  ASSUME ReadsInv, Calm, NEW t \in Callers, ~Reading(t), ~Reading(t)',
         \A u \in Callers : u # t => th'[u] = th[u],
         UNCHANGED <<action, prev, savedPtr, env, wanted>>
  PROVE  OneReader' /\ ActionIs' /\ PrevIs' /\ Announced' /\ (Idle' <=> Idle)
<1>1. OneReader /\ ActionIs /\ PrevIs /\ Announced
  BY DEF ReadsInv, Orderly
<1>2. \A u \in Callers : (Reading(u)' <=> Reading(u)) /\ (Reading(u) => th'[u] = th[u])
  BY DEF Reading
<1>3. Idle' <=> Idle
  BY <1>2 DEF Idle
<1>4. OneReader' /\ Announced'
  BY <1>1, <1>2 DEF OneReader, Announced
<1>5. ActionIs'
  BY <1>1, <1>2, <1>3 DEF ActionIs, Installed
<1>6. PrevIs'
  BY <1>1, <1>2 DEF PrevIs, Kept
<1> QED BY <1>3, <1>4, <1>5, <1>6

LEMMA ReadFaultsStep ==
  ASSUME ReadsInv, ReadsTypeOK', status = "running", NEW t \in Callers, ReadFaults(t)
  PROVE  ReadsInv'
<1> DEFINE s == SignalOf(th[t].ptr)
<1>1. /\ th[t] \in ThreadStates /\ th[t].pc = "read" /\ DOMAIN th = Callers /\ s \in Signals
      /\ UNCHANGED <<action, prev, savedPtr, env, ghosts>> /\ Reading(t)
  BY DEF ReadsInv, ReadsTypeOK, ReadFaults, AccessFaults, statics, SignalOf, Signals, Reading
<1>2. CASE overlapped
  BY <1>1, <1>2 DEF ReadsInv, Calm, OnlyRacesEnd, HandlersComeBack, ghosts
<1>3. CASE ~overlapped
  <2>0. Orderly
    BY <1>3 DEF ReadsInv, Calm
  <2>1. action[s] = "sig_handler" /\ th[t].blocked = {} /\ savedPtr = th[t].ptr /\ env = t
    BY <2>0, <1>1 DEF Orderly, ActionIs, Installed, MaskIs, Announced
  <2>2. /\ th'[t].pc = "handler" /\ th'[t].from = "read" /\ th'[t].sig = s
        /\ th'[t].ptr = th[t].ptr /\ th'[t].blocked = {s}
        /\ \A u \in Callers : u # t => th'[u] = th[u]
    BY <2>1, <1>1 DEF ReadFaults, AccessFaults, ThreadStates
  <2>3. Reading(t)' /\ ~Idle' /\ status' = "running"
    BY <2>1, <2>2 DEF ReadFaults, AccessFaults, Reading, Idle
  <2>4. OneReader'
    BY <2>0, <1>1, <2>2, <2>3 DEF Orderly, OneReader, Reading
  <2>5. ActionIs'
    BY <2>0, <1>1, <2>2, <2>3, <2>4 DEF Orderly, ActionIs, OneReader, Installed, ghosts
  <2>6. PrevIs'
    BY <2>0, <1>1, <2>2, <2>3, <2>4 DEF Orderly, PrevIs, OneReader, Kept, ghosts
  <2>7. Announced'
    BY <1>1, <2>1, <2>2, <2>3, <2>4 DEF OneReader, Announced
  <2>10. MaskIs'
    BY <2>0, <2>2 DEF Orderly, MaskIs
  <2>8. ProbesRecover'
    BY <2>0, <1>1, <2>2, <2>3 DEF Orderly, ProbesRecover, Probing, InSave, ghosts
  <2>9. Orderly'
    BY <2>4, <2>5, <2>6, <2>7, <2>8, <2>10 DEF Orderly
  <2> QED BY <1>1, <2>3, <2>9 DEF ReadsInv, Calm, OnlyRacesEnd, HandlersComeBack
<1> QED BY <1>2, <1>3

LEMMA ProbeStep ==
  ASSUME ReadsInv, ReadsTypeOK', status = "running", NEW t \in Callers, Probe(t)
  PROVE  ReadsInv'
<1> DEFINE s == SignalOf(th[t].ptr)
<1>1. /\ th[t] \in ThreadStates /\ th[t].pc = "probe" /\ DOMAIN th = Callers /\ s \in Signals
      /\ UNCHANGED <<action, prev, savedPtr, env, ghosts>> /\ ~Reading(t) /\ Probing(t)
  BY DEF ReadsInv, ReadsTypeOK, Probe, AccessFaults, statics, SignalOf, Signals, Reading, Probing
<1>2. CASE overlapped
  BY <1>1, <1>2 DEF ReadsInv, Calm, OnlyRacesEnd, HandlersComeBack, ghosts
<1>3. CASE ~overlapped
  <2>0. Orderly /\ Calm
    BY <1>3 DEF ReadsInv, Calm
  <2>1. wanted[s] = "custom" /\ th[t].blocked = {}
    BY <2>0, <1>1 DEF Orderly, MaskIs, ProbesRecover
  <2>2. action[s] = "custom" \/ \E u \in Callers : Reading(u) /\ Installed(u, s) /\ action[s] = "sig_handler"
    BY <2>0, <2>1, <1>1 DEF Orderly, ActionIs, Idle
  <2>3. action[s] = "sig_handler" => InSave(s) \/ prev[s] = "custom"
    <3>1. ASSUME NEW u \in Callers, Reading(u), Installed(u, s)
          PROVE  InSave(s) \/ prev[s] = "custom"
      <4>1. Kept(u, s) \/ (th[u].pc = "save" /\ th[u].sig = s)
        BY <3>1, <1>1 DEF Kept, Installed, Signals, ReadsInv, ReadsTypeOK, ThreadStates
      <4> QED BY <4>1, <3>1, <2>0, <2>1, <1>1 DEF Orderly, PrevIs, InSave
    <3> QED BY <3>1, <2>2
  <2>4. \A u \in Callers : u # t => th'[u] = th[u]
    BY <2>1, <2>2, <1>1 DEF Probe, AccessFaults
  <2>5. status' = "running" /\ ~Reading(t)'
    BY <2>1, <2>2, <1>1 DEF Probe, AccessFaults, Reading, Outside, ThreadStates
  <2>6. OneReader' /\ ActionIs' /\ PrevIs' /\ Announced' /\ (Idle' <=> Idle)
    BY <2>0, <2>4, <2>5, <1>1, BesideReaders DEF ghosts
  <2>7. \/ th'[t].pc = "idle" /\ th'[t].blocked = {} /\ th'[t].sig = "SIGBUS"
        \/ /\ th'[t].pc = "handler" /\ th'[t].from = "probe" /\ th'[t].sig = s /\ action[s] = "sig_handler"
           /\ th'[t].ptr = th[t].ptr /\ th'[t].blocked = {s}
    BY <2>1, <2>2, <1>1 DEF Probe, AccessFaults, Outside, ThreadStates
  <2>8. MaskIs'
    <3>1. /\ th'[t].blocked = IF th'[t].pc = "handler" THEN {th'[t].sig} ELSE {}
          /\ th'[t].pc = "idle" => th'[t].sig = "SIGBUS"
      BY <2>7
    <3> QED BY <3>1, <2>0, <2>4 DEF Orderly, MaskIs
  <2>9. \A x \in Signals : InSave(x)' <=> InSave(x)
    BY <2>4, <2>7, <1>1 DEF InSave
  <2>10. ProbesRecover'
    <3>1. ASSUME NEW u \in Callers, Probing(u)'
          PROVE  /\ wanted'[SignalOf(th'[u].ptr)] = "custom"
                 /\ th'[u].pc = "handler" =>
                      /\ th'[u].sig = SignalOf(th'[u].ptr)
                      /\ InSave(th[u].sig)' \/ prev'[th'[u].sig] = "custom"
      <4>1. CASE u = t
        BY <3>1, <4>1, <1>1, <2>1, <2>3, <2>7, <2>9 DEF Probing, ghosts, InSave
      <4>2. CASE u # t
        <5>1. th'[u] = th[u] /\ th[u].sig \in Signals /\ Probing(u)
          BY <2>4, <3>1, <4>2 DEF ReadsInv, ReadsTypeOK, ThreadStates, Probing
        <5> QED BY <5>1, <2>0, <2>9, <1>1 DEF Orderly, ProbesRecover, ghosts, InSave
      <4> QED BY <4>1, <4>2
    <3> QED BY <3>1 DEF ProbesRecover, Probing, InSave, SignalOf
  <2>11. Orderly'
    BY <2>6, <2>8, <2>10 DEF Orderly
  <2> QED BY <1>1, <2>5, <2>6, <2>11 DEF ReadsInv, Calm, OnlyRacesEnd, HandlersComeBack, ghosts
<1> QED BY <1>2, <1>3

LEMMA RestoreStep ==
  ASSUME ReadsInv, ReadsTypeOK', status = "running", NEW t \in Callers, Restore(t)
  PROVE  ReadsInv'
<1>1. /\ th[t] \in ThreadStates /\ th[t].pc = "restore" /\ DOMAIN th = Callers /\ Reading(t)
      /\ \A s \in Signals : action'[s] = IF s = th[t].sig THEN prev[s] ELSE action[s]
      /\ UNCHANGED <<prev, savedPtr, env, ghosts>> /\ status' = "running"
  BY DEF ReadsInv, ReadsTypeOK, Restore, Restored, Reading, statics
<1>2. /\ th'[t].pc = IF th[t].sig = "SIGBUS" THEN "restore" ELSE "idle"
      /\ th'[t].sig = IF th[t].sig = "SIGBUS" THEN "SIGSEGV" ELSE "SIGBUS"
      /\ th'[t].blocked = th[t].blocked
      /\ \A u \in Callers : u # t => th'[u] = th[u]
  BY <1>1 DEF Restore, Outside, ThreadStates
<1>3. CASE overlapped
  BY <1>1, <1>3 DEF ReadsInv, Calm, OnlyRacesEnd, HandlersComeBack, ghosts
<1>4. CASE ~overlapped
  <2>0. Orderly
    BY <1>4 DEF ReadsInv, Calm
  <2>1. \A s \in Signals : prev[s] = wanted[s]
    BY <2>0, <1>1 DEF Orderly, PrevIs, Kept
  <2>2. OneReader'
    BY <2>0, <1>1, <1>2 DEF Orderly, OneReader, Reading
  <2>3. \A u \in Callers : Reading(u)' => u = t /\ th[t].sig = "SIGBUS"
    BY <2>0, <1>1, <1>2 DEF Orderly, OneReader, Reading
  <2>4. \A s \in Signals : Installed(t, s) \/ action[s] = wanted[s]
    BY <2>0, <1>1 DEF Orderly, ActionIs
  <2>5. Idle' => \A s \in Signals : action'[s] = wanted[s]
    <3>1. Idle' => th[t].sig = "SIGSEGV"
      BY <1>1, <1>2 DEF Idle, Reading, ThreadStates, Signals
    <3> QED BY <3>1, <2>1, <2>4, <1>1 DEF Installed, Signals
  <2>6. ActionIs'
    BY <2>0, <2>1, <2>3, <2>5, <1>1, <1>2 DEF Orderly, ActionIs, Installed, ghosts, Signals
  <2>7. PrevIs' /\ Announced'
    BY <2>1, <2>3, <1>1, <1>2 DEF PrevIs, Announced, ghosts, Kept
  <2>8. MaskIs'
    BY <2>0, <1>1, <1>2, ZenonT(60) DEF Orderly, MaskIs
  <2>9. ProbesRecover'
    BY <2>0, <1>1, <1>2 DEF Orderly, ProbesRecover, Probing, InSave, ghosts
  <2>10. Orderly'
    BY <2>2, <2>6, <2>7, <2>8, <2>9 DEF Orderly
  <2>11. HandlersComeBack'
    BY <2>5, <1>1 DEF HandlersComeBack, ReadsTypeOK, ghosts
  <2> QED BY <1>1, <2>10, <2>11 DEF ReadsInv, Calm, OnlyRacesEnd
<1> QED BY <1>3, <1>4

\* The handler of the reader's own fault jumps back.
LEMMA HandleRead ==
  ASSUME ReadsInv, ReadsTypeOK', status = "running", NEW t \in Callers, Handle(t), th[t].from = "read"
  PROVE  ReadsInv'
<1>1. /\ th[t] \in ThreadStates /\ th[t].pc = "handler" /\ DOMAIN th = Callers /\ Reading(t)
      /\ UNCHANGED <<prev, savedPtr, env, wanted, overlapped>>
  BY DEF ReadsInv, ReadsTypeOK, Handle, Reading, statics
<1>2. CASE overlapped
  BY <1>1, <1>2 DEF ReadsInv, Calm, OnlyRacesEnd, HandlersComeBack
<1>3. CASE ~overlapped
  <2>0. Orderly
    BY <1>3 DEF ReadsInv, Calm
  <2>1. savedPtr = th[t].ptr /\ env = t
    BY <2>0, <1>1 DEF Orderly, Announced
  <2>2. /\ th'[t].pc = "restore" /\ th'[t].sig = "SIGBUS" /\ th'[t].blocked = {}
        /\ \A u \in Callers : u # t => th'[u] = th[u]
        /\ status' = "running" /\ UNCHANGED action
    BY <2>1, <1>1 DEF Handle, JumpBack, PassOn, AfterJump, MaskAfterJump, ThreadStates
  <2>3. Reading(t)' /\ ~Idle'
    BY <2>2 DEF Reading, Idle
  <2>4. OneReader'
    BY <2>0, <1>1, <2>2 DEF Orderly, OneReader, Reading
  <2>5. ActionIs' /\ PrevIs' /\ Announced'
    BY <2>0, <1>1, <2>2, <2>3, <2>4
       DEF Orderly, ActionIs, PrevIs, Announced, OneReader, Installed, Kept
  <2>6. MaskIs'
    BY <2>0, <2>2 DEF Orderly, MaskIs
  <2>7. ProbesRecover'
    BY <2>0, <1>1, <2>2 DEF Orderly, ProbesRecover, Probing, InSave
  <2> QED BY <1>1, <2>2, <2>3, <2>4, <2>5, <2>6, <2>7 DEF ReadsInv, Calm, Orderly, OnlyRacesEnd, HandlersComeBack
<1> QED BY <1>2, <1>3

\* The handler of a probe's fault hands over to the program's handler, unless the
\* probe has faulted at the address of a read or before the handler was kept.
LEMMA HandleProbe ==
  ASSUME ReadsInv, ReadsTypeOK', status = "running", NEW t \in Callers, Handle(t), th[t].from = "probe"
  PROVE  ReadsInv'
<1> DEFINE s == th[t].sig
           kept == savedPtr # th[t].ptr /\ ~InSave(s)
<1>1. /\ th[t] \in ThreadStates /\ th[t].pc = "handler" /\ DOMAIN th = Callers /\ s \in Signals
      /\ ~Reading(t) /\ Probing(t)
      /\ UNCHANGED <<prev, savedPtr, env, wanted, overlapped>> /\ raced' = (raced \/ ~kept)
  BY DEF ReadsInv, ReadsTypeOK, ThreadStates, Handle, Reading, Probing, statics
<1>2. CASE overlapped
  BY <1>1, <1>2 DEF ReadsInv, Calm, OnlyRacesEnd, HandlersComeBack
<1>3. CASE ~overlapped
  <2>0. Orderly /\ Calm
    BY <1>3 DEF ReadsInv, Calm
  <2>1. kept => prev[s] = "custom"
    BY <2>0, <1>1 DEF Orderly, ProbesRecover
  <2>2. th[t].blocked = {s}
    BY <2>0, <1>1 DEF Orderly, MaskIs
  <2>3. \A u \in Callers : u # t => th'[u] = th[u]
    BY <1>1 DEF Handle, JumpBack, PassOn
  <2>4. ~Reading(t)'
    BY <1>1 DEF Handle, JumpBack, PassOn, Reading, Outside, ThreadStates
  <2>5. Idle' <=> Idle
    BY <2>3, <2>4, <1>1 DEF Idle, Reading
  <2>6. CASE status' # "running"
    <3>1. ~kept /\ (UNCHANGED action \/ InSave(s))
      BY <2>0, <2>1, <2>6, <1>1 DEF Calm, Handle, JumpBack, PassOn, Orderly, ProbesRecover
    <3>2. InSave(s) => ~Idle
      BY DEF InSave, Idle, Reading
    <3> QED BY <2>5, <2>6, <3>1, <3>2, <1>1 DEF ReadsInv, Calm, OnlyRacesEnd, HandlersComeBack
  <2>7. CASE status' = "running"
    <3>1. /\ UNCHANGED action /\ th'[t].blocked = {}
          /\ \/ th'[t].pc = "idle" /\ th'[t].sig = "SIGBUS"
             \/ th'[t].pc = "probe" /\ th'[t].ptr = th[t].ptr
      BY <2>2, <2>7, <1>1 DEF Handle, JumpBack, PassOn, Outside, ThreadStates
    <3>2. OneReader' /\ ActionIs' /\ PrevIs' /\ Announced'
      BY <2>0, <2>3, <2>4, <3>1, <1>1, BesideReaders
    <3>3. MaskIs'
      BY <2>0, <2>3, <3>1 DEF Orderly, MaskIs
    <3>4. ProbesRecover'
      BY <2>0, <2>3, <3>1, <1>1 DEF Orderly, ProbesRecover, Probing, InSave, SignalOf
    <3> QED BY <2>5, <2>7, <3>1, <3>2, <3>3, <3>4, <1>1 DEF ReadsInv, Calm, Orderly, OnlyRacesEnd, HandlersComeBack
  <2> QED BY <2>6, <2>7
<1> QED BY <1>2, <1>3

LEMMA CallReadStep ==
  ASSUME ReadsInv, ReadsTypeOK', status = "running", NEW t \in Callers, CallRead(t)
  PROVE  ReadsInv'
<1>1. /\ th[t] \in ThreadStates /\ th[t].pc = "idle" /\ DOMAIN th = Callers /\ ~Reading(t)
      /\ UNCHANGED <<action, prev, savedPtr, env, wanted, raced>> /\ status' = "running"
  BY DEF ReadsInv, ReadsTypeOK, CallRead, MayCall, Reading, statics
<1>5. overlapped \in BOOLEAN /\ overlapped' \in {overlapped, overlapped \/ ~Idle}
  BY DEF ReadsInv, ReadsTypeOK, CallRead
<1>2. CASE overlapped'
  BY <1>1, <1>2 DEF ReadsInv, Calm, OnlyRacesEnd, HandlersComeBack
<1>3. CASE ~overlapped' /\ th' = [th EXCEPT ![t].answer = None]
  <2>1. Orderly /\ Calm
    BY <1>1, <1>3, <1>5 DEF ReadsInv, Calm
  <2>2. /\ th'[t].pc = "idle" /\ th'[t].blocked = th[t].blocked /\ th'[t].sig = th[t].sig
        /\ \A u \in Callers : u # t => th'[u] = th[u]
    BY <1>1, <1>3 DEF ThreadStates
  <2>3. OneReader' /\ ActionIs' /\ PrevIs' /\ Announced' /\ (Idle' <=> Idle)
    BY <2>1, <2>2, <1>1, BesideReaders DEF Reading
  <2>4. MaskIs'
    BY <2>1, <2>2, <1>1 DEF Orderly, MaskIs
  <2>5. ProbesRecover'
    BY <2>1, <2>2, <1>1 DEF Orderly, ProbesRecover, Probing, InSave
  <2> QED BY <1>1, <2>1, <2>3, <2>4, <2>5 DEF ReadsInv, Calm, Orderly, OnlyRacesEnd, HandlersComeBack
<1>4. ASSUME ~overlapped', ~overlapped, Idle, NEW a \in Canonical,
             th' = [th EXCEPT ![t].pc = "install", ![t].ptr = a, ![t].answer = None],
             th[t].sig = "SIGBUS"
      PROVE  ReadsInv'
  <2>1. Orderly
    BY <1>1, <1>4 DEF ReadsInv, Calm
  <2>2. /\ th'[t].pc = "install" /\ th'[t].sig = "SIGBUS" /\ th'[t].blocked = th[t].blocked
        /\ \A u \in Callers : u # t => th'[u] = th[u]
    BY <1>1, <1>4 DEF ThreadStates
  <2>3. Reading(t)' /\ ~Idle' /\ \A u \in Callers : Reading(u)' => u = t
    BY <2>2, <1>4 DEF Reading, Idle
  <2>4. OneReader' /\ ActionIs' /\ PrevIs' /\ Announced'
    BY <2>1, <2>2, <2>3, <1>1, <1>4
       DEF Orderly, OneReader, ActionIs, PrevIs, Announced, Installed, Kept
  <2>5. MaskIs'
    BY <2>1, <2>2, <1>1 DEF Orderly, MaskIs
  <2>6. ProbesRecover'
    BY <2>1, <2>2, <1>1 DEF Orderly, ProbesRecover, Probing, InSave
  <2> QED BY <1>1, <2>3, <2>4, <2>5, <2>6 DEF ReadsInv, Calm, Orderly, OnlyRacesEnd, HandlersComeBack
<1>6. ~overlapped => th[t].sig = "SIGBUS"
  BY <1>1 DEF ReadsInv, Calm, Orderly, MaskIs
<1> QED BY <1>1, <1>2, <1>3, <1>4, <1>5, <1>6 DEF CallRead

LEMMA SetDispositionStep ==
  ASSUME ReadsInv, ReadsTypeOK', status = "running", NEW t \in Callers, SetDisposition(t)
  PROVE  ReadsInv'
<1>1. /\ UNCHANGED <<prev, savedPtr, env, th, raced>> /\ status' = "running"
      /\ overlapped' = (overlapped \/ ~Idle) /\ \A u \in Callers : ~Probing(u)
  BY DEF SetDisposition, statics
<1>2. CASE overlapped'
  BY <1>1, <1>2 DEF ReadsInv, Calm, OnlyRacesEnd, HandlersComeBack
<1>3. CASE ~overlapped'
  <2>1. Orderly /\ Idle /\ \A s \in Signals : action[s] = wanted[s]
    BY <1>1, <1>3 DEF ReadsInv, Calm, Orderly, ActionIs
  <2>2. \A s \in Signals : action'[s] = wanted'[s]
    BY <2>1 DEF SetDisposition, ReadsInv, ReadsTypeOK
  <2>3. \A u \in Callers : ~Reading(u)' /\ ~Probing(u)'
    BY <2>1, <1>1 DEF Idle, Reading, Probing
  <2>4. Orderly'
    BY <2>1, <2>2, <2>3, <1>1
       DEF Orderly, OneReader, ActionIs, PrevIs, Announced, MaskIs, ProbesRecover
  <2>5. HandlersComeBack'
    BY <2>2 DEF HandlersComeBack, ReadsTypeOK
  <2> QED BY <1>1, <2>4, <2>5 DEF ReadsInv, Calm, OnlyRacesEnd
<1> QED BY <1>2, <1>3

LEMMA StartProbeStep ==
  ASSUME ReadsInv, ReadsTypeOK', status = "running", NEW t \in Callers, StartProbe(t)
  PROVE  ReadsInv'
<1>1. /\ th[t] \in ThreadStates /\ th[t].pc = "idle" /\ DOMAIN th = Callers /\ ~Reading(t)
      /\ UNCHANGED <<action, prev, savedPtr, env, ghosts>> /\ status' = "running"
  BY DEF ReadsInv, ReadsTypeOK, StartProbe, MayCall, Reading, statics
<1>2. PICK a \in Unmapped \union Truncated :
        wanted[SignalOf(a)] = "custom" /\ th' = [th EXCEPT ![t].pc = "probe", ![t].ptr = a]
  BY DEF StartProbe
<1>3. /\ th'[t].pc = "probe" /\ th'[t].ptr = a /\ th'[t].blocked = th[t].blocked
      /\ \A u \in Callers : u # t => th'[u] = th[u]
  BY <1>1, <1>2 DEF ThreadStates
<1>4. CASE overlapped
  BY <1>1, <1>4 DEF ReadsInv, Calm, OnlyRacesEnd, HandlersComeBack, ghosts
<1>5. CASE ~overlapped
  <2>1. Orderly /\ Calm
    BY <1>5 DEF ReadsInv, Calm
  <2>2. OneReader' /\ ActionIs' /\ PrevIs' /\ Announced' /\ (Idle' <=> Idle)
    BY <2>1, <1>1, <1>3, BesideReaders DEF Reading, ghosts
  <2>3. MaskIs'
    BY <2>1, <1>1, <1>3 DEF Orderly, MaskIs
  <2>4. ProbesRecover'
    BY <2>1, <1>1, <1>2, <1>3 DEF Orderly, ProbesRecover, Probing, InSave, SignalOf, ghosts
  <2> QED BY <1>1, <2>1, <2>2, <2>3, <2>4 DEF ReadsInv, Calm, Orderly, OnlyRacesEnd, HandlersComeBack, ghosts
<1> QED BY <1>4, <1>5
-----------------------------------------------------------------------------

LEMMA ReadsInitInv == ReadsInit => ReadsInv
<1> SUFFICES ASSUME ReadsInit PROVE ReadsInv
  OBVIOUS
<1>1. \A t \in Callers : th[t] = Outside({}, None) /\ th[t].pc = "idle"
                           /\ th[t].blocked = {} /\ th[t].sig = "SIGBUS"
  BY DEF ReadsInit, Outside
<1>2. \A t \in Callers : ~Reading(t) /\ ~Probing(t)
  BY <1>1 DEF Reading, Probing
<1>3. Outside({}, None) \in ThreadStates
  BY DEF Outside, ThreadStates, Signals, Dispositions, Programs
<1>4. ReadsTypeOK
  BY <1>3 DEF ReadsInit, ReadsTypeOK, Signals, Dispositions, Programs
<1>5. Orderly
  BY <1>1, <1>2 DEF ReadsInit, Orderly, OneReader, ActionIs, PrevIs, Announced, MaskIs, ProbesRecover
<1> QED BY <1>4, <1>5 DEF ReadsInv, ReadsInit, OnlyRacesEnd, HandlersComeBack

LEMMA ReadsNextInv ==
  ASSUME ReadsInv, [ReadsNext]_readVars
  PROVE  ReadsInv'
<1>0. ReadsTypeOK'
  BY NextType DEF ReadsInv
<1>1. CASE UNCHANGED readVars
  <2>1. UNCHANGED <<action, prev, savedPtr, env, status, th, wanted, overlapped, raced>>
    BY <1>1 DEF readVars, statics, ghosts
  <2>2. (Calm <=> Calm') /\ (Idle <=> Idle')
    BY <2>1 DEF Calm, Idle, Reading
  <2>3. OneReader /\ ActionIs => OneReader' /\ ActionIs'
    BY <2>1, <2>2 DEF OneReader, ActionIs, Reading, Installed
  <2>4. PrevIs /\ Announced => PrevIs' /\ Announced'
    BY <2>1 DEF PrevIs, Announced, Reading, Kept
  <2>5. MaskIs /\ ProbesRecover => MaskIs' /\ ProbesRecover'
    BY <2>1 DEF MaskIs, ProbesRecover, Probing, InSave
  <2>6. OnlyRacesEnd' /\ HandlersComeBack'
    BY <2>1, <2>2 DEF ReadsInv, OnlyRacesEnd, HandlersComeBack
  <2> QED BY <1>0, <2>2, <2>3, <2>4, <2>5, <2>6 DEF ReadsInv, Orderly
<1>2. ASSUME status = "running", NEW t \in Callers, Handle(t) PROVE ReadsInv'
  <2>1. th[t].from \in {"read", "probe"}
    BY DEF ReadsInv, ReadsTypeOK, ThreadStates
  <2> QED BY <1>0, <1>2, <2>1, HandleRead, HandleProbe
<1>3. ASSUME status = "running", NEW t \in Callers, Step(t) PROVE ReadsInv'
  BY <1>0, <1>2, <1>3, InstallStep, SaveStep, ArmStep, SetjmpStep, ReadByteStep, ReadFaultsStep,
     RestoreStep, ProbeStep DEF Step
<1> QED BY <1>0, <1>1, <1>3, CallReadStep, SetDispositionStep, StartProbeStep DEF ReadsNext

\* For any threads and addresses, whatever faults where and when.
THEOREM SafeReadInvariant == ReadsSpec => []ReadsInv
<1>1. ReadsInit => ReadsInv
  BY ReadsInitInv
<1>2. ReadsInv /\ [ReadsNext]_readVars => ReadsInv'
  BY ReadsNextInv
<1> QED BY <1>1, <1>2, PTL DEF ReadsSpec

\* The statics, the dispositions and the threads' own variables hold what they should.
THEOREM SafeReadTypeCorrect == ReadsSpec => []ReadsTypeOK
<1>1. ReadsInv => ReadsTypeOK
  BY DEF ReadsInv
<1> QED BY <1>1, SafeReadInvariant, PTL

\* Reads that do not overlap do not end a program, whatever addresses they are given
\* and whatever handlers it has: sig_handler brings its thread back.
THEOREM NothingButRacesEnds == ReadsSpec => []OnlyRacesEnd
<1>1. ReadsInv => OnlyRacesEnd
  BY DEF ReadsInv
<1> QED BY <1>1, SafeReadInvariant, PTL

\* When no read is under way, and none have overlapped, the program has the handlers
\* that it has installed: the sigaction calls of safe_read_uint8 come in pairs.
THEOREM HandlersAreRestored == ReadsSpec => []HandlersComeBack
<1>1. ReadsInv => HandlersComeBack
  BY DEF ReadsInv
<1> QED BY <1>1, SafeReadInvariant, PTL

=============================================================================
