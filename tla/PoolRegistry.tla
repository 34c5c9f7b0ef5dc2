---------------------------- MODULE PoolRegistry ----------------------------
(***************************************************************************)
(* Assignment07/src: the life of thread-local pools (pool.cpp), the table  *)
(* of their guards (pool_registry.cpp) and the signal handler that looks   *)
(* up which guard was hit (sigsegv_handler.cpp).  The table is read and    *)
(* written without a lock, one atomic word at a time: a slot is taken by   *)
(* writing the first address of the guard, and completed afterwards.       *)
(*                                                                         *)
(* A pool is a mapping of two pages, the guard and one for objects; an     *)
(* address is the number of a page, and page 0 is that of nullptr.         *)
(*                                                                         *)
(* pc of a thread                                                          *)
(*     outside    has no pool                                              *)
(*     register   register_pool: about to try slot pos                     *)
(*     complete   register_pool: has slot pos, about to write guard_lasts  *)
(*     use        uses its pool, which is in slot pos                      *)
(*     unmap      ~pool_base: has unregistered, about to unmap             *)
(*     find       find_pool: about to load guard_firsts[pos]               *)
(*     match      find_pool: has a first address, about to load the last   *)
(*     found      sigsegv_handler: find_pool has returned pos              *)
(*     npos       sigsegv_handler: find_pool has returned npos             *)
(***************************************************************************)
EXTENDS Integers, FiniteSets, PoolThreads

CONSTANTS
  Regions,        (* the mappings that mmap may return, by number          *)
  MaxPools        (* MAX_POOLS                                             *)

ASSUME RegistryAssumption ==
  /\ Regions \subseteq Nat \ {0}
  /\ MaxPools \in Nat

Slots   == 1..MaxPools
Nullptr == 0

GuardFirst(r) == 2 * r
GuardLast(r)  == 2 * r + 1
Pages(r)      == {GuardFirst(r), GuardLast(r)}

VARIABLES
  guard_firsts, guard_lasts,   (* the table                                *)
  region,         (* the mapping of each thread's pool, or 0               *)
  pos,            (* its slot, or the loop variable                        *)
  slot,           (* where a thread in the handler has its pool, or 0      *)
  hit,            (* the address that its fault is about                   *)
  first,          (* guard_first of find_pool                              *)
  disturbed       (* the table has changed since find_pool began           *)

table == <<guard_firsts, guard_lasts>>
search == <<slot, hit, first>>
registryVars == <<table, pc, region, pos, search, disturbed, alive>>

InHandler(t) == pc[t] \in {"find", "match", "found", "npos"}

Mapped == UNION {Pages(region[t]) : t \in {u \in Threads : region[u] # 0}}

(* Every change of the table is one that searches under way may see half.  *)
Disturb == disturbed' = [t \in Threads |-> disturbed[t] \/ InHandler(t)]

-----------------------------------------------------------------------------
(* pool_base::pool_base and register_pool                                  *)

Map(t, r) ==
  /\ pc[t] = "outside"
  /\ \A u \in Threads : region[u] # r
  /\ region' = [region EXCEPT ![t] = r]
  /\ pos' = [pos EXCEPT ![t] = 1]
  /\ Goto(t, "register")
  /\ UNCHANGED <<table, search, disturbed, alive>>

(* Mutant of TakeSlot: the slot is written without a comparison.           *)
StoreSlot(t) ==
  /\ pc[t] = "register" /\ pos[t] \in Slots
  /\ guard_firsts' = [guard_firsts EXCEPT ![pos[t]] = GuardFirst(region[t])]
  /\ Goto(t, "complete")
  /\ Disturb
  /\ UNCHANGED <<guard_lasts, region, pos, search, alive>>

(* compare_exchange_strong succeeds.                                       *)
TakeSlot(t) ==
  /\ pc[t] = "register" /\ pos[t] \in Slots
  /\ guard_firsts[pos[t]] = Nullptr
  /\ guard_firsts' = [guard_firsts EXCEPT ![pos[t]] = GuardFirst(region[t])]
  /\ Goto(t, "complete")
  /\ Disturb
  /\ UNCHANGED <<guard_lasts, region, pos, search, alive>>

SkipSlot(t) ==
  /\ pc[t] = "register" /\ pos[t] \in Slots
  /\ guard_firsts[pos[t]] # Nullptr
  /\ pos' = [pos EXCEPT ![t] = @ + 1]
  /\ UNCHANGED <<table, pc, region, search, disturbed, alive>>

(* Too many pools: the process exits.                                      *)
NoSlot(t) ==
  /\ pc[t] = "register" /\ pos[t] \notin Slots
  /\ alive' = FALSE
  /\ UNCHANGED <<table, pc, region, pos, search, disturbed>>

Complete(t) ==
  /\ pc[t] = "complete"
  /\ guard_lasts' = [guard_lasts EXCEPT ![pos[t]] = GuardLast(region[t])]
  /\ Goto(t, "use")
  /\ Disturb
  /\ UNCHANGED <<guard_firsts, region, pos, search, alive>>

-----------------------------------------------------------------------------
(* pool_base::~pool_base, when the thread ends                             *)

(* unregister_pool                                                         *)
Unregister(t) ==
  /\ pc[t] = "use"
  /\ guard_firsts' = [guard_firsts EXCEPT ![pos[t]] = Nullptr]
  /\ Goto(t, "unmap")
  /\ Disturb
  /\ UNCHANGED <<guard_lasts, region, pos, search, alive>>

Unmap(t) ==
  /\ pc[t] = "unmap"
  /\ region' = [region EXCEPT ![t] = 0]
  /\ pos' = [pos EXCEPT ![t] = 0]
  /\ Goto(t, "outside")
  /\ UNCHANGED <<table, search, disturbed, alive>>

-----------------------------------------------------------------------------
(* A fault: the thread runs into the guard of its pool, or uses an address *)
(* that is not mapped, as of an object whose thread has ended.             *)

Segv(t, address) ==
  /\ pc[t] = "use"
  /\ address = GuardFirst(region[t]) \/ address \notin Mapped
  /\ hit' = [hit EXCEPT ![t] = address]
  /\ slot' = [slot EXCEPT ![t] = pos[t]]
  /\ pos' = [pos EXCEPT ![t] = 1]
  /\ disturbed' = [disturbed EXCEPT ![t] = \E u \in Threads : pc[u] = "complete"]
  /\ Goto(t, "find")
  /\ UNCHANGED <<table, region, first, alive>>

(* find_pool                                                               *)
LoadFirst(t) ==
  /\ pc[t] = "find" /\ pos[t] \in Slots
  /\ first' = [first EXCEPT ![t] = guard_firsts[pos[t]]]
  /\ IF guard_firsts[pos[t]] # Nullptr
     THEN Goto(t, "match") /\ UNCHANGED pos
     ELSE pos' = [pos EXCEPT ![t] = @ + 1] /\ UNCHANGED pc
  /\ UNCHANGED <<table, region, slot, hit, disturbed, alive>>

(* Mutant of Matches: only the first address is compared.                  *)
AtOrAbove(t) == first[t] <= hit[t]

Matches(t) == first[t] <= hit[t] /\ hit[t] < guard_lasts[pos[t]]

LoadLast(t) ==
  /\ pc[t] = "match"
  /\ IF Matches(t)
     THEN Goto(t, "found") /\ UNCHANGED pos
     ELSE Goto(t, "find") /\ pos' = [pos EXCEPT ![t] = @ + 1]
  /\ UNCHANGED <<table, region, search, disturbed, alive>>

(* Mutant of NotFound: the loop ends one slot early.                       *)
NotFoundEarly(t) ==
  /\ pc[t] = "find" /\ pos[t] >= MaxPools
  /\ Goto(t, "npos")
  /\ UNCHANGED <<table, region, pos, search, disturbed, alive>>

NotFound(t) ==
  /\ pc[t] = "find" /\ pos[t] \notin Slots
  /\ Goto(t, "npos")
  /\ UNCHANGED <<table, region, pos, search, disturbed, alive>>

(* sigsegv_handler prints the number of the pool and calls _Exit, or       *)
(* raises the signal for the default handler, or calls a previous handler  *)
(* that ends the process.                                                  *)
EndProcess(t) ==
  /\ pc[t] \in {"found", "npos"}
  /\ alive' = FALSE
  /\ UNCHANGED <<table, pc, region, pos, search, disturbed>>

(* The signal was ignored before, or the previous handler returns: the     *)
(* thread goes on, to its fault or, if that has been dealt with, beyond.   *)
Return(t) ==
  /\ pc[t] = "npos"
  /\ Goto(t, "use")
  /\ pos' = [pos EXCEPT ![t] = slot[t]]
  /\ slot' = [slot EXCEPT ![t] = 0]
  /\ hit' = [hit EXCEPT ![t] = 0]
  /\ first' = [first EXCEPT ![t] = 0]
  /\ disturbed' = [disturbed EXCEPT ![t] = FALSE]
  /\ UNCHANGED <<table, region, alive>>

-----------------------------------------------------------------------------

RegistryInit ==
  /\ guard_firsts = [s \in Slots |-> Nullptr]
  /\ guard_lasts = [s \in Slots |-> Nullptr]
  /\ pc = [t \in Threads |-> "outside"]
  /\ region = [t \in Threads |-> 0]
  /\ pos = [t \in Threads |-> 0]
  /\ slot = [t \in Threads |-> 0]
  /\ hit = [t \in Threads |-> 0]
  /\ first = [t \in Threads |-> 0]
  /\ disturbed = [t \in Threads |-> FALSE]
  /\ alive = TRUE

Pool(t) == \/ \E r \in Regions : Map(t, r)
           \/ TakeSlot(t) \/ SkipSlot(t) \/ NoSlot(t) \/ Complete(t)
           \/ Unregister(t) \/ Unmap(t)

Handler(t) == \/ \E r \in Regions : \E address \in Pages(r) : Segv(t, address)
              \/ LoadFirst(t) \/ LoadLast(t) \/ NotFound(t)
              \/ EndProcess(t) \/ Return(t)

RegistryNext == alive /\ \E t \in Threads : Pool(t) \/ Handler(t)

RegistrySpec == RegistryInit /\ [][RegistryNext]_registryVars

-----------------------------------------------------------------------------
(* Type invariant.  A slot never has the guard of a pool that is gone.     *)
RegistryTypeOK ==
  /\ guard_firsts \in [Slots -> {Nullptr} \union {GuardFirst(region[t]) : t \in Threads}]
  /\ guard_lasts \in [Slots -> {Nullptr} \union {GuardLast(r) : r \in Regions}]
  /\ pc \in [Threads -> {"outside", "register", "complete", "use", "unmap",
                         "find", "match", "found", "npos"}]
  /\ region \in [Threads -> Regions \union {0}]
  /\ pos \in [Threads -> 0..MaxPools + 1]
  /\ slot \in [Threads -> 0..MaxPools]
  /\ hit \in [Threads -> Nat]
  /\ first \in [Threads -> Nat]
  /\ disturbed \in [Threads -> BOOLEAN]
  /\ alive \in BOOLEAN

(* The slot that holds the pool of thread t, and whether it is complete.   *)
SlotOf(t)     == IF InHandler(t) THEN slot[t] ELSE pos[t]
Registered(t) == pc[t] = "use" \/ InHandler(t)

(* From register_pool to unregister_pool the slot of a pool holds the      *)
(* bounds of its guard, and no other pool's, however many threads look for *)
(* a slot at the same time.                                                *)
PoolsKeepTheirSlots ==
  /\ \A t \in Threads : Registered(t) =>
       /\ guard_firsts[SlotOf(t)] = GuardFirst(region[t])
       /\ guard_lasts[SlotOf(t)] = GuardLast(region[t])
  /\ \A t, u \in Threads : t # u /\ Registered(t) /\ Registered(u) => SlotOf(t) # SlotOf(u)

(* A thread that hits the guard of its pool is never sent on to the        *)
(* previous handler: find_pool finds a pool, although others come and go   *)
(* while it searches.                                                      *)
GuardHitFound ==
  \A t \in Threads : pc[t] = "npos" => hit[t] # GuardFirst(region[t])

(* Unless the table changed meanwhile, find_pool returns the right pool:   *)
(* the one whose guard was hit, and none for an address that is in none.   *)
BlamesRightPool ==
  \A t \in Threads : pc[t] = "found" /\ ~disturbed[t] =>
    hit[t] = GuardFirst(region[t]) /\ pos[t] = slot[t]

=============================================================================
