--------------------------- MODULE ParallelMemcpy ---------------------------
(***************************************************************************)
(* Assignment10/src/parallel_memcpy.cpp on top of ThreadPool: the main     *)
(* thread creates and replaces the pool, cuts each block into chunks that  *)
(* it submits, copies the tail itself and waits on cond until the static   *)
(* counter remaining_tasks_cnt is zero.  All of it is reused by the next   *)
(* call, while workers may still be leaving the previous one.              *)
(***************************************************************************)
EXTENDS BoundedDeque, FiniteSets

CONSTANTS
  Workers,        (* the worker threads of all pools                       *)
  Main,           (* the thread that calls parallel_memcpy                 *)
  Sizes,          (* the sizes it is called with, in bytes                 *)
  PageSize,       (* sysconf(_SC_PAGESIZE)                                 *)
  SizeValues,     (* the number of values of size_t                        *)
  NoThread

ASSUME MemcpyAssumption ==
  /\ IsFiniteSet(Workers) /\ Main \notin Workers
  /\ PageSize \in Nat \ {0} /\ SizeValues \in Nat
  /\ \A size \in Sizes : size \in 0..SizeValues - 1
  /\ Cardinality(Workers) < SizeValues - 1

VARIABLES
  actions, stop, mutex, workers, to_spawn, pc, arg,    (* of ThreadPool    *)
  threads_cnt,    (* current_threads_cnt                                   *)
  remaining,      (* remaining_tasks_cnt                                   *)
  copy_mutex,     (* the thread that holds the file's mutex, or NoThread   *)
  main,           (* where the main thread is in this file, see below      *)
  call,           (* the locals of parallel_memcpy                         *)
  chunk,          (* where a worker is in memcpy_chunk                     *)
  copied          (* the offsets of dst that hold the bytes of src         *)

poolVars == <<actions, stop, mutex, workers, to_spawn, pc, arg>>
callVars == <<threads_cnt, remaining, copy_mutex, main, call, chunk, copied>>
vars == <<poolVars, callVars>>

(* The closure that submit receives: it holds its own i and chunk_size.    *)
Chunks == [i : Nat, chunk_size : Nat]

Pool == INSTANCE ThreadPool
          WITH Clients <- {Main}, Owner <- Main, Tasks <- Chunks,
               Capacity <- Cardinality(Workers)

(* main: idle; in initialize_thread_pool: destroy, construct, spawn;       *)
(* in parallel_memcpy: submit, tail, lock, test, waiting, wake.            *)
Calling == main \notin {"idle", "destroy", "construct", "spawn"}

Locals == [size |-> 0, tasks_cnt |-> 0, chunk_size |-> 0, i |-> 0]

Block(first, length) == first..first + length - 1

-----------------------------------------------------------------------------
(* initialize_thread_pool(n): pool.emplace destroys the old pool first.    *)
(* current_threads_cnt is assigned when emplace is done; it is here when   *)
(* it begins, because no one but the main thread reads it.                 *)

Initialize(n) ==
  /\ main = "idle"
  /\ main' = IF stop THEN "construct" ELSE "destroy"
  /\ threads_cnt' = n
  /\ UNCHANGED <<poolVars, remaining, copy_mutex, call, chunk, copied>>

Destroy ==
  /\ main = "destroy"
  /\ \/ (Pool!StopLock \/ Pool!StopSet \/ Pool!StopNotifyAll) /\ UNCHANGED main
     \/ Pool!StopJoin /\ main' = "construct"
  /\ UNCHANGED <<threads_cnt, remaining, copy_mutex, call, chunk, copied>>

ConstructPool ==
  /\ main = "construct"
  /\ Pool!Construct(threads_cnt, threads_cnt)
  /\ main' = IF threads_cnt = 0 THEN "idle" ELSE "spawn"
  /\ UNCHANGED <<threads_cnt, remaining, copy_mutex, call, chunk, copied>>

SpawnWorker ==
  /\ main = "spawn"
  /\ \E w \in Workers : Pool!Spawn(w)
  /\ main' = IF to_spawn = 1 THEN "idle" ELSE "spawn"
  /\ UNCHANGED <<threads_cnt, remaining, copy_mutex, call, chunk, copied>>

-----------------------------------------------------------------------------
(* parallel_memcpy(dst, src, size)                                         *)

(* Mutant of TasksCount: the main thread is counted among the threads.     *)
TasksCountWithMain(size) ==
  LET pages == (size \div PageSize - 1) % SizeValues
  IN  IF pages > threads_cnt + 1 THEN threads_cnt + 1 ELSE pages

(* clamp(size / pagesize - 1, 0, threads): for a block of less than a page *)
(* the subtraction wraps, and the result is the number of threads.         *)
TasksCount(size) ==
  LET pages == (size \div PageSize - 1) % SizeValues
  IN  IF pages > threads_cnt THEN threads_cnt ELSE pages

(* Mutant of Call: one chunk is counted for every thread of the pool.      *)
CallCountingThreads(size) ==
  /\ main = "idle"
  /\ LET n == TasksCount(size) IN
       /\ remaining' = threads_cnt
       /\ call' = [size |-> size, tasks_cnt |-> n,
                   chunk_size |-> size \div (n + 1), i |-> 0]
       /\ main' = IF n = 0 THEN "tail" ELSE "submit"
  /\ copied' = {}
  /\ UNCHANGED <<poolVars, threads_cnt, copy_mutex, chunk>>

Call(size) ==
  /\ main = "idle"
  /\ LET n == TasksCount(size) IN
       /\ remaining' = n
       /\ call' = [size |-> size, tasks_cnt |-> n,
                   chunk_size |-> size \div (n + 1), i |-> 0]
       /\ main' = IF n = 0 THEN "tail" ELSE "submit"
  /\ copied' = {}
  /\ UNCHANGED <<poolVars, threads_cnt, copy_mutex, chunk>>

SubmitChunk ==
  /\ main = "submit"
  /\ \/ /\ Pool!SubmitLock(Main, [i |-> call.i, chunk_size |-> call.chunk_size])
        /\ UNCHANGED <<main, call>>
     \/ /\ Pool!SubmitPush(Main)
        /\ UNCHANGED <<main, call>>
     \/ /\ Pool!SubmitNotify(Main)
        /\ call' = [call EXCEPT !.i = @ + 1]
        /\ main' = IF call.i + 1 = call.tasks_cnt THEN "tail" ELSE "submit"
  /\ UNCHANGED <<threads_cnt, remaining, copy_mutex, chunk, copied>>

(* Mutant of CopyTail: the tail is taken for one more chunk.               *)
CopyLastChunk ==
  /\ main = "tail"
  /\ copied' = copied \union Block(call.chunk_size * call.tasks_cnt, call.chunk_size)
  /\ main' = "lock"
  /\ UNCHANGED <<poolVars, threads_cnt, remaining, copy_mutex, call, chunk>>

CopyTail ==
  /\ main = "tail"
  /\ LET tail_offset == call.chunk_size * call.tasks_cnt
     IN  copied' = copied \union Block(tail_offset, call.size - tail_offset)
  /\ main' = "lock"
  /\ UNCHANGED <<poolVars, threads_cnt, remaining, copy_mutex, call, chunk>>

(* Mutant of LockWait: the wait is not in a loop, the call returns once it *)
(* is over.                                                                *)
LockWaitOnce ==
  /\ main \in {"lock", "wake"}
  /\ copy_mutex = NoThread
  /\ IF main = "lock"
     THEN copy_mutex' = Main /\ main' = "test" /\ UNCHANGED call
     ELSE main' = "idle" /\ call' = Locals /\ UNCHANGED copy_mutex
  /\ UNCHANGED <<poolVars, threads_cnt, remaining, chunk, copied>>

LockWait ==
  /\ main \in {"lock", "wake"}
  /\ copy_mutex = NoThread
  /\ copy_mutex' = Main
  /\ main' = "test"
  /\ UNCHANGED <<poolVars, threads_cnt, remaining, call, chunk, copied>>

(* Either the loop goes on and wait releases the mutex, or the call ends.  *)
TestRemaining ==
  /\ main = "test"
  /\ copy_mutex' = NoThread
  /\ IF remaining > 0
     THEN main' = "waiting" /\ UNCHANGED call
     ELSE main' = "idle" /\ call' = Locals
  /\ UNCHANGED <<poolVars, threads_cnt, remaining, chunk, copied>>

SpuriousWakeup ==
  /\ main = "waiting"
  /\ main' = "wake"
  /\ UNCHANGED <<poolVars, threads_cnt, remaining, copy_mutex, call, chunk, copied>>

-----------------------------------------------------------------------------
(* memcpy_chunk on a worker: copy, lock, decrement, unlock, notify_one.    *)

TakeChunk(w) ==
  /\ Pool!Take(w)
  /\ chunk' = [chunk EXCEPT ![w] = "copy"]
  /\ UNCHANGED <<threads_cnt, remaining, copy_mutex, main, call, copied>>

CopyChunk(w) ==
  /\ chunk[w] = "copy"
  /\ copied' = copied \union Block(arg[w].i * arg[w].chunk_size, arg[w].chunk_size)
  /\ chunk' = [chunk EXCEPT ![w] = "lock"]
  /\ UNCHANGED <<poolVars, threads_cnt, remaining, copy_mutex, main, call>>

LockCount(w) ==
  /\ chunk[w] = "lock"
  /\ copy_mutex = NoThread
  /\ copy_mutex' = w
  /\ chunk' = [chunk EXCEPT ![w] = "count"]
  /\ UNCHANGED <<poolVars, threads_cnt, remaining, main, call, copied>>

CountDown(w) ==
  /\ chunk[w] = "count"
  /\ remaining' = (remaining - 1) % SizeValues
  /\ copy_mutex' = NoThread
  /\ chunk' = [chunk EXCEPT ![w] = "notify"]
  /\ UNCHANGED <<poolVars, threads_cnt, main, call, copied>>

(* Mutant of NotifyMain: the chunk returns without notifying.              *)
NotifyMainForgotten(w) ==
  /\ chunk[w] = "notify"
  /\ chunk' = [chunk EXCEPT ![w] = "none"]
  /\ Pool!Finish(w)
  /\ UNCHANGED <<threads_cnt, remaining, copy_mutex, main, call, copied>>

(* notify_one, and the action returns to the pool's loop.                  *)
NotifyMain(w) ==
  /\ chunk[w] = "notify"
  /\ main' = IF main = "waiting" THEN "wake" ELSE main
  /\ chunk' = [chunk EXCEPT ![w] = "none"]
  /\ Pool!Finish(w)
  /\ UNCHANGED <<threads_cnt, remaining, copy_mutex, call, copied>>

(* The steps of execute_actions outside an action.                         *)
PoolStep(w) ==
  /\ \/ Pool!LockOuter(w) \/ Pool!LockInner(w) \/ Pool!LeaveLoop(w)
     \/ Pool!Wait(w) \/ Pool!ReturnIdle(w)
  /\ UNCHANGED callVars

PoolSpuriousWakeup(w) == Pool!SpuriousWakeup(w) /\ UNCHANGED callVars

-----------------------------------------------------------------------------

(* std::nullopt: there is no pool yet, which is the state in which a       *)
(* destroyed pool leaves the threads.                                      *)
Init ==
  /\ actions = NewDeque(0)
  /\ stop = TRUE
  /\ mutex = NoThread
  /\ workers = {}
  /\ to_spawn = 0
  /\ pc = [t \in Workers \union {Main} |-> IF t = Main THEN "ready" ELSE "absent"]
  /\ arg = [t \in Workers \union {Main} |-> NoItem]
  /\ threads_cnt = 0
  /\ remaining = 0
  /\ copy_mutex = NoThread
  /\ main = "idle"
  /\ call = Locals
  /\ chunk = [w \in Workers |-> "none"]
  /\ copied = {}

Proceed == \/ Destroy \/ ConstructPool \/ SpawnWorker \/ SubmitChunk
           \/ CopyTail \/ LockWait \/ TestRemaining

Work(w) == \/ TakeChunk(w) \/ CopyChunk(w) \/ LockCount(w) \/ CountDown(w)
           \/ NotifyMain(w) \/ PoolStep(w)

Next ==
  \/ \E n \in 0..Cardinality(Workers) : Initialize(n)
  \/ \E size \in Sizes : Call(size)
  \/ Proceed \/ SpuriousWakeup
  \/ \E w \in Workers : Work(w) \/ PoolSpuriousWakeup(w)

(* Every thread that can run does; the main thread need not start a call.  *)
Spec == /\ Init /\ [][Next]_vars
        /\ WF_vars(Proceed)
        /\ \A w \in Workers : WF_vars(Work(w))

-----------------------------------------------------------------------------
(* Type invariant, with the ring never beyond the capacity of its pool:    *)
(* parallel_memcpy submits at most as many chunks as the pool has slots.   *)
TypeOK ==
  /\ actions.count \in 0..Len(actions.container)
  /\ threads_cnt \in 0..Cardinality(Workers)
  /\ remaining \in 0..Cardinality(Workers)
  /\ copy_mutex \in Workers \union {Main, NoThread}
  /\ main \in {"idle", "destroy", "construct", "spawn", "submit", "tail",
               "lock", "test", "waiting", "wake"}
  /\ chunk \in [Workers -> {"none", "copy", "lock", "count", "notify"}]
  /\ Calling => copied \subseteq Block(0, call.size)
  /\ call.tasks_cnt \in 0..threads_cnt

(* remaining_tasks_cnt counts exactly the chunks of this call that have    *)
(* not been counted down: those not submitted yet, those in the queue, and *)
(* those that a worker holds (parallel_memcpy, memcpy_chunk).              *)
RemainingCountsChunks ==
  remaining = (call.tasks_cnt - call.i)
              + actions.count + Cardinality({t \in Workers : chunk[t] \in {"copy", "lock", "count"}})
              - (IF pc[Main] = "notify" THEN 1 ELSE 0)

(* Between two calls no chunk of an earlier call is queued or being        *)
(* copied: at most a late notification is still to come, which the next    *)
(* call has to take for a spurious one.                                    *)
QuietBetweenCalls ==
  ~Calling => /\ actions.count = 0
              /\ \A w \in Workers : chunk[w] \in {"none", "notify"}

(* A call has written every byte of its block when it returns, whatever    *)
(* the size, the number of threads and the interleaving, and the next call *)
(* starts from a block that nobody has written to.                         *)
Abstract == INSTANCE Memcpy
              WITH busy <- Calling,
                   todo <- IF Calling THEN Block(0, call.size) \ copied ELSE {}

ImplementsMemcpy == Abstract!Spec

(* A condition variable may wake a thread for no reason, but not for ever. *)
FewSpuriousWakeups ==
  <>[][~SpuriousWakeup /\ \A w \in Workers : ~PoolSpuriousWakeup(w)]_vars

(* Every call returns, and so does every replacement of the pool, whoever  *)
(* wins a contended mutex.                                                 *)
CallReturns == FewSpuriousWakeups => (main # "idle" ~> main = "idle")

=============================================================================
