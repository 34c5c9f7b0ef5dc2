------------------------ MODULE ParallelMemcpyProofs ------------------------
(***************************************************************************)
(* Theorems about ParallelMemcpy, for every number of workers, every page  *)
(* size and all sizes of blocks.                                           *)
(***************************************************************************)
EXTENDS ParallelMemcpy, BoundedDequeProofs, FiniteSetTheorems, TLAPS

-----------------------------------------------------------------------------
(* The inductive invariant.                                                *)

Busy == {w \in Workers : chunk[w] \in {"copy", "lock", "count"}}

Types ==
  /\ threads_cnt \in 0..Cardinality(Workers)
  /\ remaining \in Nat
  /\ copy_mutex \in Workers \union {Main, NoThread}
  /\ main \in {"idle", "destroy", "construct", "spawn", "submit", "tail",
               "lock", "test", "waiting", "wake"}
  /\ chunk \in [Workers -> {"none", "copy", "lock", "count", "notify"}]
  /\ pc \in [Workers \union {Main} -> Pool!Labels]
  /\ arg \in [Workers \union {Main} -> Chunks \union {NoItem}]
  /\ call \in [size : Nat, tasks_cnt : Nat, chunk_size : Nat, i : Nat]

(* Where the main thread is in the pool, for each place in this file.      *)
MainInPool ==
  /\ main = "destroy" => pc[Main] \in {"ready", "stop", "notify_all", "join"}
  /\ main = "spawn" => pc[Main] = "construct"
  /\ main = "submit" => pc[Main] \in {"ready", "submit", "notify"}
  /\ main \notin {"destroy", "spawn", "submit"} => pc[Main] = "ready"

(* An action of the pool is a chunk that is being copied or counted.       *)
ChunksRun == \A w \in Workers : chunk[w] # "none" <=> pc[w] = "run"

(* The block is cut into chunks and a tail, each call has as many chunks   *)
(* as the pool has threads at most, and after a call its locals are gone.  *)
CallIsCut ==
  /\ call.tasks_cnt <= threads_cnt
  /\ call.i <= call.tasks_cnt
  /\ call.tasks_cnt * call.chunk_size <= call.size
  /\ main = "submit" => call.i < call.tasks_cnt
  /\ main # "submit" => call.i = call.tasks_cnt
  /\ ~Calling => call = Locals

(* The queue is a filled ring with a slot for each thread.                 *)
QueueIsFilled ==
  /\ actions = NewDeque(0) \/ (actions \in RingsOf(Chunks) /\ Filled(Chunks, actions))
  /\ main \notin {"destroy", "construct"} => CapacityOf(actions) = threads_cnt

(* remaining_tasks_cnt is exact, and never more than the chunks.           *)
Counts == RemainingCountsChunks /\ remaining <= call.tasks_cnt

(* The bytes of a chunk, and those that are still to be copied: each is in *)
(* a chunk that is queued, or that a worker is about to copy.              *)
BytesOf(c) == Block(c.i * c.chunk_size, c.chunk_size)

Queued(x) == \E k \in 1..actions.count : x \in BytesOf(Contents(actions)[k])
Held(x)   == \E w \in Workers : chunk[w] = "copy" /\ x \in BytesOf(arg[w])

Submitted == call.i + (IF pc[Main] = "notify" THEN 1 ELSE 0)

NothingMissed ==
  Calling =>
    /\ copied \subseteq Block(0, call.size)
    /\ \A x \in Block(0, Submitted * call.chunk_size) : x \in copied \/ Queued(x) \/ Held(x)
    /\ main \in {"lock", "test", "waiting", "wake"} =>
         Block(call.chunk_size * call.tasks_cnt,
               call.size - call.chunk_size * call.tasks_cnt) \subseteq copied

(* No chunk reaches beyond the block.                                      *)
ChunksInside ==
  /\ pc[Main] = "submit" => arg[Main] = [i |-> call.i, chunk_size |-> call.chunk_size]
  /\ \A k \in 1..actions.count : BytesOf(Contents(actions)[k]) \subseteq Block(0, call.size)
  /\ \A w \in Workers : chunk[w] = "copy" =>
       arg[w] \in Chunks /\ BytesOf(arg[w]) \subseteq Block(0, call.size)

IInv == /\ Types /\ MainInPool /\ ChunksRun /\ CallIsCut /\ QueueIsFilled
        /\ Counts /\ QuietBetweenCalls /\ NothingMissed /\ ChunksInside

LEMMA Parameters ==
  /\ IsFiniteSet(Workers) /\ Main \notin Workers /\ Cardinality(Workers) \in Nat
  /\ PageSize \in Nat \ {0} /\ SizeValues \in Nat \ {0} /\ Cardinality(Workers) < SizeValues - 1
  /\ Sizes \subseteq Nat
<1>1. IsFiniteSet(Workers) /\ Main \notin Workers /\ Cardinality(Workers) \in Nat
  BY MemcpyAssumption, FS_CardinalityType
<1>2. PageSize \in Nat \ {0} /\ SizeValues \in Nat /\ Cardinality(Workers) < SizeValues - 1
  BY MemcpyAssumption
<1>3. Sizes \subseteq Nat
  BY <1>2, MemcpyAssumption
<1> QED BY <1>1, <1>2, <1>3

(* As many chunks as threads at most, and all of them within the block.    *)
LEMMA Cut ==
  ASSUME NEW size \in Nat, threads_cnt \in Nat
  PROVE  /\ TasksCount(size) \in 0..threads_cnt
         /\ size \div (TasksCount(size) + 1) \in Nat
         /\ TasksCount(size) * (size \div (TasksCount(size) + 1)) <= size
<1> DEFINE n == TasksCount(size)
<1>1. (size \div PageSize - 1) \in Int
  BY Parameters
<1>2. (size \div PageSize - 1) % SizeValues \in Nat
  BY <1>1, Parameters
<1>3. n \in 0..threads_cnt
  BY <1>2 DEF TasksCount
<1>4. n \in Nat /\ n + 1 \in Nat \ {0}
  BY <1>3
<1> HIDE DEF n
<1>5. size \div (n + 1) \in Nat /\ (size \div (n + 1)) * (n + 1) <= size
  BY <1>4
<1>6. (size \div (n + 1)) * (n + 1) = n * (size \div (n + 1)) + (size \div (n + 1))
  BY <1>4, <1>5
<1> QED BY <1>3, <1>4, <1>5, <1>6 DEF n

-----------------------------------------------------------------------------
(* What the operations of the pool make of its queue.                      *)

LEMMA NoSlots == NewDeque(0).count = 0 /\ CapacityOf(NewDeque(0)) = 0
BY DEF NewDeque, CapacityOf

LEMMA QueueType ==
  ASSUME QueueIsFilled
  PROVE  /\ actions.count \in Nat /\ Len(actions.container) \in Nat
         /\ actions.count <= Len(actions.container) /\ CapacityOf(actions) \in Nat
         /\ actions.count > 0 => actions \in RingsOf(Chunks) /\ Filled(Chunks, actions)
<1>1. CASE actions = NewDeque(0)
  BY <1>1, NoSlots DEF CapacityOf
<1>2. CASE actions \in RingsOf(Chunks) /\ Filled(Chunks, actions)
  BY <1>2, RingType DEF CapacityOf
<1> QED BY <1>1, <1>2 DEF QueueIsFilled

LEMMA TakenChunk ==
  ASSUME QueueIsFilled, NEW w, Pool!Take(w)
  PROVE  /\ actions.count \in Nat \ {0} /\ actions'.count = actions.count - 1
         /\ actions' \in RingsOf(Chunks) /\ Filled(Chunks, actions')
         /\ CapacityOf(actions') = CapacityOf(actions)
         /\ Contents(actions)[1] \in Chunks
         /\ arg' = [arg EXCEPT ![w] = Contents(actions)[1]]
         /\ \A k \in 1..actions'.count : k + 1 \in 1..actions.count
                                         /\ Contents(actions')[k] = Contents(actions)[k + 1]
<1>1. /\ actions.count \in Nat \ {0} /\ ~IsEmpty(actions)
      /\ actions \in RingsOf(Chunks) /\ Filled(Chunks, actions)
  BY QueueType DEF Pool!Take, Pool!IsEmpty, IsEmpty
<1>2. /\ actions' = PopFront([actions EXCEPT
                                !.container[Right(actions, actions.front_pos) + 1] = NoItem])
      /\ arg' = [arg EXCEPT ![w] = Front(actions)]
  BY DEF Pool!Take, Pool!PopFront, Pool!Right, Pool!CapacityOf, Pool!Front, Pool!Slot,
         PopFront, Right, CapacityOf, Front, Slot
<1>3. /\ actions' \in RingsOf(Chunks) /\ Filled(Chunks, actions')
      /\ CapacityOf(actions') = CapacityOf(actions)
      /\ Contents(actions') = Tail(Contents(actions))
  BY <1>1, <1>2, TakenRing
<1>4. /\ Contents(actions) # <<>> /\ Front(actions) = Head(Contents(actions))
      /\ Front(actions) \in Chunks
  BY <1>1, FrontIsHead
<1>5. /\ Contents(actions) \in Seq(Chunks) /\ Len(Contents(actions)) = actions.count
      /\ Contents(actions') \in Seq(Chunks) /\ Len(Contents(actions')) = actions'.count
  BY <1>1, <1>3, ContentsType
<1>6. /\ Len(Tail(Contents(actions))) = Len(Contents(actions)) - 1
      /\ \A k \in 1..Len(Tail(Contents(actions))) :
           Tail(Contents(actions))[k] = Contents(actions)[k + 1]
  BY <1>4, <1>5, HeadTailProperties
<1>7. actions'.count = actions.count - 1
  BY <1>3, <1>5, <1>6
<1>8. Contents(actions)[1] = Front(actions)
  BY <1>4, <1>5
<1>9. \A k \in 1..actions'.count : k + 1 \in 1..actions.count
                                   /\ Contents(actions')[k] = Contents(actions)[k + 1]
  BY <1>1, <1>3, <1>5, <1>6, <1>7
<1> QED BY <1>1, <1>2, <1>3, <1>4, <1>7, <1>8, <1>9

LEMMA PushedChunk ==
  ASSUME QueueIsFilled, Pool!SubmitPush(Main), arg[Main] \in Chunks,
         actions.count < CapacityOf(actions)
  PROVE  /\ actions'.count = actions.count + 1
         /\ actions' \in RingsOf(Chunks) /\ Filled(Chunks, actions')
         /\ CapacityOf(actions') = CapacityOf(actions)
         /\ Contents(actions')[actions.count + 1] = arg[Main]
         /\ \A k \in 1..actions.count : Contents(actions')[k] = Contents(actions)[k]
<1>1. actions \in RingsOf(Chunks) /\ Filled(Chunks, actions) /\ actions.count \in Nat
  BY QueueType, NoSlots DEF QueueIsFilled
<1>2. actions' = PushBack(actions, arg[Main])
  BY DEF Pool!SubmitPush, Pool!PushBack, Pool!Right, Pool!CapacityOf, PushBack, Right, CapacityOf
<1>3. /\ actions' \in RingsOf(Chunks) /\ Filled(Chunks, actions')
      /\ CapacityOf(actions') = CapacityOf(actions)
      /\ Contents(actions') = Append(Contents(actions), arg[Main])
  BY <1>1, <1>2, PushBackRing
<1>4. /\ Contents(actions) \in Seq(Chunks) /\ Len(Contents(actions)) = actions.count
      /\ Contents(actions') \in Seq(Chunks) /\ Len(Contents(actions')) = actions'.count
  BY <1>1, <1>3, ContentsType
<1>5. /\ Len(Append(Contents(actions), arg[Main])) = actions.count + 1
      /\ \A k \in 1..(actions.count + 1) :
           Append(Contents(actions), arg[Main])[k]
             = IF k = actions.count + 1 THEN arg[Main] ELSE Contents(actions)[k]
  BY <1>4, AppendProperties
<1> QED BY <1>1, <1>3, <1>4, <1>5

LEMMA NewQueue ==
  ASSUME threads_cnt \in Nat, Pool!Construct(threads_cnt, threads_cnt)
  PROVE  /\ actions'.count = 0 /\ CapacityOf(actions') = threads_cnt
         /\ actions' = NewDeque(0) \/ (actions' \in RingsOf(Chunks) /\ Filled(Chunks, actions'))
<1>1. actions' = NewDeque(threads_cnt)
  BY DEF Pool!Construct, Pool!NewDeque, NewDeque
<1>2. CASE threads_cnt = 0
  BY <1>1, <1>2, NoSlots
<1>3. CASE threads_cnt # 0
  BY <1>1, <1>3, NewRing DEF NewDeque
<1> QED BY <1>2, <1>3

-----------------------------------------------------------------------------
(* Where the threads are.                                                  *)

Control == Types /\ MainInPool /\ ChunksRun /\ CallIsCut

LEMMA InitControl == Init => Control
<1> SUFFICES ASSUME Init PROVE Control
  OBVIOUS
<1>1. Types
  BY Parameters DEF Init, Types, Locals, Pool!Labels
<1> QED BY <1>1, Parameters DEF Init, Control, MainInPool, ChunksRun, CallIsCut, Calling, Locals

LEMMA StepControl == IInv /\ [Next]_vars => Control'
<1> SUFFICES ASSUME IInv, [Next]_vars PROVE Control'
  OBVIOUS
<1>0. /\ Types /\ MainInPool /\ ChunksRun /\ CallIsCut /\ Main \notin Workers
      /\ Cardinality(Workers) \in Nat
  BY Parameters DEF IInv
<1> USE DEF Control, Types, MainInPool, ChunksRun, CallIsCut, Calling, Locals, Pool!Labels,
            Pool!Goto, Pool!Lock, Pool!Waiting, Pool!Threads, callVars, poolVars
<1>1. ASSUME NEW n \in 0..Cardinality(Workers), Initialize(n) PROVE Control'
  BY <1>0, <1>1 DEF Initialize
<1>2. ASSUME Destroy PROVE Control'
  <2>1. CASE Pool!StopLock \/ Pool!StopSet
    BY <1>0, <1>2, <2>1 DEF Destroy, Pool!StopLock, Pool!StopSet, Pool!StopNotifyAll, Pool!StopJoin
  <2>2. CASE Pool!StopNotifyAll
    BY <1>0, <1>2, <2>2 DEF Destroy, Pool!StopLock, Pool!StopSet, Pool!StopNotifyAll, Pool!StopJoin
  <2>3. CASE Pool!StopJoin /\ main' = "construct"
    <3>1. main' = "construct" /\ UNCHANGED <<arg, threads_cnt, remaining, copy_mutex, call, chunk>>
      BY <1>2, <2>3 DEF Destroy, Pool!StopJoin
    <3> QED BY <1>0, <1>2, <2>3, <3>1 DEF Destroy, Pool!StopJoin
  <2> QED BY <1>2, <2>1, <2>2, <2>3 DEF Destroy
<1>3. ASSUME ConstructPool PROVE Control'
  BY <1>0, <1>3 DEF ConstructPool, Pool!Construct
<1>4. ASSUME SpawnWorker PROVE Control'
  BY <1>0, <1>4 DEF SpawnWorker, Pool!Spawn
<1>5. ASSUME NEW size \in Sizes, Call(size) PROVE Control'
  <2>1. size \in Nat /\ threads_cnt \in Nat
    BY <1>0, Parameters
  <2> DEFINE n == TasksCount(size)
  <2>2. /\ n \in 0..threads_cnt /\ size \div (n + 1) \in Nat /\ n * (size \div (n + 1)) <= size
    BY <2>1, Cut
  <2>3. /\ remaining' = n /\ UNCHANGED <<poolVars, threads_cnt, copy_mutex, chunk>> /\ main = "idle"
        /\ call' = [size |-> size, tasks_cnt |-> n, chunk_size |-> size \div (n + 1), i |-> 0]
        /\ main' = IF n = 0 THEN "tail" ELSE "submit"
    BY <1>5 DEF Call
  <2> HIDE DEF n
  <2> QED BY <1>0, <2>1, <2>2, <2>3
<1>6. ASSUME SubmitChunk PROVE Control'
  <2>1. CASE Pool!SubmitLock(Main, [i |-> call.i, chunk_size |-> call.chunk_size])
    BY <1>0, <1>6, <2>1 DEF SubmitChunk, Pool!SubmitLock, Pool!SubmitPush, Pool!SubmitNotify, Chunks
  <2>2. CASE Pool!SubmitPush(Main)
    BY <1>0, <1>6, <2>2 DEF SubmitChunk, Pool!SubmitLock, Pool!SubmitPush, Pool!SubmitNotify
  <2>3. CASE Pool!SubmitNotify(Main)
    BY <1>0, <1>6, <2>3 DEF SubmitChunk, Pool!SubmitLock, Pool!SubmitPush, Pool!SubmitNotify
  <2> QED BY <1>6, <2>1, <2>2, <2>3 DEF SubmitChunk
<1>7. ASSUME CopyTail \/ LockWait \/ TestRemaining \/ SpuriousWakeup PROVE Control'
  BY <1>0, <1>7 DEF CopyTail, LockWait, TestRemaining, SpuriousWakeup
<1>8. ASSUME NEW w \in Workers, TakeChunk(w) PROVE Control'
  <2>1. arg' = [arg EXCEPT ![w] = Contents(actions)[1]] /\ Contents(actions)[1] \in Chunks
    BY <1>8, TakenChunk DEF TakeChunk, IInv
  <2>2. /\ pc[w] \in {"inner", "outer"} /\ pc' = [pc EXCEPT ![w] = "run"]
        /\ chunk' = [chunk EXCEPT ![w] = "copy"]
        /\ UNCHANGED <<threads_cnt, remaining, copy_mutex, main, call>>
    BY <1>8 DEF TakeChunk, Pool!Take, Pool!InBody
  <2> QED BY <1>0, <2>1, <2>2
<1>9. ASSUME NEW w \in Workers, CopyChunk(w) \/ LockCount(w) \/ CountDown(w) PROVE Control'
  <2>1. (remaining - 1) % SizeValues \in Nat
    BY <1>0, Parameters
  <2> QED BY <1>0, <1>9, <2>1, SMTT(30) DEF CopyChunk, LockCount, CountDown
<1>10. ASSUME NEW w \in Workers, NotifyMain(w) PROVE Control'
  BY <1>0, <1>10 DEF NotifyMain, Pool!Finish
<1>11. ASSUME NEW w \in Workers, PoolStep(w) \/ PoolSpuriousWakeup(w) PROVE Control'
  <2>1. UNCHANGED <<arg, callVars>>
    BY <1>11
       DEF PoolStep, PoolSpuriousWakeup, Pool!LockOuter, Pool!LockInner, Pool!LeaveLoop, Pool!Wait,
           Pool!ReturnIdle, Pool!SpuriousWakeup
  <2>2. pc[w] # "run" /\ \E label \in Pool!Labels \ {"run"} : pc' = [pc EXCEPT ![w] = label]
    BY <1>11
       DEF PoolStep, PoolSpuriousWakeup, Pool!LockOuter, Pool!LockInner, Pool!LeaveLoop, Pool!Wait,
           Pool!ReturnIdle, Pool!SpuriousWakeup, Pool!InBody
  <2> QED BY <1>0, <2>1, <2>2
<1>12. CASE UNCHANGED vars
  BY <1>0, <1>12 DEF vars
<1> QED
  BY <1>1, <1>2, <1>3, <1>4, <1>5, <1>6, <1>7, <1>8, <1>9, <1>10, <1>11, <1>12
     DEF Next, Proceed, Work

-----------------------------------------------------------------------------
(* What is counted.                                                        *)

LEMMA BusyIsFinite ==
  /\ IsFiniteSet(Busy) /\ Cardinality(Busy) \in Nat
  /\ IsFiniteSet(Busy') /\ Cardinality(Busy') \in Nat
<1>1. Busy \subseteq Workers /\ Busy' \subseteq Workers
  BY DEF Busy
<1>2. IsFiniteSet(Busy) /\ IsFiniteSet(Busy')
  BY <1>1, Parameters, FS_Subset
<1> QED BY <1>2, FS_CardinalityType

(* The chunks that have not been submitted, with the one that submit has   *)
(* pushed and not announced yet.                                           *)
Unsubmitted == call.tasks_cnt - Submitted

Balanced ==
  /\ RemainingCountsChunks <=> remaining = Unsubmitted + actions.count + Cardinality(Busy)
  /\ Submitted \in Nat /\ Unsubmitted \in Int

LEMMA Balance == Types /\ actions.count \in Nat => Balanced
<1> SUFFICES ASSUME Types, actions.count \in Nat PROVE Balanced
  OBVIOUS
<1>1. Busy = {t \in Workers : chunk[t] \in {"copy", "lock", "count"}}
  BY DEF Busy
<1>2. /\ Cardinality({t \in Workers : chunk[t] \in {"copy", "lock", "count"}}) = Cardinality(Busy)
      /\ Cardinality(Busy) \in Nat
  BY <1>1, BusyIsFinite
<1>3. call.i \in Nat /\ call.tasks_cnt \in Nat /\ remaining \in Nat
  BY DEF Types
<1>4. Submitted \in Nat /\ Unsubmitted \in Int
  BY <1>3 DEF Submitted, Unsubmitted
<1>5. RemainingCountsChunks <=>
        remaining = (call.tasks_cnt - call.i) + actions.count + Cardinality(Busy)
                    - (IF pc[Main] = "notify" THEN 1 ELSE 0)
  BY <1>2 DEF RemainingCountsChunks
<1> QED BY <1>2, <1>3, <1>4, <1>5 DEF Balanced, Unsubmitted, Submitted

LEMMA BalanceNext == Types' /\ (actions.count \in Nat)' => Balanced'
BY Balance, PTL

(* Room for the chunk that is about to be pushed.                          *)
LEMMA RoomToPush ==
  ASSUME IInv, pc[Main] = "submit"
  PROVE  actions.count < CapacityOf(actions) /\ main = "submit" /\ arg[Main] \in Chunks
<1>1. Types /\ actions.count \in Nat /\ CapacityOf(actions) \in Nat
  BY QueueType DEF IInv
<1>2. main = "submit" /\ CapacityOf(actions) = threads_cnt
  BY DEF IInv, MainInPool, QueueIsFilled
<1>3. /\ call.i < call.tasks_cnt /\ call.tasks_cnt <= threads_cnt
      /\ Submitted = call.i /\ remaining <= call.tasks_cnt
  BY <1>1, <1>2 DEF IInv, CallIsCut, Counts, Submitted, Types
<1>4. remaining = Unsubmitted + actions.count + Cardinality(Busy) /\ Cardinality(Busy) \in Nat
  BY <1>1, Balance, BusyIsFinite DEF IInv, Counts, Balanced
<1>5. call.i \in Nat /\ call.tasks_cnt \in Nat /\ remaining \in Nat /\ threads_cnt \in Nat
  BY <1>1, Parameters DEF Types
<1>6. arg[Main] \in Chunks
  <2>1. arg[Main] = [i |-> call.i, chunk_size |-> call.chunk_size]
    BY DEF IInv, ChunksInside
  <2>2. call.i \in Nat /\ call.chunk_size \in Nat
    BY <1>1 DEF Types
  <2> QED BY <2>1, <2>2 DEF Chunks
<1> QED BY <1>1, <1>2, <1>3, <1>4, <1>5, <1>6 DEF Unsubmitted

(* When the wait is over nothing is queued and nothing is being copied.    *)
LEMMA WaitIsOver ==
  ASSUME IInv, main = "test", ~(remaining > 0)
  PROVE  actions.count = 0 /\ Busy = {} /\ Submitted = call.tasks_cnt
<1>1. Types /\ actions.count \in Nat
  BY QueueType DEF IInv
<1>2. remaining = Unsubmitted + actions.count + Cardinality(Busy) /\ Cardinality(Busy) \in Nat
  BY <1>1, Balance, BusyIsFinite DEF IInv, Counts, Balanced
<1>3. Submitted = call.tasks_cnt /\ call.tasks_cnt \in Nat /\ remaining \in Nat
  BY <1>1 DEF IInv, MainInPool, CallIsCut, Types, Submitted
<1>4. actions.count = 0 /\ Cardinality(Busy) = 0
  BY <1>1, <1>2, <1>3 DEF Unsubmitted
<1> QED BY <1>3, <1>4, BusyIsFinite, FS_EmptySet

Quiet == QuietBetweenCalls <=> (~Calling => actions.count = 0 /\ Busy = {})

LEMMA QuietIs == Types => Quiet
BY DEF Quiet, QuietBetweenCalls, Busy, Types

LEMMA QuietNext == Types' => Quiet'
BY QuietIs, PTL

Order == QueueIsFilled /\ Counts /\ QuietBetweenCalls

LEMMA InitOrder == Init => Order
<1> SUFFICES ASSUME Init PROVE Order
  OBVIOUS
<1>1. Types /\ Busy = {} /\ actions.count = 0 /\ Unsubmitted = 0 /\ remaining = 0
  BY InitControl, NoSlots DEF Init, Control, Busy, Unsubmitted, Submitted, Locals
<1>2. Cardinality(Busy) = 0
  BY <1>1, FS_EmptySet
<1>3. RemainingCountsChunks
  BY <1>1, <1>2, Balance DEF Balanced
<1> QED BY <1>1, <1>3, QuietIs, NoSlots DEF Quiet, Init, Order, QueueIsFilled, Counts, Locals

(* A step that moves no chunk.                                             *)
LEMMA NoChunkMoved ==
  ASSUME IInv, Types', actions'.count = actions.count, Busy' = Busy, remaining' = remaining,
         Submitted' = Submitted, call'.tasks_cnt = call.tasks_cnt
  PROVE  Counts'
<1>1. actions.count \in Nat
  BY QueueType DEF IInv
<1>2. remaining = Unsubmitted + actions.count + Cardinality(Busy)
  BY <1>1, Balance DEF IInv, Counts, Balanced
<1>3. Unsubmitted' = Unsubmitted
  BY DEF Unsubmitted
<1>4. remaining' = Unsubmitted' + actions'.count + Cardinality(Busy')
  BY <1>2, <1>3
<1> QED BY <1>1, <1>4, BalanceNext DEF IInv, Counts, Balanced

(* A step that changes neither the queue nor which chunks are being copied *)
(* or counted, nor begins or ends a call.                                  *)
LEMMA QueueUntouched ==
  ASSUME IInv, Types', actions' = actions, Busy' = Busy, remaining' = remaining,
         Submitted' = Submitted, call'.tasks_cnt = call.tasks_cnt,
         threads_cnt' = threads_cnt \/ main' \in {"destroy", "construct"},
         main' \notin {"destroy", "construct"} => main \notin {"destroy", "construct"},
         ~Calling' => ~Calling
  PROVE  Order'
<1>1. Counts'
  BY NoChunkMoved
<1>2. QueueIsFilled'
  BY DEF IInv, QueueIsFilled, CapacityOf
<1>3. QuietBetweenCalls'
  BY QuietIs, QuietNext DEF IInv, Quiet
<1> QED BY <1>1, <1>2, <1>3 DEF Order

LEMMA StepOrder == IInv /\ [Next]_vars => Order'
<1> SUFFICES ASSUME IInv, [Next]_vars PROVE Order'
  OBVIOUS
<1>0. /\ Types /\ MainInPool /\ ChunksRun /\ CallIsCut /\ QueueIsFilled /\ Counts
      /\ Main \notin Workers /\ Types'
  BY Parameters, StepControl DEF IInv, Control
<1>01. /\ actions.count \in Nat /\ QuietBetweenCalls /\ Quiet /\ Quiet' /\ Balanced
       /\ (actions'.count \in Nat => Balanced')
  BY <1>0, QueueType, QuietIs, QuietNext, Balance, BalanceNext DEF IInv
<1>1. ASSUME NEW n \in 0..Cardinality(Workers), Initialize(n) PROVE Order'
  <2>1. Busy' = Busy /\ Submitted' = Submitted /\ ~Calling' /\ ~Calling
    BY <1>1 DEF Initialize, Busy, Submitted, Calling, poolVars
  <2> QED BY <1>0, <1>1, <2>1, QueueUntouched DEF Initialize, poolVars
<1>2. ASSUME Destroy PROVE Order'
  <2>1. /\ actions' = actions /\ main = "destroy" /\ main' \in {"destroy", "construct"}
        /\ UNCHANGED <<threads_cnt, remaining, call, chunk>>
    BY <1>2 DEF Destroy, Pool!StopLock, Pool!StopSet, Pool!StopNotifyAll, Pool!StopJoin
  <2>2. pc[Main] # "notify" /\ pc'[Main] # "notify"
    BY <1>0, <1>2
       DEF Destroy, Pool!StopLock, Pool!StopSet, Pool!StopNotifyAll, Pool!StopJoin, Pool!Lock,
           Pool!Goto, Pool!Threads, MainInPool, Types
  <2>3. Busy' = Busy /\ Submitted' = Submitted /\ ~Calling' /\ ~Calling
    BY <2>1, <2>2 DEF Busy, Submitted, Calling
  <2> QED BY <1>0, <2>1, <2>3, QueueUntouched
<1>3. ASSUME ConstructPool PROVE Order'
  <2>1. /\ main = "construct" /\ ~Calling /\ ~Calling' /\ UNCHANGED <<threads_cnt, remaining, call, chunk>>
        /\ pc[Main] = "ready" /\ pc'[Main] \in {"ready", "construct"}
    BY <1>0, <1>3 DEF ConstructPool, Pool!Construct, Pool!Goto, Calling, MainInPool, Types
  <2>2. Busy' = Busy /\ Submitted' = Submitted /\ actions.count = 0 /\ Busy = {}
    BY <1>01, <2>1 DEF Busy, Submitted, Quiet
  <2>3. /\ actions'.count = 0 /\ CapacityOf(actions') = threads_cnt
        /\ actions' = NewDeque(0) \/ (actions' \in RingsOf(Chunks) /\ Filled(Chunks, actions'))
    BY <1>0, <1>3, NewQueue, Parameters DEF ConstructPool, Types
  <2>4. Counts'
    BY <1>0, <2>1, <2>2, <2>3, NoChunkMoved
  <2>5. QueueIsFilled'
    BY <2>1, <2>3 DEF QueueIsFilled, CapacityOf
  <2> QED BY <1>01, <2>1, <2>2, <2>3, <2>4, <2>5 DEF Order, Quiet
<1>4. ASSUME SpawnWorker PROVE Order'
  <2>1. /\ actions' = actions /\ main = "spawn" /\ main' \in {"spawn", "idle"}
        /\ UNCHANGED <<threads_cnt, remaining, call, chunk>>
        /\ pc[Main] # "notify" /\ pc'[Main] # "notify"
    BY <1>0, <1>4 DEF SpawnWorker, Pool!Spawn, MainInPool, Types
  <2>2. Busy' = Busy /\ Submitted' = Submitted /\ ~Calling' /\ ~Calling
    BY <2>1 DEF Busy, Submitted, Calling
  <2> QED BY <1>0, <2>1, <2>2, QueueUntouched
<1>5. ASSUME NEW size \in Sizes, Call(size) PROVE Order'
  <2>1. /\ UNCHANGED <<poolVars, threads_cnt, chunk>> /\ main = "idle" /\ main' \in {"tail", "submit"}
        /\ remaining' = TasksCount(size) /\ call'.tasks_cnt = TasksCount(size) /\ call'.i = 0
    BY <1>5 DEF Call
  <2>2. Calling' /\ actions.count = 0 /\ Busy = {} /\ Busy' = Busy /\ actions' = actions
    BY <1>01, <2>1 DEF Calling, Quiet, Busy, poolVars
  <2>3. Cardinality(Busy') = 0
    BY <2>2, FS_EmptySet
  <2>4. pc'[Main] # "notify"
    BY <1>0, <2>1 DEF MainInPool, poolVars
  <2>5. Submitted' = 0 /\ Unsubmitted' = remaining' /\ remaining' \in Nat
    BY <1>0, <2>1, <2>4 DEF Submitted, Unsubmitted, Types
  <2>6. Counts'
    BY <1>01, <2>1, <2>2, <2>3, <2>5 DEF Counts, Balanced
  <2>7. QueueIsFilled'
    BY <1>0, <2>1, <2>2 DEF QueueIsFilled, CapacityOf
  <2> QED BY <1>01, <2>2, <2>6, <2>7 DEF Order, Quiet
<1>6. ASSUME SubmitChunk PROVE Order'
  <2>0. main = "submit" /\ main' \in {"submit", "tail"} /\ Calling /\ Calling'
        /\ UNCHANGED <<threads_cnt, remaining, chunk>> /\ Busy' = Busy /\ call'.tasks_cnt = call.tasks_cnt
    BY <1>0, <1>6 DEF SubmitChunk, Calling, Types, Busy
  <2>1. CASE Pool!SubmitLock(Main, [i |-> call.i, chunk_size |-> call.chunk_size])
    <3>1. UNCHANGED <<actions, call>> /\ pc[Main] # "notify" /\ pc'[Main] # "notify"
      BY <1>0, <1>6, <2>1
         DEF SubmitChunk, Pool!SubmitLock, Pool!SubmitPush, Pool!SubmitNotify, Pool!Lock, Pool!Goto, Types
    <3>2. Submitted' = Submitted
      BY <3>1 DEF Submitted
    <3> QED BY <1>0, <2>0, <3>1, <3>2, QueueUntouched
  <2>2. CASE Pool!SubmitPush(Main)
    <3>1. pc[Main] = "submit" /\ pc'[Main] = "notify" /\ UNCHANGED call
      BY <1>0, <1>6, <2>2 DEF SubmitChunk, Pool!SubmitLock, Pool!SubmitPush, Pool!SubmitNotify, Pool!Lock, Pool!Goto, Types
    <3>2. /\ actions'.count = actions.count + 1
          /\ actions' \in RingsOf(Chunks) /\ Filled(Chunks, actions')
          /\ CapacityOf(actions') = CapacityOf(actions)
      BY <1>0, <2>2, <3>1, RoomToPush, PushedChunk
    <3>3. Submitted' = Submitted + 1 /\ Unsubmitted' = Unsubmitted - 1
      BY <1>0, <3>1 DEF Submitted, Unsubmitted, Types
    <3>4. Counts'
      BY <1>0, <1>01, <2>0, <3>2, <3>3, BusyIsFinite DEF Counts, Balanced, Types
    <3>5. QueueIsFilled'
      BY <1>0, <2>0, <3>2 DEF QueueIsFilled, CapacityOf
    <3> QED BY <1>01, <2>0, <3>4, <3>5 DEF Order, Quiet
  <2>3. CASE Pool!SubmitNotify(Main)
    <3>1. /\ actions' = actions /\ pc[Main] = "notify" /\ pc'[Main] = "ready"
          /\ call' = [call EXCEPT !.i = @ + 1]
      BY <1>0, <1>6, <2>3
         DEF SubmitChunk, Pool!SubmitLock, Pool!SubmitPush, Pool!SubmitNotify, Pool!Lock, Pool!Goto,
             Pool!Waiting, Types
    <3>2. Submitted' = Submitted
      BY <1>0, <3>1 DEF Submitted, Types
    <3> QED BY <1>0, <2>0, <3>1, <3>2, QueueUntouched
  <2> QED BY <1>6, <2>1, <2>2, <2>3 DEF SubmitChunk
<1>7. ASSUME CopyTail \/ LockWait \/ SpuriousWakeup \/ (TestRemaining /\ remaining > 0) PROVE Order'
  <2>1. /\ UNCHANGED <<poolVars, threads_cnt, remaining, call, chunk>>
        /\ main \in {"tail", "lock", "test", "waiting", "wake"}
        /\ main' \in {"tail", "lock", "test", "waiting", "wake"}
    BY <1>7 DEF CopyTail, LockWait, SpuriousWakeup, TestRemaining
  <2>2. Busy' = Busy /\ Submitted' = Submitted /\ Calling' /\ Calling
    BY <2>1 DEF Busy, Submitted, Calling, poolVars
  <2> QED BY <1>0, <2>1, <2>2, QueueUntouched DEF poolVars
<1>8. ASSUME TestRemaining, ~(remaining > 0) PROVE Order'
  <2>1. /\ main = "test" /\ main' = "idle" /\ call' = Locals
        /\ UNCHANGED <<poolVars, threads_cnt, remaining, chunk>>
    BY <1>8 DEF TestRemaining
  <2>2. actions.count = 0 /\ Busy = {} /\ Busy' = {} /\ actions' = actions
    BY <1>8, <2>1, WaitIsOver DEF Busy, poolVars
  <2>3. Cardinality(Busy') = 0
    BY <2>2, FS_EmptySet
  <2>4. pc'[Main] = "ready"
    BY <1>0, <2>1 DEF MainInPool, poolVars
  <2>5. Unsubmitted' = 0 /\ remaining' = 0 /\ call'.tasks_cnt = 0
    BY <1>0, <1>8, <2>1, <2>4 DEF Submitted, Unsubmitted, Locals, Types
  <2>6. Counts'
    BY <1>01, <2>2, <2>3, <2>5 DEF Counts, Balanced
  <2>7. QueueIsFilled'
    BY <1>0, <2>1, <2>2 DEF QueueIsFilled, CapacityOf
  <2> QED BY <1>01, <2>2, <2>6, <2>7 DEF Order, Quiet
<1>78. ASSUME CopyTail \/ LockWait \/ SpuriousWakeup \/ TestRemaining PROVE Order'
  BY <1>7, <1>8, <1>78
<1>9. ASSUME NEW w \in Workers, TakeChunk(w) PROVE Order'
  <2>1. /\ UNCHANGED <<threads_cnt, remaining, main, call>> /\ Pool!Take(w)
        /\ chunk' = [chunk EXCEPT ![w] = "copy"] /\ pc[w] # "run"
        /\ pc' = [pc EXCEPT ![w] = "run"]
    BY <1>9 DEF TakeChunk, Pool!Take, Pool!InBody, Pool!Goto
  <2>2. w \notin Busy /\ Busy' = Busy \union {w} /\ Submitted' = Submitted
    BY <1>0, <2>1 DEF Busy, ChunksRun, Submitted, Types
  <2>3. Cardinality(Busy') = Cardinality(Busy) + 1
    BY <2>2, BusyIsFinite, FS_AddElement
  <2>4. /\ actions'.count = actions.count - 1 /\ actions.count \in Nat \ {0}
        /\ actions' \in RingsOf(Chunks) /\ Filled(Chunks, actions')
        /\ CapacityOf(actions') = CapacityOf(actions)
    BY <1>0, <2>1, TakenChunk
  <2>5. Counts'
    <3>1. Unsubmitted' = Unsubmitted
      BY <2>1, <2>2 DEF Unsubmitted
    <3> QED BY <1>0, <1>01, <2>1, <2>3, <2>4, <3>1, BusyIsFinite DEF Counts, Balanced, Types
  <2>6. QueueIsFilled'
    BY <1>0, <2>1, <2>4 DEF QueueIsFilled, CapacityOf
  <2>7. Calling'
    BY <1>01, <2>1, <2>4 DEF Quiet, Calling
  <2> QED BY <1>01, <2>5, <2>6, <2>7 DEF Order, Quiet
<1>10. ASSUME NEW w \in Workers, CopyChunk(w) \/ LockCount(w) \/ NotifyMain(w) PROVE Order'
  <2>1. /\ UNCHANGED <<actions, threads_cnt, remaining, call>> /\ pc'[Main] = pc[Main]
        /\ main' = main \/ (main = "waiting" /\ main' = "wake")
    <3>1. CASE CopyChunk(w) \/ LockCount(w)
      BY <3>1 DEF CopyChunk, LockCount, poolVars
    <3>2. CASE NotifyMain(w)
      BY <1>0, <3>2 DEF NotifyMain, Pool!Finish, Pool!Goto, Types
    <3> QED BY <1>10, <3>1, <3>2
  <2>2. Busy' = Busy
    BY <1>0, <1>10 DEF CopyChunk, LockCount, NotifyMain, Busy, Types
  <2>3. Submitted' = Submitted /\ (Calling' <=> Calling)
    BY <2>1 DEF Submitted, Calling
  <2> QED BY <1>0, <2>1, <2>2, <2>3, QueueUntouched
<1>11. ASSUME NEW w \in Workers, CountDown(w) PROVE Order'
  <2>1. /\ UNCHANGED <<poolVars, threads_cnt, main, call>>
        /\ remaining' = (remaining - 1) % SizeValues
        /\ chunk[w] = "count" /\ chunk' = [chunk EXCEPT ![w] = "notify"]
    BY <1>11 DEF CountDown
  <2>2. w \in Busy /\ Busy' = Busy \ {w} /\ Submitted' = Submitted /\ (Calling' <=> Calling)
        /\ actions' = actions
    BY <1>0, <2>1 DEF Busy, Submitted, Calling, Types, poolVars
  <2>3. Cardinality(Busy') = Cardinality(Busy) - 1 /\ Cardinality(Busy) \in Nat /\ Cardinality(Busy') \in Nat
    BY <2>2, BusyIsFinite, FS_RemoveElement
  <2>4. Unsubmitted' = Unsubmitted /\ Unsubmitted >= 0
    BY <1>0, <2>1, <2>2 DEF Unsubmitted, Submitted, MainInPool, CallIsCut, Types
  <2>5. remaining = Unsubmitted + actions.count + Cardinality(Busy) /\ remaining <= call.tasks_cnt
    BY <1>0, <1>01 DEF Counts, Balanced
  <2>6. remaining - 1 \in 0..SizeValues - 1
    BY <1>0, <1>01, <2>3, <2>4, <2>5, Parameters DEF CallIsCut, Types, Balanced
  <2>7. remaining' = remaining - 1
    BY <2>1, <2>6, Parameters
  <2>8. Counts'
    BY <1>0, <1>01, <2>1, <2>2, <2>3, <2>4, <2>5, <2>7 DEF Counts, Balanced, Types
  <2>9. QueueIsFilled'
    BY <1>0, <2>1, <2>2 DEF QueueIsFilled, CapacityOf
  <2>10. QuietBetweenCalls'
    BY <1>01, <2>2 DEF Quiet
  <2> QED BY <2>8, <2>9, <2>10 DEF Order
<1>12. ASSUME NEW w \in Workers, PoolStep(w) \/ PoolSpuriousWakeup(w) PROVE Order'
  <2>1. UNCHANGED <<actions, callVars>> /\ pc'[Main] = pc[Main]
    BY <1>0, <1>12
       DEF PoolStep, PoolSpuriousWakeup, Pool!LockOuter, Pool!LockInner, Pool!LeaveLoop, Pool!Wait,
           Pool!ReturnIdle, Pool!SpuriousWakeup, Pool!Lock, Pool!Goto, Types
  <2>2. Busy' = Busy /\ Submitted' = Submitted /\ (Calling' <=> Calling)
    BY <2>1 DEF Busy, Submitted, Calling, callVars
  <2> QED BY <1>0, <2>1, <2>2, QueueUntouched DEF callVars
<1>13. CASE UNCHANGED vars
  <2>1. Busy' = Busy /\ Submitted' = Submitted /\ (Calling' <=> Calling)
    BY <1>13 DEF vars, poolVars, callVars, Busy, Submitted, Calling
  <2> QED BY <1>0, <1>13, <2>1, QueueUntouched DEF vars, poolVars, callVars
<1> QED
  BY <1>1, <1>2, <1>3, <1>4, <1>5, <1>6, <1>78, <1>9, <1>10, <1>11, <1>12, <1>13
     DEF Next, Proceed, Work

-----------------------------------------------------------------------------
(* Which bytes are copied, and by whom.                                    *)

Bytes == NothingMissed /\ ChunksInside

Waits == {"lock", "test", "waiting", "wake"}

LEMMA InitBytes == Init => Bytes
BY NoSlots, InitControl DEF Init, Bytes, NothingMissed, ChunksInside, Calling, Control

(* A step that neither queues nor takes nor copies anything.               *)
LEMMA BytesUntouched ==
  ASSUME IInv, actions' = actions, copied' = copied, Submitted' = Submitted,
         call'.size = call.size, call'.chunk_size = call.chunk_size,
         call'.tasks_cnt = call.tasks_cnt, Calling' => Calling, main' \in Waits => main \in Waits,
         \A w \in Workers : chunk'[w] = "copy" <=> chunk[w] = "copy",
         \A w \in Workers : chunk'[w] = "copy" => arg'[w] = arg[w],
         pc'[Main] = "submit" => arg'[Main] = [i |-> call'.i, chunk_size |-> call'.chunk_size]
  PROVE  Bytes'
<1>1. \A x : (Queued(x)' <=> Queued(x)) /\ (Held(x)' <=> Held(x))
  BY DEF Queued, Held, BytesOf, Block, Contents, Slot, CapacityOf
<1>2. NothingMissed'
  BY <1>1 DEF IInv, NothingMissed, Block, Waits
<1>3. ChunksInside'
  BY SMTT(30) DEF IInv, ChunksInside, BytesOf, Block, Contents, Slot, CapacityOf
<1> QED BY <1>2, <1>3 DEF Bytes

(* The bytes of the next chunk follow those of the chunks before it, and   *)
(* they are in the block.                                                  *)
LEMMA NextChunk ==
  ASSUME NEW a \in Nat, NEW i \in Nat, NEW n \in Nat, NEW size \in Nat, i < n, n * a <= size
  PROVE  /\ Block(i * a, a) \subseteq Block(0, size)
         /\ Block(0, (i + 1) * a) = Block(0, i * a) \union Block(i * a, a)
<1>1. (i + 1) * a = i * a + a /\ i * a \in Nat
  OBVIOUS
<1>2. (n - (i + 1)) * a >= 0
  OBVIOUS
<1>3. (n - (i + 1)) * a = n * a - (i + 1) * a /\ n * a \in Nat
  OBVIOUS
<1>4. i * a + a <= size
  BY <1>1, <1>2, <1>3
<1> DEFINE p == i * a
           q == (i + 1) * a
<1>5. p \in Nat /\ q = p + a /\ p + a <= size
  BY <1>1, <1>4
<1> HIDE DEF p, q
<1>6. Block(p, a) \subseteq Block(0, size) /\ Block(0, q) = Block(0, p) \union Block(p, a)
  BY <1>5 DEF Block
<1> QED BY <1>6 DEF p, q

LEMMA TailInside ==
  ASSUME NEW a \in Nat, NEW n \in Nat, NEW size \in Nat, n * a <= size
  PROVE  /\ Block(a * n, size - a * n) \subseteq Block(0, size)
         /\ Block(0, size) = Block(0, n * a) \union Block(a * n, size - a * n)
<1> DEFINE p == n * a
<1>1. p \in Nat /\ a * n = p /\ p <= size
  OBVIOUS
<1> HIDE DEF p
<1>2. /\ Block(p, size - p) \subseteq Block(0, size)
      /\ Block(0, size) = Block(0, p) \union Block(p, size - p)
  BY <1>1 DEF Block
<1> QED BY <1>1, <1>2 DEF p

LEMMA StepBytes == IInv /\ [Next]_vars => Bytes'
<1> SUFFICES ASSUME IInv, [Next]_vars PROVE Bytes'
  OBVIOUS
<1>0. /\ Types /\ MainInPool /\ ChunksRun /\ CallIsCut /\ QueueIsFilled /\ NothingMissed
      /\ ChunksInside /\ Main \notin Workers
  BY Parameters DEF IInv
<1>01. /\ actions.count \in Nat /\ (~Calling => actions.count = 0 /\ Busy = {})
       /\ \A w \in Workers : chunk[w] = "copy" => w \in Busy
  BY <1>0, QueueType, QuietIs DEF IInv, Quiet, Busy
<1>1. ASSUME NEW n \in 0..Cardinality(Workers), Initialize(n) PROVE Bytes'
  <2>1. UNCHANGED <<actions, copied, call, chunk, arg, pc>> /\ ~Calling' /\ main' \notin Waits
        /\ pc'[Main] = "ready"
    BY <1>0, <1>1 DEF Initialize, Calling, poolVars, Waits, MainInPool
  <2> QED BY <2>1, BytesUntouched DEF Submitted
<1>2. ASSUME Destroy PROVE Bytes'
  <2>1. /\ UNCHANGED <<actions, copied, call, chunk, arg>>
        /\ main = "destroy" /\ main' \in {"destroy", "construct"}
    BY <1>2 DEF Destroy, Pool!StopLock, Pool!StopSet, Pool!StopNotifyAll, Pool!StopJoin
  <2>2. pc[Main] # "notify" /\ pc'[Main] \notin {"notify", "submit"}
    BY <1>0, <1>2
       DEF Destroy, Pool!StopLock, Pool!StopSet, Pool!StopNotifyAll, Pool!StopJoin, Pool!Lock,
           Pool!Goto, Pool!Threads, MainInPool, Types
  <2>3. ~Calling' /\ Submitted' = Submitted /\ main' \notin Waits
    BY <2>1, <2>2 DEF Calling, Submitted, Waits
  <2> QED BY <2>1, <2>2, <2>3, BytesUntouched
<1>3. ASSUME ConstructPool PROVE Bytes'
  <2>1. /\ ~Calling /\ ~Calling' /\ UNCHANGED <<chunk, call, arg>> /\ pc'[Main] # "submit"
    BY <1>0, <1>3 DEF ConstructPool, Pool!Construct, Pool!Goto, Calling, MainInPool, Types
  <2>2. actions'.count = 0
    BY <1>0, <1>3, NewQueue, Parameters DEF ConstructPool, Types
  <2>3. \A w \in Workers : chunk[w] # "copy"
    BY <1>01, <2>1
  <2> QED BY <2>1, <2>2, <2>3 DEF Bytes, NothingMissed, ChunksInside
<1>4. ASSUME SpawnWorker PROVE Bytes'
  <2>1. /\ UNCHANGED <<actions, copied, call, chunk, arg>> /\ main' \in {"spawn", "idle"}
        /\ pc[Main] # "notify" /\ pc'[Main] \notin {"notify", "submit"}
    BY <1>0, <1>4 DEF SpawnWorker, Pool!Spawn, MainInPool, Types
  <2>2. ~Calling' /\ Submitted' = Submitted /\ main' \notin Waits
    BY <2>1 DEF Calling, Submitted, Waits
  <2> QED BY <2>1, <2>2, BytesUntouched
<1>5. ASSUME NEW size \in Sizes, Call(size) PROVE Bytes'
  <2>1. /\ UNCHANGED <<poolVars, chunk>> /\ main = "idle" /\ main' \in {"tail", "submit"}
        /\ copied' = {} /\ call'.i = 0 /\ call'.chunk_size = size \div (TasksCount(size) + 1)
    BY <1>5 DEF Call
  <2>2. call'.chunk_size \in Nat
    BY <1>0, <2>1, Cut, Parameters DEF Types
  <2>3. /\ UNCHANGED <<actions, pc, arg, chunk>> /\ actions.count = 0 /\ pc[Main] = "ready"
        /\ \A w \in Workers : chunk[w] # "copy"
    BY <1>0, <1>01, <2>1 DEF poolVars, Calling, MainInPool
  <2>4. Submitted' = 0 /\ 0 * call'.chunk_size = 0
    BY <2>1, <2>2, <2>3 DEF Submitted
  <2>5. Block(0, Submitted' * call'.chunk_size) = {}
    BY <2>4 DEF Block
  <2> QED BY <2>1, <2>3, <2>5 DEF Bytes, NothingMissed, ChunksInside, Block
<1>6. ASSUME SubmitChunk PROVE Bytes'
  <2>0. main = "submit" /\ main' \in {"submit", "tail"} /\ Calling /\ Calling' /\ main' \notin Waits
        /\ UNCHANGED <<chunk, copied>>
    BY <1>0, <1>6 DEF SubmitChunk, Calling, Types, Waits
  <2>1. CASE Pool!SubmitLock(Main, [i |-> call.i, chunk_size |-> call.chunk_size])
    <3>1. /\ UNCHANGED <<actions, call>> /\ pc[Main] # "notify" /\ pc'[Main] # "notify"
          /\ arg' = [arg EXCEPT ![Main] = [i |-> call.i, chunk_size |-> call.chunk_size]]
      BY <1>0, <1>6, <2>1
         DEF SubmitChunk, Pool!SubmitLock, Pool!SubmitPush, Pool!SubmitNotify, Pool!Lock, Pool!Goto, Types
    <3>2. Submitted' = Submitted /\ \A w \in Workers : arg'[w] = arg[w]
      BY <1>0, <3>1 DEF Submitted, Types
    <3>3. arg'[Main] = [i |-> call.i, chunk_size |-> call.chunk_size]
      BY <1>0, <3>1 DEF Types
    <3> QED BY <2>0, <3>1, <3>2, <3>3, BytesUntouched
  <2>2. CASE Pool!SubmitPush(Main)
    <3> DEFINE c == actions.count
    <3>1. /\ pc[Main] = "submit" /\ pc'[Main] = "notify" /\ UNCHANGED call
          /\ \A w \in Workers : arg'[w] = arg[w]
      BY <1>0, <1>6, <2>2 DEF SubmitChunk, Pool!SubmitLock, Pool!SubmitPush, Pool!SubmitNotify, Pool!Lock, Pool!Goto, Types
    <3>2. /\ actions'.count = c + 1
          /\ Contents(actions')[c + 1] = arg[Main]
          /\ \A k \in 1..c : Contents(actions')[k] = Contents(actions)[k]
      BY <1>0, <2>2, <3>1, RoomToPush, PushedChunk
    <3>3. /\ Submitted = call.i /\ Submitted' = call.i + 1
          /\ call.i \in Nat /\ call.chunk_size \in Nat /\ call.tasks_cnt \in Nat /\ call.size \in Nat
          /\ call.i < call.tasks_cnt /\ call.tasks_cnt * call.chunk_size <= call.size
      BY <1>0, <2>0, <3>1 DEF Submitted, Types, CallIsCut
    <3>4. arg[Main] = [i |-> call.i, chunk_size |-> call.chunk_size]
      BY <1>0, <3>1 DEF ChunksInside
    <3>5. BytesOf(arg[Main]) = Block(call.i * call.chunk_size, call.chunk_size)
      BY <3>4 DEF BytesOf
    <3>6. /\ BytesOf(arg[Main]) \subseteq Block(0, call.size)
          /\ Block(0, Submitted' * call.chunk_size)
               = Block(0, Submitted * call.chunk_size) \union BytesOf(arg[Main])
      <4>1. /\ Block(call.i * call.chunk_size, call.chunk_size) \subseteq Block(0, call.size)
            /\ Block(0, (call.i + 1) * call.chunk_size)
                 = Block(0, call.i * call.chunk_size) \union Block(call.i * call.chunk_size, call.chunk_size)
        BY <3>3, NextChunk
      <4>2. Submitted' * call.chunk_size = (call.i + 1) * call.chunk_size
        BY <3>3
      <4> QED BY <3>3, <3>5, <4>1, <4>2
    <3>7. \A k \in 1..c + 1 : k \in 1..c \/ k = c + 1
      BY <1>01
    <3>8. ChunksInside'
      BY <1>0, <2>0, <3>1, <3>2, <3>6, <3>7 DEF ChunksInside, BytesOf, Block
    <3>9. \A x : Held(x)' <=> Held(x)
      BY <2>0, <3>1 DEF Held, BytesOf, Block
    <3>10. \A x : Queued(x) \/ x \in BytesOf(arg[Main]) => Queued(x)'
      <4>1. c + 1 \in 1..c + 1 /\ \A k \in 1..c : k \in 1..c + 1
        BY <1>01
      <4> QED BY <4>1, <3>2 DEF Queued, BytesOf, Block
    <3>11. \A x \in Block(0, Submitted' * call.chunk_size) : x \in copied \/ Queued(x)' \/ Held(x)'
      BY <1>0, <2>0, <3>6, <3>9, <3>10 DEF NothingMissed
    <3>12. NothingMissed'
      BY <1>0, <2>0, <3>1, <3>11 DEF NothingMissed, Block, Waits
    <3> QED BY <3>8, <3>12 DEF Bytes
  <2>3. CASE Pool!SubmitNotify(Main)
    <3>1. /\ UNCHANGED <<actions, arg>> /\ pc[Main] = "notify" /\ pc'[Main] = "ready"
          /\ call' = [call EXCEPT !.i = @ + 1]
      BY <1>0, <1>6, <2>3
         DEF SubmitChunk, Pool!SubmitLock, Pool!SubmitPush, Pool!SubmitNotify, Pool!Lock, Pool!Goto,
             Pool!Waiting, Types
    <3>2. /\ Submitted' = Submitted /\ call'.size = call.size /\ call'.chunk_size = call.chunk_size
          /\ call'.tasks_cnt = call.tasks_cnt
      BY <1>0, <3>1 DEF Submitted, Types
    <3> QED BY <2>0, <3>1, <3>2, BytesUntouched
  <2> QED BY <1>6, <2>1, <2>2, <2>3 DEF SubmitChunk
<1>7. ASSUME CopyTail PROVE Bytes'
  <2> DEFINE rest == Block(call.chunk_size * call.tasks_cnt,
                           call.size - call.chunk_size * call.tasks_cnt)
  <2>1. /\ UNCHANGED <<actions, pc, arg, call, chunk>> /\ main = "tail" /\ main' = "lock"
        /\ copied' = copied \union rest
    BY <1>7 DEF CopyTail, poolVars
  <2>2. rest \subseteq Block(0, call.size)
    BY <1>0, TailInside DEF Types, CallIsCut
  <2>3. \A x : (Queued(x)' <=> Queued(x)) /\ (Held(x)' <=> Held(x))
    BY <2>1 DEF Queued, Held, BytesOf, Block, Contents, Slot, CapacityOf
  <2>4. Submitted' = Submitted /\ Calling
    BY <2>1 DEF Submitted, Calling
  <2> HIDE DEF rest
  <2>5. /\ copied' \subseteq Block(0, call.size) /\ rest \subseteq copied'
        /\ \A x \in Block(0, Submitted * call.chunk_size) : x \in copied' \/ Queued(x) \/ Held(x)
    BY <1>0, <2>1, <2>2, <2>4 DEF NothingMissed
  <2>6. NothingMissed'
    BY <2>1, <2>3, <2>4, <2>5 DEF NothingMissed, Block, rest
  <2>7. ChunksInside'
    BY <1>0, <2>1, SMTT(30) DEF ChunksInside, BytesOf, Block, Contents, Slot, CapacityOf
  <2> QED BY <2>6, <2>7 DEF Bytes
<1>8. ASSUME LockWait \/ SpuriousWakeup \/ (TestRemaining /\ remaining > 0) PROVE Bytes'
  <2>1. /\ UNCHANGED <<actions, pc, arg, copied, call, chunk>>
        /\ main \in Waits /\ main' \in Waits
    BY <1>8 DEF LockWait, SpuriousWakeup, TestRemaining, poolVars, Waits
  <2>2. Submitted' = Submitted /\ Calling /\ pc[Main] = "ready"
    BY <1>0, <2>1 DEF Submitted, Calling, Waits, MainInPool
  <2> QED BY <2>1, <2>2, BytesUntouched
<1>9. ASSUME TestRemaining, ~(remaining > 0) PROVE Bytes'
  <2>1. /\ main = "test" /\ main' = "idle" /\ UNCHANGED <<actions, pc, arg, chunk>>
    BY <1>9 DEF TestRemaining, poolVars
  <2>2. actions.count = 0 /\ Busy = {} /\ pc[Main] = "ready" /\ ~Calling'
    BY <1>0, <1>9, <2>1, WaitIsOver DEF MainInPool, Calling
  <2> QED BY <1>01, <2>1, <2>2 DEF Bytes, NothingMissed, ChunksInside
<1>89. ASSUME LockWait \/ SpuriousWakeup \/ TestRemaining PROVE Bytes'
  BY <1>8, <1>9, <1>89
<1>10. ASSUME NEW w \in Workers, TakeChunk(w) PROVE Bytes'
  <2>1. /\ UNCHANGED <<main, call, copied>> /\ Pool!Take(w)
        /\ chunk' = [chunk EXCEPT ![w] = "copy"] /\ pc[w] # "run"
        /\ pc' = [pc EXCEPT ![w] = "run"]
    BY <1>10 DEF TakeChunk, Pool!Take, Pool!InBody, Pool!Goto
  <2> DEFINE taken == Contents(actions)[1]
  <2>2. /\ actions'.count = actions.count - 1 /\ actions.count \in Nat \ {0}
        /\ taken \in Chunks /\ arg' = [arg EXCEPT ![w] = taken]
        /\ \A k \in 1..actions'.count : k + 1 \in 1..actions.count
                                        /\ Contents(actions')[k] = Contents(actions)[k + 1]
    BY <1>0, <2>1, TakenChunk
  <2>3. /\ chunk[w] = "none" /\ chunk'[w] = "copy" /\ arg'[w] = taken /\ pc'[Main] = pc[Main]
        /\ arg'[Main] = arg[Main]
        /\ \A v \in Workers : v # w => chunk'[v] = chunk[v] /\ arg'[v] = arg[v]
    BY <1>0, <2>1, <2>2 DEF ChunksRun, Types
  <2>4. /\ 1 \in 1..actions.count
        /\ \A k \in 1..actions.count : k = 1 \/ (k - 1 \in 1..actions'.count /\ (k - 1) + 1 = k)
    BY <2>2
  <2> HIDE DEF taken
  <2>5. ChunksInside'
    <3>1. BytesOf(taken) \subseteq Block(0, call.size)
      BY <1>0, <2>4 DEF ChunksInside, taken
    <3>2. \A v \in Workers : chunk'[v] = "copy" =>
            arg'[v] \in Chunks /\ BytesOf(arg'[v]) \subseteq Block(0, call.size)
      BY <1>0, <2>2, <2>3, <3>1 DEF ChunksInside
    <3>3. \A k \in 1..actions'.count : BytesOf(Contents(actions')[k]) \subseteq Block(0, call.size)
      BY <1>0, <2>2 DEF ChunksInside
    <3>4. pc'[Main] = "submit" => arg'[Main] = [i |-> call.i, chunk_size |-> call.chunk_size]
      BY <1>0, <2>3 DEF ChunksInside
    <3> QED BY <2>1, <3>2, <3>3, <3>4 DEF ChunksInside, BytesOf, Block
  <2>6. \A x : Queued(x) \/ Held(x) => Queued(x)' \/ Held(x)'
    <3> SUFFICES ASSUME NEW x, Queued(x) \/ Held(x) PROVE Queued(x)' \/ Held(x)'
      OBVIOUS
    <3>1. CASE x \in BytesOf(taken)
      BY <2>3, <3>1 DEF Held, BytesOf, Block
    <3>2. CASE Held(x)
      BY <2>3, <3>2 DEF Held, BytesOf, Block
    <3>3. ASSUME NEW k \in 1..actions.count, k # 1, x \in BytesOf(Contents(actions)[k])
          PROVE  Queued(x)'
      <4>1. k - 1 \in 1..actions'.count /\ Contents(actions')[k - 1] = Contents(actions)[k]
        BY <2>2, <2>4, <3>3
      <4> QED BY <3>3, <4>1 DEF Queued, BytesOf, Block
    <3> QED BY <3>1, <3>2, <3>3 DEF Queued, taken
  <2>7. Submitted' = Submitted /\ (Calling' <=> Calling)
    BY <2>1, <2>3 DEF Submitted, Calling
  <2>8. NothingMissed'
    <3>1. ASSUME Calling
          PROVE  \A x \in Block(0, Submitted * call.chunk_size) : x \in copied \/ Queued(x)' \/ Held(x)'
      BY <1>0, <2>6, <3>1 DEF NothingMissed
    <3> QED BY <1>0, <2>1, <2>7, <3>1 DEF NothingMissed, Block
  <2> QED BY <2>5, <2>8 DEF Bytes
<1>11. ASSUME NEW w \in Workers, CopyChunk(w) PROVE Bytes'
  <2>1. /\ UNCHANGED <<actions, pc, arg, main, call>> /\ chunk[w] = "copy"
        /\ chunk' = [chunk EXCEPT ![w] = "lock"] /\ copied' = copied \union BytesOf(arg[w])
    BY <1>11 DEF CopyChunk, poolVars, BytesOf
  <2>2. chunk'[w] = "lock" /\ \A v \in Workers : v # w => chunk'[v] = chunk[v]
    BY <1>0, <2>1 DEF Types
  <2>3. BytesOf(arg[w]) \subseteq Block(0, call.size)
    BY <1>0, <2>1 DEF ChunksInside
  <2>4. \A x : (Queued(x)' <=> Queued(x)) /\ (Held(x) => Held(x)' \/ x \in BytesOf(arg[w]))
    BY <2>1, <2>2 DEF Queued, Held, BytesOf, Block, Contents, Slot, CapacityOf
  <2>5. Submitted' = Submitted /\ (Calling' <=> Calling)
    BY <2>1 DEF Submitted, Calling
  <2>6. NothingMissed'
    <3>1. ASSUME Calling
          PROVE  /\ \A x \in Block(0, Submitted * call.chunk_size) : x \in copied' \/ Queued(x)' \/ Held(x)'
                 /\ copied' \subseteq Block(0, call.size) /\ copied \subseteq copied'
      BY <1>0, <2>1, <2>3, <2>4, <3>1 DEF NothingMissed
    <3> QED BY <1>0, <2>1, <2>5, <3>1 DEF NothingMissed, Block
  <2>7. ChunksInside'
    BY <1>0, <2>1, <2>2, SMTT(30) DEF ChunksInside, BytesOf, Block, Contents, Slot, CapacityOf
  <2> QED BY <2>6, <2>7 DEF Bytes
<1>12. ASSUME NEW w \in Workers, LockCount(w) \/ CountDown(w) \/ NotifyMain(w) PROVE Bytes'
  <2>1. /\ UNCHANGED <<actions, copied, call>> /\ pc'[Main] = pc[Main] /\ arg'[Main] = arg[Main]
        /\ main' = main \/ (main = "waiting" /\ main' = "wake")
        /\ \A v \in Workers : chunk'[v] = "copy" <=> chunk[v] = "copy"
        /\ \A v \in Workers : chunk'[v] = "copy" => arg'[v] = arg[v]
    <3>1. CASE LockCount(w) \/ CountDown(w)
      BY <1>0, <3>1 DEF LockCount, CountDown, poolVars, Types
    <3>2. CASE NotifyMain(w)
      BY <1>0, <3>2 DEF NotifyMain, Pool!Finish, Pool!Goto, Types
    <3> QED BY <1>12, <3>1, <3>2
  <2>2. Submitted' = Submitted /\ (Calling' <=> Calling) /\ (main' \in Waits => main \in Waits)
    BY <2>1 DEF Submitted, Calling, Waits
  <2> QED BY <1>0, <2>1, <2>2, BytesUntouched DEF ChunksInside
<1>13. ASSUME NEW w \in Workers, PoolStep(w) \/ PoolSpuriousWakeup(w) PROVE Bytes'
  <2>1. UNCHANGED <<actions, arg, callVars>> /\ pc'[Main] = pc[Main]
    BY <1>0, <1>13
       DEF PoolStep, PoolSpuriousWakeup, Pool!LockOuter, Pool!LockInner, Pool!LeaveLoop, Pool!Wait,
           Pool!ReturnIdle, Pool!SpuriousWakeup, Pool!Lock, Pool!Goto, Types
  <2>2. Submitted' = Submitted /\ (Calling' <=> Calling)
    BY <2>1 DEF Submitted, Calling, callVars
  <2> QED BY <1>0, <2>1, <2>2, BytesUntouched DEF callVars, ChunksInside
<1>14. CASE UNCHANGED vars
  <2>1. Submitted' = Submitted /\ (Calling' <=> Calling)
    BY <1>14 DEF vars, poolVars, callVars, Submitted, Calling
  <2> QED BY <1>0, <1>14, <2>1, BytesUntouched DEF vars, poolVars, callVars, ChunksInside
<1> QED
  BY <1>1, <1>2, <1>3, <1>4, <1>5, <1>6, <1>7, <1>89, <1>10, <1>11, <1>12, <1>13, <1>14
     DEF Next, Proceed, Work

-----------------------------------------------------------------------------

LEMMA InitInv == Init => IInv
BY InitControl, InitOrder, InitBytes DEF IInv, Control, Order, Bytes

LEMMA StepInv == IInv /\ [Next]_vars => IInv'
BY StepControl, StepOrder, StepBytes DEF IInv, Control, Order, Bytes

LEMMA InvAlways == Spec => []IInv
BY InitInv, StepInv, PTL DEF Spec

(* The ring never holds more than it has slots, although push_back does    *)
(* not check, and no chunk is written beyond the block, whatever the size, *)
(* the page size and the number of threads (parallel_memcpy).              *)
THEOREM MemcpyTypeCorrect == Spec => []TypeOK
<1>1. ASSUME IInv PROVE TypeOK
  <2>1. /\ actions.count \in 0..Len(actions.container)
    BY <1>1, QueueType DEF IInv
  <2>2. remaining \in 0..Cardinality(Workers) /\ call.tasks_cnt \in 0..threads_cnt
    BY <1>1, Parameters DEF IInv, Types, Counts, CallIsCut
  <2> QED BY <1>1, <2>1, <2>2 DEF IInv, Types, NothingMissed, TypeOK
<1> QED BY <1>1, InvAlways, PTL

(* The static counter is exact at every moment, though it is reused by the *)
(* next call, and its decrements, which are not checked, never wrap.       *)
THEOREM CounterIsExact == Spec => []RemainingCountsChunks
<1>1. IInv => RemainingCountsChunks
  BY DEF IInv, Counts
<1> QED BY <1>1, InvAlways, PTL

(* A call leaves no chunk behind that could write into the next block.     *)
THEOREM CallsEndQuietly == Spec => []QuietBetweenCalls
<1>1. IInv => QuietBetweenCalls
  BY DEF IInv
<1> QED BY <1>1, InvAlways, PTL

-----------------------------------------------------------------------------
(* parallel_memcpy implements Memcpy.                                      *)

TodoBar == IF Calling THEN Block(0, call.size) \ copied ELSE {}

(* When the wait is over every byte is written.                            *)
LEMMA AllCopied ==
  ASSUME IInv, main = "test", ~(remaining > 0)
  PROVE  Block(0, call.size) \subseteq copied
<1>1. /\ actions.count = 0 /\ Busy = {} /\ Submitted = call.tasks_cnt /\ Calling /\ Types
  BY WaitIsOver DEF IInv, Calling
<1>2. \A x : ~Queued(x) /\ ~Held(x)
  BY <1>1 DEF Queued, Held, Busy
<1>3. /\ Block(0, call.tasks_cnt * call.chunk_size) \subseteq copied
      /\ Block(call.chunk_size * call.tasks_cnt,
               call.size - call.chunk_size * call.tasks_cnt) \subseteq copied
  BY <1>1, <1>2 DEF IInv, NothingMissed
<1>4. /\ call.chunk_size \in Nat /\ call.tasks_cnt \in Nat /\ call.size \in Nat
      /\ call.tasks_cnt * call.chunk_size <= call.size
  BY <1>1 DEF IInv, CallIsCut, Types
<1>5. Block(0, call.size)
        = Block(0, call.tasks_cnt * call.chunk_size)
          \union Block(call.chunk_size * call.tasks_cnt, call.size - call.chunk_size * call.tasks_cnt)
  BY <1>4, TailInside
<1> QED BY <1>3, <1>5

LEMMA InitRefines == Init => Abstract!Init
BY DEF Init, Abstract!Init, Calling

(* A step that neither begins nor ends a call writes some of the bytes, or *)
(* none.                                                                   *)
LEMMA WriteRefines ==
  ASSUME Calling' <=> Calling, Calling => call'.size = call.size /\ copied \subseteq copied'
  PROVE  [Abstract!Next]_Abstract!vars
<1>1. CASE ~Calling
  BY <1>1 DEF Abstract!vars
<1>2. CASE Calling
  <2>1. TodoBar' = TodoBar \ (TodoBar \ TodoBar')
    BY <1>2 DEF TodoBar, Block
  <2>2. TodoBar \ TodoBar' \in SUBSET TodoBar
    OBVIOUS
  <2> QED BY <1>2, <2>1, <2>2 DEF Abstract!Next, Abstract!Write, TodoBar
<1> QED BY <1>1, <1>2

LEMMA StepRefines == IInv /\ [Next]_vars => [Abstract!Next]_Abstract!vars
<1> SUFFICES ASSUME IInv, [Next]_vars PROVE [Abstract!Next]_Abstract!vars
  OBVIOUS
<1>1. ASSUME NEW size \in Sizes, Call(size) PROVE Abstract!Call
  <2>1. ~Calling /\ Calling' /\ copied' = {} /\ call'.size = size /\ size \in Nat
    BY <1>1, Parameters DEF Call, Calling
  <2>2. TodoBar' = 0..size - 1
    BY <2>1 DEF TodoBar, Block
  <2> QED BY <2>1, <2>2 DEF Abstract!Call, TodoBar
<1>2. ASSUME TestRemaining, ~(remaining > 0) PROVE Abstract!Return
  <2>1. Calling /\ ~Calling' /\ main = "test"
    BY <1>2 DEF TestRemaining, Calling
  <2>2. TodoBar = {} /\ TodoBar' = {}
    BY <1>2, <2>1, AllCopied DEF TodoBar
  <2> QED BY <2>1, <2>2 DEF Abstract!Return, TodoBar
<1>3. ASSUME \/ \E n \in 0..Cardinality(Workers) : Initialize(n)
             \/ Destroy \/ ConstructPool \/ SpawnWorker
      PROVE  [Abstract!Next]_Abstract!vars
  <2>1. ~Calling /\ ~Calling'
    BY <1>3 DEF Initialize, Destroy, ConstructPool, SpawnWorker, Calling
  <2> QED BY <2>1, WriteRefines
<1>4. ASSUME \/ SubmitChunk \/ CopyTail \/ LockWait \/ SpuriousWakeup
             \/ (TestRemaining /\ remaining > 0)
      PROVE  [Abstract!Next]_Abstract!vars
  <2>1. /\ main \in {"submit", "tail", "lock", "test", "waiting", "wake"}
        /\ main' \in {"submit", "tail", "lock", "test", "waiting", "wake"}
        /\ copied \subseteq copied'
    BY <1>4 DEF SubmitChunk, CopyTail, LockWait, SpuriousWakeup, TestRemaining
  <2>2. call'.size = call.size
    BY <1>4 DEF IInv, Types, SubmitChunk, CopyTail, LockWait, SpuriousWakeup, TestRemaining
  <2> QED BY <2>1, <2>2, WriteRefines DEF Calling
<1>5. ASSUME NEW w \in Workers, Work(w) \/ PoolSpuriousWakeup(w) PROVE [Abstract!Next]_Abstract!vars
  <2>1. /\ main' = main \/ (main = "waiting" /\ main' = "wake")
        /\ call' = call /\ copied \subseteq copied'
    BY <1>5 DEF Work, TakeChunk, CopyChunk, LockCount, CountDown, NotifyMain, PoolStep,
                PoolSpuriousWakeup, callVars
  <2> QED BY <2>1, WriteRefines DEF Calling
<1>6. CASE UNCHANGED vars
  BY <1>6, WriteRefines DEF vars, callVars, Calling
<1>7. ASSUME TestRemaining PROVE [Abstract!Next]_Abstract!vars
  BY <1>2, <1>4, <1>7 DEF Abstract!Next
<1> QED BY <1>1, <1>3, <1>4, <1>5, <1>6, <1>7 DEF Next, Proceed, Abstract!Next

(* parallel_memcpy returns when every byte of the block is written and not *)
(* before, for any number of threads, any page size and any size, whatever *)
(* the workers are still doing for the previous call.                      *)
THEOREM CopyImplementsMemcpy == Spec => ImplementsMemcpy
<1>1. Init => Abstract!Init
  BY InitRefines
<1>2. IInv /\ [Next]_vars => [Abstract!Next]_Abstract!vars
  BY StepRefines
<1> QED BY <1>1, <1>2, InvAlways, PTL DEF Spec, ImplementsMemcpy, Abstract!Spec
=============================================================================
