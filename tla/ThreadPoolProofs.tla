-------------------------- MODULE ThreadPoolProofs --------------------------
(***************************************************************************)
(* Theorems about ThreadPool, for every number of workers, of clients and  *)
(* of actions and for every capacity.                                      *)
(***************************************************************************)
EXTENDS ThreadPool, BoundedDequeProofs, FiniteSetTheorems, TLAPS

-----------------------------------------------------------------------------
(* The inductive invariant.                                                *)

(* mutex_ is what its name says: a thread is at a point between a lock and *)
(* the next unlock only while it is the one that holds it.                 *)
MutexDiscipline == \A t \in Threads : pc[t] \in InCriticalSection => mutex = t

(* Between the caller's test and push_back nobody else can push, so that   *)
(* the room which the test saw is still there.                             *)
RoomToPush == \A c \in Clients : pc[c] = "submit" => actions.count < Capacity

(* The constructor is at work only while there are workers to spawn.       *)
SpawningCounts == pc[Owner] = "construct" => to_spawn > 0

(* Past the critical section of stop() the flag is set for good.           *)
StopIsSet == pc[Owner] \in {"notify_all", "join"} => stop

IInv == /\ TypeOK
        /\ MutexDiscipline
        /\ RoomToPush
        /\ SpawningCounts
        /\ StopIsSet

-----------------------------------------------------------------------------
(* Helpers                                                                 *)

(* The cursors wrap inside the ring.                                       *)
LEMMA ModInRange ==
  ASSUME NEW n \in Nat \ {0}, NEW a \in Int
  PROVE  a % n \in 0..n-1
  OBVIOUS

(* What the two cursor functions return for a ring of capacity Capacity.   *)
LEMMA CursorType ==
  ASSUME NEW d, CapacityOf(d) = Capacity, NEW pos \in 0..Capacity-1
  PROVE  Right(d, pos) \in 0..Capacity-1 /\ Left(d, pos) \in 0..Capacity-1
PROOF
  <1>1. Capacity \in Nat \ {0} /\ pos + 1 \in Int /\ pos + Capacity - 1 \in Int
    BY PoolAssumption
  <1>2. (pos + 1) % Capacity \in 0..Capacity-1
    BY <1>1, ModInRange
  <1>3. (pos + Capacity - 1) % Capacity \in 0..Capacity-1
    BY <1>1, ModInRange
  <1> QED
    BY <1>2, <1>3 DEF Right, Left

LEMMA RingCapacity ==
  ASSUME NEW d \in Rings
  PROVE  CapacityOf(d) = Capacity
  BY PoolAssumption DEF Rings, CapacityOf

(* push_back on a ring with room, and taking the front element out of a    *)
(* ring that is not empty, leave a ring.                                   *)
LEMMA PushBackType ==
  ASSUME NEW d \in Rings, NEW t \in Tasks \union {NoItem}, d.count < Capacity
  PROVE  PushBack(d, t) \in Rings
PROOF
  <1>1. Right(d, d.back_pos) \in 0..Capacity-1
    BY RingCapacity, CursorType DEF Rings
  <1>2. d.count + 1 \in 0..Capacity
    BY PoolAssumption DEF Rings
  <1>3. d.back_pos + 1 \in 1..Capacity
    BY PoolAssumption DEF Rings
  <1> QED
    BY <1>1, <1>2, <1>3 DEF Rings, PushBack

LEMMA PopFrontType ==
  ASSUME NEW d \in Rings, d.count > 0
  PROVE  PopFront(d) \in Rings
PROOF
  <1>1. Right(d, d.front_pos) \in 0..Capacity-1
    BY RingCapacity, CursorType DEF Rings
  <1>2. d.count - 1 \in 0..Capacity
    BY PoolAssumption DEF Rings
  <1> QED
    BY <1>1, <1>2 DEF Rings, PopFront

LEMMA FrontType ==
  ASSUME NEW d \in Rings
  PROVE  /\ Right(d, d.front_pos) + 1 \in 1..Capacity
         /\ Front(d) \in Tasks \union {NoItem}
         /\ [d EXCEPT !.container[Right(d, d.front_pos) + 1] = NoItem] \in Rings
PROOF
  <1>1. Right(d, d.front_pos) \in 0..Capacity-1
    BY RingCapacity, CursorType DEF Rings
  <1>2. Right(d, d.front_pos) + 1 \in 1..Capacity
    BY <1>1, PoolAssumption
  <1> QED
    BY <1>2 DEF Rings, Front, Slot

LEMMA NewDequeType == NewDeque(Capacity) \in Rings
PROOF
  <1>1. (Capacity \div 2 + 1) % Capacity \in 0..Capacity-1
    BY PoolAssumption, ModInRange
  <1>2. Capacity \div 2 \in 0..Capacity-1
    BY PoolAssumption
  <1>3. Capacity # 0 /\ 0 \in 0..Capacity
    BY PoolAssumption
  <1> QED
    BY <1>1, <1>2, <1>3 DEF NewDeque, Rings

-----------------------------------------------------------------------------
(* The invariant holds initially and is preserved by every step.           *)

(* Workers are neither clients nor the owner, and NoThread is no thread.   *)
LEMMA ThreadKinds ==
  /\ Owner \in Threads /\ Clients \subseteq Threads /\ Workers \subseteq Threads
  /\ \A w \in Workers : w # Owner /\ w \notin Clients
  /\ NoThread \notin Threads
  BY PoolAssumption DEF Threads

LEMMA InitInvariant == Init => IInv
PROOF
  <1> SUFFICES ASSUME Init PROVE IInv
    OBVIOUS
  <1>1. Cardinality(Workers) \in Nat /\ (Workers # {} => Cardinality(Workers) > 0)
    BY PoolAssumption, FS_CardinalityType, FS_EmptySet
  <1> USE ThreadKinds
  <1>2. TypeOK
    <2>1. to_spawn \in 0..Cardinality(Workers)
      BY <1>1 DEF Init
    <2>2. pc \in [Threads -> {"absent", "construct", "ready"}]
      BY DEF Init
    <2> QED
      BY <2>1, <2>2, NewDequeType DEF Init, TypeOK, Labels
  <1>3. MutexDiscipline /\ RoomToPush /\ StopIsSet
    BY DEF Init, MutexDiscipline, RoomToPush, StopIsSet, InCriticalSection
  <1>4. SpawningCounts
    BY <1>1 DEF Init, SpawningCounts
  <1> QED
    BY <1>2, <1>3, <1>4 DEF IInv

LEMMA StepInvariant == IInv /\ [Next]_vars => IInv'
PROOF
  <1> SUFFICES ASSUME IInv, [Next]_vars
               PROVE  IInv'
    OBVIOUS
  <1> USE ThreadKinds
  <1>1. ASSUME NEW w \in Workers, Spawn(w)
        PROVE  IInv'
    <2>1. TypeOK'
      <3>1. to_spawn > 0 /\ Cardinality(Workers) \in Nat
        BY <1>1, PoolAssumption, FS_CardinalityType DEF Spawn, IInv, SpawningCounts
      <3>2. to_spawn' \in 0..Cardinality(Workers)
        BY <1>1, <3>1 DEF Spawn, IInv, TypeOK, Labels
      <3> QED
        BY <1>1, <3>2 DEF Spawn, IInv, TypeOK, Labels
    <2>2. MutexDiscipline' /\ RoomToPush' /\ StopIsSet'
      BY <1>1 DEF Spawn, IInv, TypeOK, Labels, MutexDiscipline, RoomToPush, StopIsSet, InCriticalSection
    <2>3. SpawningCounts'
      BY <1>1 DEF Spawn, IInv, TypeOK, Labels, SpawningCounts
    <2> QED
      BY <2>1, <2>2, <2>3 DEF IInv
  <1>2. ASSUME StopLock \/ StopSet
        PROVE  IInv'
    <2>1. TypeOK'
      BY <1>2 DEF StopLock, StopSet, Lock, Unlock, Goto, IInv, TypeOK, Labels
    <2>2. MutexDiscipline'
      BY <1>2 DEF StopLock, StopSet, Lock, Unlock, Goto, IInv, TypeOK, Labels, MutexDiscipline, InCriticalSection
    <2>3. RoomToPush' /\ SpawningCounts' /\ StopIsSet'
      BY <1>2 DEF StopLock, StopSet, Lock, Unlock, Goto, IInv, TypeOK, Labels, RoomToPush, SpawningCounts, StopIsSet
    <2> QED
      BY <2>1, <2>2, <2>3 DEF IInv
  <1>3. ASSUME StopNotifyAll
        PROVE  IInv'
    <2>1. TypeOK'
      BY <1>3 DEF StopNotifyAll, IInv, TypeOK, Labels
    <2>2. MutexDiscipline' /\ RoomToPush' /\ SpawningCounts' /\ StopIsSet'
      BY <1>3 DEF StopNotifyAll, IInv, TypeOK, Labels, MutexDiscipline, InCriticalSection, RoomToPush,
                  SpawningCounts, StopIsSet
    <2> QED
      BY <2>1, <2>2 DEF IInv
  <1>4. ASSUME StopJoin
        PROVE  IInv'
    <2>1. TypeOK'
      BY <1>4 DEF StopJoin, IInv, TypeOK, Labels
    <2>2. MutexDiscipline' /\ RoomToPush' /\ SpawningCounts' /\ StopIsSet'
      BY <1>4 DEF StopJoin, IInv, TypeOK, Labels, MutexDiscipline, InCriticalSection, RoomToPush,
                  SpawningCounts, StopIsSet
    <2> QED
      BY <2>1, <2>2 DEF IInv
  <1>5. ASSUME NEW c \in Clients, NEW t \in Tasks, MaySubmit(t), SubmitLock(c, t)
        PROVE  IInv'
    <2>1. TypeOK'
      BY <1>5 DEF SubmitLock, Lock, Goto, IInv, TypeOK, Labels
    <2>2. MutexDiscipline'
      BY <1>5 DEF SubmitLock, Lock, Goto, IInv, TypeOK, Labels, MutexDiscipline, InCriticalSection
    <2>3. RoomToPush'
      BY <1>5 DEF SubmitLock, MaySubmit, Lock, Goto, IInv, TypeOK, Labels, RoomToPush
    <2>4. SpawningCounts' /\ StopIsSet'
      BY <1>5 DEF SubmitLock, Lock, Goto, IInv, TypeOK, Labels, SpawningCounts, StopIsSet
    <2> QED
      BY <2>1, <2>2, <2>3, <2>4 DEF IInv
  <1>6. ASSUME NEW c \in Clients, SubmitPush(c)
        PROVE  IInv'
    <2>1. actions.count < Capacity /\ arg[c] \in Tasks \union {NoItem} /\ actions \in Rings
      BY <1>6 DEF SubmitPush, IInv, TypeOK, Labels, RoomToPush
    <2>2. PushBack(actions, arg[c]) \in Rings
      BY <2>1, PushBackType
    <2>3. TypeOK'
      BY <1>6, <2>2 DEF SubmitPush, Unlock, Goto, IInv, TypeOK, Labels
    <2>4. MutexDiscipline'
      BY <1>6 DEF SubmitPush, Unlock, Goto, IInv, TypeOK, Labels, MutexDiscipline, InCriticalSection
    <2>5. RoomToPush'
      <3>1. \A d \in Clients : pc'[d] = "submit" => d # c /\ pc[d] = "submit"
        BY <1>6 DEF SubmitPush, Goto, IInv, TypeOK, Labels
      <3>2. \A d \in Clients : pc[d] = "submit" => d = c
        BY <1>6 DEF SubmitPush, Unlock, IInv, MutexDiscipline, InCriticalSection
      <3> QED
        BY <3>1, <3>2 DEF RoomToPush
    <2>6. SpawningCounts' /\ StopIsSet'
      BY <1>6 DEF SubmitPush, Goto, IInv, TypeOK, Labels, SpawningCounts, StopIsSet
    <2> QED
      BY <2>3, <2>4, <2>5, <2>6 DEF IInv
  <1>7. ASSUME NEW c \in Clients, SubmitNotify(c)
        PROVE  IInv'
    <2>1. TypeOK'
      BY <1>7 DEF SubmitNotify, Waiting, Goto, IInv, TypeOK, Labels
    <2>2. MutexDiscipline' /\ RoomToPush' /\ SpawningCounts' /\ StopIsSet'
      BY <1>7 DEF SubmitNotify, Waiting, Goto, IInv, TypeOK, Labels, MutexDiscipline, InCriticalSection,
                  RoomToPush, SpawningCounts, StopIsSet
    <2> QED
      BY <2>1, <2>2 DEF IInv
  <1>8. ASSUME NEW w \in Workers,
               \/ LockOuter(w) \/ LockInner(w) \/ LeaveLoop(w) \/ Wait(w)
               \/ ReturnIdle(w) \/ Finish(w) \/ SpuriousWakeup(w)
        PROVE  IInv'
    <2> USE DEF LockOuter, LockInner, LeaveLoop, Wait, ReturnIdle, Finish, SpuriousWakeup,
                InBody, Lock, Unlock, Goto
    <2>1. TypeOK'
      BY <1>8 DEF IInv, TypeOK, Labels
    <2>2. MutexDiscipline'
      BY <1>8 DEF IInv, TypeOK, Labels, MutexDiscipline, InCriticalSection
    <2>3. RoomToPush' /\ SpawningCounts' /\ StopIsSet'
      BY <1>8 DEF IInv, TypeOK, Labels, RoomToPush, SpawningCounts, StopIsSet
    <2> QED
      BY <2>1, <2>2, <2>3 DEF IInv
  <1>9. ASSUME NEW w \in Workers, Take(w)
        PROVE  IInv'
    <2> DEFINE moved == [actions EXCEPT
                           !.container[Right(actions, actions.front_pos) + 1] = NoItem]
    <2>1. actions \in Rings /\ actions.count > 0
      BY <1>9 DEF Take, IsEmpty, IInv, TypeOK, Labels, Rings
    <2>2. moved \in Rings /\ Front(actions) \in Tasks \union {NoItem}
      BY <2>1, FrontType
    <2>3. moved.count = actions.count
      BY <2>1 DEF Rings
    <2> HIDE DEF moved
    <2>4. PopFront(moved) \in Rings
      BY <2>1, <2>2, <2>3, PopFrontType
    <2>5. actions' = PopFront(moved)
      BY <1>9 DEF Take, moved
    <2>6. TypeOK'
      BY <1>9, <2>2, <2>4, <2>5 DEF Take, Unlock, Goto, IInv, TypeOK, Labels
    <2>7. MutexDiscipline'
      BY <1>9 DEF Take, InBody, Unlock, Goto, IInv, TypeOK, Labels, MutexDiscipline, InCriticalSection
    <2>8. RoomToPush'
      <3>1. actions'.count = actions.count - 1
        BY <2>2, <2>3, <2>5 DEF PopFront, Rings
      <3>2. actions.count \in Int /\ Capacity \in Int
        BY <2>1, PoolAssumption DEF Rings
      <3>3. \A c \in Clients : pc'[c] = pc[c]
        BY <1>9 DEF Take, Goto, IInv, TypeOK, Labels
      <3> QED
        BY <3>1, <3>2, <3>3 DEF IInv, RoomToPush
    <2>9. SpawningCounts' /\ StopIsSet'
      BY <1>9 DEF Take, Goto, IInv, TypeOK, Labels, SpawningCounts, StopIsSet
    <2> QED
      BY <2>6, <2>7, <2>8, <2>9 DEF IInv
  <1>10. CASE UNCHANGED vars
    BY <1>10 DEF vars, IInv, TypeOK, Labels, MutexDiscipline, RoomToPush, SpawningCounts, StopIsSet
  <1> QED
    BY <1>1, <1>2, <1>3, <1>4, <1>5, <1>6, <1>7, <1>8, <1>9, <1>10
       DEF Next, OwnerStep, Client, Worker

-----------------------------------------------------------------------------

(* ThreadPool!TypeOK: whatever the interleaving, the queue never holds     *)
(* more actions than it has slots nor fewer than none, although push_back  *)
(* and pop_front check neither, as long as callers submit into a pool with *)
(* room; and every thread stays within the code of its own role.           *)
THEOREM TypeCorrect == Spec => []TypeOK
PROOF
  <1>1. IInv => TypeOK
    BY DEF IInv
  <1> QED
    BY InitInvariant, StepInvariant, <1>1, PTL DEF Spec

-----------------------------------------------------------------------------
(* No lost wakeup.                                                         *)

LEMMA HandsFinite ==
  /\ IsFiniteSet(Awake) /\ Cardinality(Awake) \in Nat
  /\ IsFiniteSet(Notifying) /\ Cardinality(Notifying) \in Nat
PROOF
  <1>1. Awake \subseteq Workers /\ Notifying \subseteq Clients
    BY DEF Awake, Notifying
  <1>2. IsFiniteSet(Awake) /\ IsFiniteSet(Notifying)
    BY <1>1, PoolAssumption, FS_Subset
  <1> QED
    BY <1>2, FS_CardinalityType

LEMMA HandsFiniteNext ==
  /\ IsFiniteSet(Awake') /\ Cardinality(Awake') \in Nat
  /\ IsFiniteSet(Notifying') /\ Cardinality(Notifying') \in Nat
PROOF
  <1>1. Awake' \subseteq Workers /\ Notifying' \subseteq Clients
    BY DEF Awake, Notifying
  <1>2. IsFiniteSet(Awake') /\ IsFiniteSet(Notifying')
    BY <1>1, PoolAssumption, FS_Subset
  <1> QED
    BY <1>2, FS_CardinalityType

(* A step that takes nobody's hand away and puts nobody to sleep keeps the *)
(* invariant as long as it does not add an action.                         *)
LEMMA NoHandLost ==
  ASSUME WorkConserving, actions.count \in Nat, actions' = actions, ~stop' => ~stop,
         Waiting' \subseteq Waiting, Awake \subseteq Awake', Notifying \subseteq Notifying'
  PROVE  WorkConserving'
PROOF
  <1>1. /\ Cardinality(Awake) <= Cardinality(Awake')
        /\ Cardinality(Notifying) <= Cardinality(Notifying')
    BY HandsFiniteNext, FS_Subset
  <1>2. CASE ~stop' /\ Waiting' # {}
    <2>1. actions.count <= Cardinality(Awake) + Cardinality(Notifying)
      BY <1>2 DEF WorkConserving
    <2>2. actions.count <= Cardinality(Awake') + Cardinality(Notifying')
      BY <1>1, <2>1, HandsFinite, HandsFiniteNext
    <2> QED
      BY <2>2 DEF WorkConserving
  <1> QED
    BY <1>2 DEF WorkConserving

LEMMA StepWorkConserving == IInv /\ WorkConserving /\ [Next]_vars => WorkConserving'
PROOF
  <1> SUFFICES ASSUME IInv, WorkConserving, [Next]_vars
               PROVE  WorkConserving'
    OBVIOUS
  <1> USE ThreadKinds
  <1>0. actions.count \in Nat /\ pc \in [Threads -> Labels]
    BY PoolAssumption DEF IInv, TypeOK, Rings
  <1>1. ASSUME NEW w \in Workers,
               \/ Spawn(w) \/ LockOuter(w) \/ LockInner(w) \/ Finish(w) \/ SpuriousWakeup(w)
        PROVE  WorkConserving'
    <2>1. /\ pc'[w] \in {"lock", "outer", "wake", "inner"}
          /\ \A v \in Workers \ {w} : pc'[v] = pc[v]
          /\ \A c \in Clients : pc[c] = "notify" => pc'[c] = "notify"
      BY <1>1, <1>0 DEF Spawn, LockOuter, LockInner, Finish, SpuriousWakeup, Lock, Goto
    <2>2. Waiting' \subseteq Waiting /\ Awake \subseteq Awake' /\ Notifying \subseteq Notifying'
      BY <2>1 DEF Waiting, Awake, Notifying
    <2>3. actions' = actions /\ stop' = stop
      BY <1>1 DEF Spawn, LockOuter, LockInner, Finish, SpuriousWakeup
    <2> QED
      BY <1>0, <2>2, <2>3, NoHandLost
  <1>2. ASSUME \/ StopLock
               \/ \E c \in Clients, t \in Tasks : SubmitLock(c, t)
               \/ UNCHANGED vars
        PROVE  WorkConserving'
    <2>1. \A v \in Threads : pc'[v] = pc[v] \/ (pc[v] = "ready" /\ pc'[v] \in {"stop", "submit"})
      BY <1>2, <1>0 DEF StopLock, SubmitLock, Lock, Goto, vars
    <2>2. Waiting' \subseteq Waiting /\ Awake \subseteq Awake' /\ Notifying \subseteq Notifying'
      BY <2>1 DEF Waiting, Awake, Notifying
    <2>3. actions' = actions /\ stop' = stop
      BY <1>2 DEF StopLock, SubmitLock, vars
    <2> QED
      BY <1>0, <2>2, <2>3, NoHandLost
  <1>3. ASSUME \/ StopSet \/ StopNotifyAll \/ StopJoin
               \/ \E w \in Workers : LeaveLoop(w) \/ ReturnIdle(w)
        PROVE  WorkConserving'
    <2>1. stop'
      BY <1>3 DEF StopSet, StopNotifyAll, StopJoin, LeaveLoop, ReturnIdle, IInv, StopIsSet
    <2> QED
      BY <2>1 DEF WorkConserving
  <1>4. ASSUME NEW c \in Clients, SubmitPush(c)
        PROVE  WorkConserving'
    <2>1. /\ Waiting' = Waiting /\ Awake' = Awake
          /\ c \notin Notifying /\ Notifying' = Notifying \union {c}
      BY <1>4, <1>0 DEF SubmitPush, Goto, Waiting, Awake, Notifying
    <2>2. Cardinality(Notifying') = Cardinality(Notifying) + 1
      BY <2>1, HandsFinite, FS_AddElement
    <2>3. actions'.count = actions.count + 1 /\ stop' = stop
      BY <1>4 DEF SubmitPush, PushBack, IInv, TypeOK, Rings
    <2> QED
      BY <1>0, <2>1, <2>2, <2>3, HandsFinite DEF WorkConserving
  <1>5. ASSUME NEW c \in Clients, SubmitNotify(c)
        PROVE  WorkConserving'
    <2>0. actions' = actions /\ stop' = stop
      BY <1>5 DEF SubmitNotify
    <2>1. CASE Waiting = {} /\ Goto(c, "ready")
      <3>1. Waiting' = {}
        BY <2>1, <1>0 DEF Goto, Waiting
      <3> QED
        BY <3>1 DEF WorkConserving
    <2>2. ASSUME NEW w \in Waiting, pc' = [pc EXCEPT ![c] = "ready", ![w] = "wake"]
          PROVE  WorkConserving'
      <3>1. w \in Workers /\ pc[w] = "waiting" /\ pc[c] = "notify"
        BY <1>5, <2>2 DEF Waiting, SubmitNotify
      <3>2. /\ w \notin Awake /\ Awake' = Awake \union {w}
            /\ c \in Notifying /\ Notifying' = Notifying \ {c}
        BY <2>2, <3>1, <1>0 DEF Awake, Notifying
      <3>3. /\ Cardinality(Awake') = Cardinality(Awake) + 1
            /\ Cardinality(Notifying') = Cardinality(Notifying) - 1
        BY <3>2, HandsFinite, FS_AddElement, FS_RemoveElement
      <3> QED
        BY <1>0, <2>0, <2>2, <3>3, HandsFinite DEF WorkConserving
    <2> QED
      BY <1>5, <2>1, <2>2 DEF SubmitNotify
  <1>6. ASSUME NEW w \in Workers, Wait(w)
        PROVE  WorkConserving'
    <2>1. actions'.count = 0
      BY <1>6 DEF Wait, IsEmpty
    <2> QED
      BY <2>1, HandsFiniteNext DEF WorkConserving
  <1>7. ASSUME NEW w \in Workers, Take(w)
        PROVE  WorkConserving'
    <2>1. /\ Waiting' = Waiting /\ Notifying' = Notifying
          /\ w \in Awake /\ Awake' = Awake \ {w}
      BY <1>7, <1>0 DEF Take, InBody, Goto, Waiting, Awake, Notifying
    <2>2. Cardinality(Awake') = Cardinality(Awake) - 1
      BY <2>1, HandsFinite, FS_RemoveElement
    <2>3. actions'.count = actions.count - 1 /\ stop' = stop
      BY <1>7, FrontType DEF Take, PopFront, IInv, TypeOK, Rings
    <2> QED
      BY <1>0, <2>1, <2>2, <2>3, HandsFinite DEF WorkConserving
  <1> QED
    BY <1>1, <1>2, <1>3, <1>4, <1>5, <1>6, <1>7 DEF Next, OwnerStep, Client, Worker

(* ThreadPool!WorkConserving: although submit notifies one worker only,    *)
(* after unlocking, and that worker may be overtaken, no wakeup is lost: a *)
(* worker of a pool that is not stopped sleeps only while every queued     *)
(* action has a worker or a notification on its way.                       *)
THEOREM NoLostWakeup == Spec => []WorkConserving
PROOF
  <1>1. Init => WorkConserving
    BY ThreadKinds DEF Init, WorkConserving, Waiting
  <1> QED
    BY InitInvariant, StepInvariant, <1>1, StepWorkConserving, PTL DEF Spec

-----------------------------------------------------------------------------
(* The pool implements TaskQueue.                                          *)

(* The queue is a filled ring; a worker has an action while it runs it and *)
(* at no other point, a client while it is in submit; and stop_ is not set *)
(* before stop() sets it.                                                  *)
QueueIsFilled == actions \in RingsOf(Tasks) /\ Filled(Tasks, actions) /\ CapacityOf(actions) = Capacity

ActionsAreHeld ==
  /\ \A w \in Workers : IF pc[w] = "run" THEN arg[w] \in Tasks ELSE arg[w] = NoItem
  /\ \A c \in Clients : pc[c] = "submit" => arg[c] \in Tasks

OwnerStops == pc[Owner] = "stop" => ~stop

RInv == IInv /\ QueueIsFilled /\ ActionsAreHeld /\ OwnerStops

LEMMA InitRInv == Init => RInv
<1> SUFFICES ASSUME Init PROVE RInv
  OBVIOUS
<1> USE ThreadKinds
<1>1. IInv
  BY InitInvariant
<1>2. QueueIsFilled
  BY NewRing, PoolAssumption DEF Init, QueueIsFilled
<1>3. ActionsAreHeld
  BY DEF Init, ActionsAreHeld
<1>4. OwnerStops
  BY DEF Init, OwnerStops
<1> QED BY <1>1, <1>2, <1>3, <1>4 DEF RInv

\* What a step of the queue is made of: nothing else changes it.
LEMMA StepQueue == RInv /\ [Next]_vars => QueueIsFilled'
<1> SUFFICES ASSUME RInv, [Next]_vars PROVE QueueIsFilled'
  OBVIOUS
<1>0. QueueIsFilled /\ RoomToPush /\ ActionsAreHeld
  BY DEF RInv, IInv
<1>1. ASSUME NEW c \in Clients, SubmitPush(c) PROVE QueueIsFilled'
  <2>1. actions.count < CapacityOf(actions) /\ arg[c] \in Tasks
    BY <1>0, <1>1 DEF SubmitPush, RoomToPush, QueueIsFilled, ActionsAreHeld
  <2>2. /\ PushBack(actions, arg[c]) \in RingsOf(Tasks) /\ Filled(Tasks, PushBack(actions, arg[c]))
        /\ CapacityOf(PushBack(actions, arg[c])) = Capacity
    BY <1>0, <2>1, PushBackRing DEF QueueIsFilled
  <2> QED BY <1>1, <2>2 DEF SubmitPush, QueueIsFilled
<1>2. ASSUME NEW w \in Workers, Take(w) PROVE QueueIsFilled'
  <2> DEFINE e == PopFront([actions EXCEPT !.container[Right(actions, actions.front_pos) + 1] = NoItem])
  <2>1. e \in RingsOf(Tasks) /\ Filled(Tasks, e) /\ CapacityOf(e) = Capacity
    BY <1>0, <1>2, TakenRing DEF Take, QueueIsFilled
  <2>2. actions' = e
    BY <1>2 DEF Take
  <2> HIDE DEF e
  <2> QED BY <2>1, <2>2 DEF QueueIsFilled
<1>3. CASE UNCHANGED actions
  BY <1>0, <1>3 DEF QueueIsFilled
<1> QED
  BY <1>1, <1>2, <1>3
     DEF Next, vars, OwnerStep, Spawn, StopSet, StopNotifyAll, StopJoin, StopLock, Client,
         SubmitLock, SubmitNotify, Worker, LockOuter, LockInner, LeaveLoop, Wait, ReturnIdle,
         Finish, SpuriousWakeup

LEMMA StepHeld == RInv /\ [Next]_vars => (ActionsAreHeld /\ OwnerStops)'
<1> SUFFICES ASSUME RInv, [Next]_vars PROVE (ActionsAreHeld /\ OwnerStops)'
  OBVIOUS
<1>0. /\ QueueIsFilled /\ ActionsAreHeld /\ OwnerStops /\ StopIsSet
      /\ pc \in [Threads -> Labels] /\ arg \in [Threads -> Tasks \union {NoItem}]
      /\ workers \subseteq Workers
  BY DEF RInv, IInv, TypeOK
<1> USE ThreadKinds
<1>1. ASSUME NEW w \in Workers, Spawn(w) PROVE (ActionsAreHeld /\ OwnerStops)'
  BY <1>0, <1>1 DEF Spawn, ActionsAreHeld, OwnerStops
<1>2. ASSUME StopLock PROVE (ActionsAreHeld /\ OwnerStops)'
  BY <1>0, <1>2 DEF StopLock, Lock, Goto, ActionsAreHeld, OwnerStops
<1>3. ASSUME StopSet PROVE (ActionsAreHeld /\ OwnerStops)'
  BY <1>0, <1>3 DEF StopSet, Goto, ActionsAreHeld, OwnerStops
<1>4. ASSUME StopNotifyAll PROVE (ActionsAreHeld /\ OwnerStops)'
  BY <1>0, <1>4 DEF StopNotifyAll, Waiting, ActionsAreHeld, OwnerStops
<1>5. ASSUME StopJoin PROVE (ActionsAreHeld /\ OwnerStops)'
  BY <1>0, <1>5 DEF StopJoin, ActionsAreHeld, OwnerStops
<1>6. ASSUME NEW c \in Clients, NEW t \in Tasks, SubmitLock(c, t) PROVE (ActionsAreHeld /\ OwnerStops)'
  BY <1>0, <1>6 DEF SubmitLock, Lock, Goto, ActionsAreHeld, OwnerStops
<1>7. ASSUME NEW c \in Clients, SubmitPush(c) PROVE (ActionsAreHeld /\ OwnerStops)'
  BY <1>0, <1>7 DEF SubmitPush, Goto, ActionsAreHeld, OwnerStops
<1>8. ASSUME NEW c \in Clients, SubmitNotify(c) PROVE (ActionsAreHeld /\ OwnerStops)'
  BY <1>0, <1>8 DEF SubmitNotify, Goto, Waiting, ActionsAreHeld, OwnerStops
<1>9. ASSUME NEW w \in Workers, Take(w) PROVE (ActionsAreHeld /\ OwnerStops)'
  <2>1. Front(actions) \in Tasks
    BY <1>0, <1>9, FrontIsHead DEF Take, QueueIsFilled
  <2>2. /\ arg' = [arg EXCEPT ![w] = Front(actions)] /\ pc' = [pc EXCEPT ![w] = "run"]
        /\ stop' = stop
    BY <1>9 DEF Take, Goto
  <2> QED BY <1>0, <2>1, <2>2 DEF ActionsAreHeld, OwnerStops
<1>10. ASSUME NEW w \in Workers, Finish(w) PROVE (ActionsAreHeld /\ OwnerStops)'
  BY <1>0, <1>10 DEF Finish, Goto, ActionsAreHeld, OwnerStops
<1>11. ASSUME NEW w \in Workers,
              LockOuter(w) \/ LockInner(w) \/ LeaveLoop(w) \/ Wait(w) \/ ReturnIdle(w) \/ SpuriousWakeup(w)
       PROVE  (ActionsAreHeld /\ OwnerStops)'
  <2>1. /\ pc[w] # "run" /\ arg' = arg /\ stop' = stop
        /\ \E l \in Labels \ {"run", "submit", "stop"} : pc' = [pc EXCEPT ![w] = l]
    BY <1>11 DEF LockOuter, LockInner, LeaveLoop, Wait, ReturnIdle, SpuriousWakeup, Lock, Goto,
                 InBody, Labels
  <2> QED BY <1>0, <2>1 DEF ActionsAreHeld, OwnerStops
<1>12. CASE UNCHANGED vars
  BY <1>0, <1>12 DEF vars, ActionsAreHeld, OwnerStops
<1> QED
  BY <1>1, <1>2, <1>3, <1>4, <1>5, <1>6, <1>7, <1>8, <1>9, <1>10, <1>11, <1>12
     DEF Next, OwnerStep, Client, Worker

LEMMA StepRInv == RInv /\ [Next]_vars => RInv'
BY StepInvariant, StepQueue, StepHeld DEF RInv

RunningBar  == [w \in Workers |-> arg[w]]
MayStartBar == {w \in Workers : ~stop \/ pc[w] \in {"waiting", "wake", "inner"}}

LEMMA InitRefines == Init => Abstract!Init
<1> SUFFICES ASSUME Init PROVE Abstract!Init
  OBVIOUS
<1>1. Contents(actions) = <<>>
  BY NewRing, PoolAssumption DEF Init
<1>2. RunningBar = [w \in Workers |-> NoItem] /\ MayStartBar = Workers
  BY ThreadKinds DEF Init, RunningBar, MayStartBar
<1>3. ~stop
  BY DEF Init
<1> QED BY <1>1, <1>2, <1>3 DEF Abstract!Init, RunningBar, MayStartBar

LEMMA StepRefines == RInv /\ [Next]_vars => [Abstract!Next]_Abstract!vars
<1> SUFFICES ASSUME RInv, [Next]_vars PROVE [Abstract!Next]_Abstract!vars
  OBVIOUS
<1>0. /\ QueueIsFilled /\ ActionsAreHeld /\ OwnerStops /\ RoomToPush
      /\ pc \in [Threads -> Labels] /\ arg \in [Threads -> Tasks \union {NoItem}]
      /\ workers \subseteq Workers /\ stop \in BOOLEAN
  BY DEF RInv, IInv, TypeOK
<1> DEFINE Same == /\ actions' = actions /\ RunningBar' = RunningBar /\ stop' = stop
                   /\ MayStartBar' = MayStartBar
<1> USE ThreadKinds
<1>1. ASSUME NEW w \in Workers, Spawn(w) PROVE Same
  BY <1>0, <1>1 DEF Spawn, RunningBar, MayStartBar
<1>2. ASSUME StopLock PROVE Same
  BY <1>0, <1>2 DEF StopLock, Lock, Goto, RunningBar, MayStartBar
<1>3. ASSUME StopSet PROVE Abstract!Close
  <2>1. ~stop /\ stop' = TRUE /\ actions' = actions /\ RunningBar' = RunningBar
    BY <1>0, <1>3 DEF StopSet, OwnerStops, RunningBar
  <2>2. MayStartBar' \in SUBSET MayStartBar
    BY <1>0, <1>3, <2>1 DEF MayStartBar
  <2> QED BY <2>1, <2>2 DEF Abstract!Close, RunningBar, MayStartBar
<1>4. ASSUME StopNotifyAll PROVE Same
  BY <1>0, <1>4 DEF StopNotifyAll, Waiting, RunningBar, MayStartBar
<1>5. ASSUME StopJoin PROVE Same
  BY <1>0, <1>5 DEF StopJoin, RunningBar, MayStartBar
<1>6. ASSUME NEW c \in Clients, NEW t \in Tasks, SubmitLock(c, t) PROVE Same
  BY <1>0, <1>6 DEF SubmitLock, Lock, Goto, RunningBar, MayStartBar
<1>7. ASSUME NEW c \in Clients, SubmitPush(c) PROVE Abstract!Submit(arg[c]) /\ arg[c] \in Tasks
  <2>1. actions.count < CapacityOf(actions) /\ arg[c] \in Tasks
    BY <1>0, <1>7 DEF SubmitPush, RoomToPush, QueueIsFilled, ActionsAreHeld
  <2>2. Contents(PushBack(actions, arg[c])) = Append(Contents(actions), arg[c])
    BY <1>0, <2>1, PushBackRing DEF QueueIsFilled
  <2>3. Contents(actions)' = Append(Contents(actions), arg[c])
    BY <1>7, <2>2 DEF SubmitPush
  <2>4. RunningBar' = RunningBar /\ MayStartBar' = MayStartBar /\ stop' = stop
    BY <1>0, <1>7 DEF SubmitPush, Goto, RunningBar, MayStartBar
  <2> QED BY <2>1, <2>3, <2>4 DEF Abstract!Submit, RunningBar, MayStartBar
<1>8. ASSUME NEW c \in Clients, SubmitNotify(c) PROVE Same
  BY <1>0, <1>8 DEF SubmitNotify, Goto, Waiting, RunningBar, MayStartBar
<1>9. ASSUME NEW w \in Workers, LockOuter(w) \/ LockInner(w) PROVE Same
  BY <1>0, <1>9 DEF LockOuter, LockInner, Lock, Goto, RunningBar, MayStartBar
<1>10. ASSUME NEW w \in Workers, LeaveLoop(w) PROVE Same
  BY <1>0, <1>10 DEF LeaveLoop, Goto, RunningBar, MayStartBar
<1>11. ASSUME NEW w \in Workers, Wait(w) PROVE Same
  BY <1>0, <1>11 DEF Wait, Goto, RunningBar, MayStartBar
<1>12. ASSUME NEW w \in Workers, SpuriousWakeup(w) PROVE Same
  BY <1>0, <1>12 DEF SpuriousWakeup, Goto, RunningBar, MayStartBar
<1>13. ASSUME NEW w \in Workers, ReturnIdle(w) PROVE Abstract!Retire(w)
  <2>1. stop /\ stop' = stop /\ actions' = actions /\ RunningBar' = RunningBar
    BY <1>0, <1>13 DEF ReturnIdle, RunningBar
  <2>2. MayStartBar' = MayStartBar \ {w}
    BY <1>0, <1>13, <2>1 DEF ReturnIdle, Goto, MayStartBar
  <2> QED BY <2>1, <2>2 DEF Abstract!Retire, RunningBar, MayStartBar
<1>14. ASSUME NEW w \in Workers, Take(w) PROVE Abstract!Start(w)
  <2> DEFINE e == PopFront([actions EXCEPT !.container[Right(actions, actions.front_pos) + 1] = NoItem])
  <2>1. /\ InBody(w) /\ ~IsEmpty(actions) /\ actions' = e /\ stop' = stop
        /\ arg' = [arg EXCEPT ![w] = Front(actions)] /\ pc' = [pc EXCEPT ![w] = "run"]
    BY <1>14 DEF Take, Goto
  <2>2. Contents(e) = Tail(Contents(actions))
    BY <1>0, <2>1, TakenRing DEF QueueIsFilled
  <2>3. Contents(actions)' = Tail(Contents(actions))
    BY <2>1, <2>2
  <2> HIDE DEF e
  <2>4. Contents(actions) # <<>> /\ Front(actions) = Head(Contents(actions))
    BY <1>0, <2>1, FrontIsHead DEF QueueIsFilled
  <2>5. RunningBar[w] = NoItem /\ RunningBar' = [RunningBar EXCEPT ![w] = Head(Contents(actions))]
    BY <1>0, <2>1, <2>4 DEF InBody, ActionsAreHeld, RunningBar
  <2>6. w \in MayStartBar
    BY <2>1 DEF InBody, MayStartBar
  <2>7. MayStartBar' = IF ~stop THEN MayStartBar ELSE MayStartBar \ {w}
    BY <1>0, <2>1 DEF MayStartBar
  <2> QED BY <2>1, <2>3, <2>4, <2>5, <2>6, <2>7 DEF Abstract!Start, RunningBar, MayStartBar
<1>15. ASSUME NEW w \in Workers, Finish(w) PROVE Abstract!Finish(w)
  <2>1. RunningBar[w] # NoItem
    BY <1>0, <1>15, PoolAssumption DEF Finish, ActionsAreHeld, RunningBar
  <2>2. RunningBar' = [RunningBar EXCEPT ![w] = NoItem] /\ actions' = actions /\ stop' = stop
    BY <1>0, <1>15 DEF Finish, RunningBar
  <2>3. MayStartBar' = MayStartBar
    BY <1>0, <1>15 DEF Finish, Goto, MayStartBar
  <2> QED BY <2>1, <2>2, <2>3 DEF Abstract!Finish, RunningBar, MayStartBar
<1>16. ASSUME UNCHANGED vars PROVE Same
  BY <1>16 DEF vars, RunningBar, MayStartBar
<1>17. Same => UNCHANGED Abstract!vars
  BY DEF Abstract!vars, RunningBar, MayStartBar
<1> HIDE DEF Same
<1> QED
  BY <1>1, <1>2, <1>3, <1>4, <1>5, <1>6, <1>7, <1>8, <1>9, <1>10, <1>11, <1>12, <1>13,
     <1>14, <1>15, <1>16, <1>17
     DEF Next, OwnerStep, Client, Worker, Abstract!Next

\* Mutex, condition variable and ring together are a queue of actions: nothing is
\* lost, duplicated or reordered, and after stop() each idle worker starts at most
\* one more (execute_actions, submit, stop).
THEOREM PoolImplementsTaskQueue == Spec => ImplementsTaskQueue
<1>1. RInv /\ [Next]_vars => RInv'
  BY StepRInv
<1> QED
  BY <1>1, InitRInv, InitRefines, StepRefines, PTL DEF Spec, ImplementsTaskQueue, Abstract!Spec
=============================================================================
