----------------------------- MODULE ThreadPool -----------------------------
(***************************************************************************)
(* Assignment10/src/thread_pool.h: worker threads that take actions from a *)
(* bounded deque protected by mutex_, and sleep on cond_ while there are   *)
(* none.  One action per atomic step of a thread: acquiring the mutex, the *)
(* code up to the next unlock or wait, a notification made after the       *)
(* unlock, running an action.                                              *)
(*                                                                         *)
(* pc of a worker (execute_actions, unless said otherwise)                 *)
(*     absent    no such thread                                            *)
(*     lock      about to lock: on entry, or after running an action       *)
(*     outer     holds mutex_, about to test the outer loop condition      *)
(*     inner     holds mutex_, about to test the inner loop condition      *)
(*     waiting   blocked in cond_.wait, has released mutex_                *)
(*     wake      notified or woken spuriously, about to lock again         *)
(*     run       runs its action, without mutex_                           *)
(*     exited    has returned, not joined yet                              *)
(* pc of the other threads                                                 *)
(*     construct the constructor is spawning workers                       *)
(*     ready     outside the pool                                          *)
(*     submit    submit: holds mutex_;   notify: has released it           *)
(*     stop      stop: holds mutex_;     notify_all: has released it       *)
(*     join      stop: joining the workers                                 *)
(***************************************************************************)
EXTENDS BoundedDeque, FiniteSets

CONSTANTS
  Workers,       (* the worker threads the pool may spawn                  *)
  Clients,       (* the threads that call submit                           *)
  Owner,         (* the thread that constructs, stops and destroys it      *)
  Tasks,         (* the actions; one is not submitted again in flight      *)
  Capacity,      (* actions_capacity                                       *)
  NoThread       (* mutex_ is free                                         *)

ASSUME PoolAssumption ==
  /\ Capacity \in Nat \ {0}
  /\ IsFiniteSet(Workers) /\ IsFiniteSet(Clients)
  /\ Workers \intersect (Clients \union {Owner}) = {}
  /\ NoItem \notin Tasks
  /\ NoThread \notin Workers \union Clients \union {Owner}

VARIABLES
  actions,       (* actions_                                               *)
  stop,          (* stop_                                                  *)
  mutex,         (* the thread that holds mutex_, or NoThread              *)
  workers,       (* workers_: the threads spawned and not joined           *)
  to_spawn,      (* threads_cnt of the constructor, counting down          *)
  pc,            (* where each thread is, see above                        *)
  arg            (* a worker's action, a client's argument of submit       *)

vars == <<actions, stop, mutex, workers, to_spawn, pc, arg>>

Threads == Workers \union Clients \union {Owner}

Labels == {"absent", "lock", "outer", "inner", "waiting", "wake", "run", "exited",
           "construct", "ready", "submit", "notify", "stop", "notify_all", "join"}

InCriticalSection == {"outer", "inner", "submit", "stop"}

Goto(t, label) == pc' = [pc EXCEPT ![t] = label]

(* t, at label from, locks mutex_ and goes to label to.                    *)
Lock(t, from, to) == /\ pc[t] = from
                     /\ mutex = NoThread
                     /\ mutex' = t
                     /\ Goto(t, to)

Unlock(t) == mutex = t /\ mutex' = NoThread

Waiting == {w \in Workers : pc[w] = "waiting"}

(* The actions of the queue, of the workers and of callers inside submit.  *)
InFlight(t) ==
  \/ \E i \in 1..actions.count : Contents(actions)[i] = t
  \/ \E u \in Threads : arg[u] = t

-----------------------------------------------------------------------------
(* The owner: constructor, stop, destructor.                               *)

(* The constructor initialises the members and starts to spawn n workers.  *)
Construct(capacity, n) ==
  /\ actions' = NewDeque(capacity)
  /\ stop' = FALSE
  /\ mutex' = NoThread
  /\ workers' = {}
  /\ to_spawn' = n
  /\ Goto(Owner, IF n = 0 THEN "ready" ELSE "construct")
  /\ UNCHANGED arg

(* One round of the constructor's loop: the new thread runs at once.       *)
Spawn(w) ==
  /\ pc[Owner] = "construct"
  /\ pc[w] = "absent"
  /\ workers' = workers \union {w}
  /\ to_spawn' = to_spawn - 1
  /\ pc' = [pc EXCEPT ![w] = "lock",
                      ![Owner] = IF to_spawn = 1 THEN "ready" ELSE "construct"]
  /\ UNCHANGED <<actions, stop, mutex, arg>>

(* stop(), also what the destructor does unless stop_ is already set.      *)
StopLock ==
  /\ ~stop
  /\ Lock(Owner, "ready", "stop")
  /\ UNCHANGED <<actions, stop, workers, to_spawn, arg>>

StopSet ==
  /\ pc[Owner] = "stop"
  /\ stop' = TRUE
  /\ Unlock(Owner)
  /\ Goto(Owner, "notify_all")
  /\ UNCHANGED <<actions, workers, to_spawn, arg>>

(* Mutant of StopNotifyAll: cond_.notify_one in the place of notify_all.   *)
StopNotifyOne ==
  /\ pc[Owner] = "notify_all"
  /\ \/ /\ Waiting = {}
        /\ Goto(Owner, "join")
     \/ \E w \in Waiting : pc' = [pc EXCEPT ![Owner] = "join", ![w] = "wake"]
  /\ UNCHANGED <<actions, stop, mutex, workers, to_spawn, arg>>

StopNotifyAll ==
  /\ pc[Owner] = "notify_all"
  /\ pc' = [t \in Threads |-> IF t = Owner THEN "join"
                              ELSE IF t \in Waiting THEN "wake" ELSE pc[t]]
  /\ UNCHANGED <<actions, stop, mutex, workers, to_spawn, arg>>

(* The join loop ends when the last worker has returned; then workers_ is  *)
(* cleared.                                                                *)
StopJoin ==
  /\ pc[Owner] = "join"
  /\ \A w \in workers : pc[w] = "exited"
  /\ pc' = [t \in Threads |-> IF t = Owner THEN "ready"
                              ELSE IF t \in workers THEN "absent" ELSE pc[t]]
  /\ workers' = {}
  /\ UNCHANGED <<actions, stop, mutex, to_spawn, arg>>

-----------------------------------------------------------------------------
(* A client: submit(action).                                               *)

SubmitLock(c, t) ==
  /\ Lock(c, "ready", "submit")
  /\ arg' = [arg EXCEPT ![c] = t]
  /\ UNCHANGED <<actions, stop, workers, to_spawn>>

SubmitPush(c) ==
  /\ pc[c] = "submit"
  /\ actions' = PushBack(actions, arg[c])
  /\ arg' = [arg EXCEPT ![c] = NoItem]
  /\ Unlock(c)
  /\ Goto(c, "notify")
  /\ UNCHANGED <<stop, workers, to_spawn>>

(* Mutant of SubmitNotify: submit notifies only if the queue was empty     *)
(* before its push, relying on a worker that is awake to take the rest.    *)
NotifyFirstOnly(c) ==
  /\ pc[c] = "notify"
  /\ \/ /\ Waiting = {} \/ actions.count > 1
        /\ Goto(c, "ready")
     \/ /\ actions.count <= 1
        /\ \E w \in Waiting : pc' = [pc EXCEPT ![c] = "ready", ![w] = "wake"]
  /\ UNCHANGED <<actions, stop, mutex, workers, to_spawn, arg>>

(* Mutant of SubmitNotify: submit returns without notifying.               *)
NotifyForgotten(c) ==
  /\ pc[c] = "notify"
  /\ Goto(c, "ready")
  /\ UNCHANGED <<actions, stop, mutex, workers, to_spawn, arg>>

(* notify_one wakes one of the waiting workers, if there is any.           *)
SubmitNotify(c) ==
  /\ pc[c] = "notify"
  /\ \/ /\ Waiting = {}
        /\ Goto(c, "ready")
     \/ \E w \in Waiting : pc' = [pc EXCEPT ![c] = "ready", ![w] = "wake"]
  /\ UNCHANGED <<actions, stop, mutex, workers, to_spawn, arg>>

-----------------------------------------------------------------------------
(* A worker: execute_actions().                                            *)

LockOuter(w) == /\ Lock(w, "lock", "outer")
                /\ UNCHANGED <<actions, stop, workers, to_spawn, arg>>

LockInner(w) == /\ Lock(w, "wake", "inner")
                /\ UNCHANGED <<actions, stop, workers, to_spawn, arg>>

(* The outer loop ends: an action that is still queued stays there.        *)
LeaveLoop(w) ==
  /\ pc[w] = "outer"
  /\ stop
  /\ Unlock(w)
  /\ Goto(w, "exited")
  /\ UNCHANGED <<actions, stop, workers, to_spawn, arg>>

(* The points of the outer loop's body where its thread holds mutex_.      *)
InBody(w) == pc[w] = "inner" \/ (pc[w] = "outer" /\ ~stop)

(* cond_.wait releases mutex_ and blocks in one step.                      *)
Wait(w) ==
  /\ InBody(w)
  /\ ~stop /\ IsEmpty(actions)
  /\ Unlock(w)
  /\ Goto(w, "waiting")
  /\ UNCHANGED <<actions, stop, workers, to_spawn, arg>>

SpuriousWakeup(w) ==
  /\ pc[w] = "waiting"
  /\ Goto(w, "wake")
  /\ UNCHANGED <<actions, stop, mutex, workers, to_spawn, arg>>

(* The inner loop ends because of stop_, and there is nothing to run.      *)
ReturnIdle(w) ==
  /\ pc[w] = "inner"
  /\ stop /\ IsEmpty(actions)
  /\ Unlock(w)
  /\ Goto(w, "exited")
  /\ UNCHANGED <<actions, stop, workers, to_spawn, arg>>

(* Mutant of Take: the worker takes the action submitted last.             *)
TakeNewest(w) ==
  /\ InBody(w)
  /\ ~IsEmpty(actions)
  /\ arg' = [arg EXCEPT ![w] = Back(actions)]
  /\ actions' = PopBack(actions)
  /\ Unlock(w)
  /\ Goto(w, "run")
  /\ UNCHANGED <<stop, workers, to_spawn>>

(* The front action is moved out, which leaves an empty one in its slot,   *)
(* and popped.  A worker that stop_ woke takes it too.                     *)
Take(w) ==
  /\ InBody(w)
  /\ ~IsEmpty(actions)
  /\ arg' = [arg EXCEPT ![w] = Front(actions)]
  /\ LET moved == [actions EXCEPT
                     !.container[Right(actions, actions.front_pos) + 1] = NoItem]
     IN  actions' = PopFront(moved)
  /\ Unlock(w)
  /\ Goto(w, "run")
  /\ UNCHANGED <<stop, workers, to_spawn>>

(* The action returns, or throws a std::exception that is caught here.     *)
Finish(w) ==
  /\ pc[w] = "run"
  /\ arg' = [arg EXCEPT ![w] = NoItem]
  /\ Goto(w, "lock")
  /\ UNCHANGED <<actions, stop, mutex, workers, to_spawn>>

-----------------------------------------------------------------------------

(* The pool whose constructor has initialised the members and is about to  *)
(* spawn all of Workers.                                                   *)
Init ==
  /\ actions = NewDeque(Capacity)
  /\ stop = FALSE
  /\ workers = {}
  /\ to_spawn = Cardinality(Workers)
  /\ mutex = NoThread
  /\ pc = [t \in Threads |-> IF t \in Workers THEN "absent"
                             ELSE IF t = Owner /\ Workers # {} THEN "construct"
                             ELSE "ready"]
  /\ arg = [t \in Threads |-> NoItem]

Worker(w) == \/ LockOuter(w) \/ LockInner(w) \/ LeaveLoop(w) \/ Wait(w)
             \/ ReturnIdle(w) \/ Take(w) \/ Finish(w)

OwnerStep == (\E w \in Workers : Spawn(w)) \/ StopSet \/ StopNotifyAll \/ StopJoin

(* What callers must see to, because push_back does not check: the pool is *)
(* constructed, the queue is not full, the action is not in flight.        *)
MaySubmit(t) == /\ pc[Owner] # "construct"
                /\ actions.count < Capacity
                /\ ~InFlight(t)

Client(c) == \/ \E t \in Tasks : MaySubmit(t) /\ SubmitLock(c, t)
             \/ SubmitPush(c)
             \/ SubmitNotify(c)

Next == \/ OwnerStep \/ StopLock
        \/ \E c \in Clients : Client(c)
        \/ \E w \in Workers : Worker(w) \/ SpuriousWakeup(w)

(* The scheduler runs every thread that can run: a call that has started   *)
(* goes on and a worker goes on.  Nobody has to submit or to stop, and     *)
(* nothing is assumed about who gets a contended mutex.                    *)
Fairness == /\ WF_vars(OwnerStep)
            /\ \A c \in Clients : WF_vars(SubmitPush(c) \/ SubmitNotify(c))
            /\ \A w \in Workers : WF_vars(Worker(w))

Spec == Init /\ [][Next]_vars

FairSpec == Spec /\ Fairness

-----------------------------------------------------------------------------
(* A ring of Capacity slots with its cursors inside it.                    *)
Rings == [container : [1..Capacity -> Tasks \union {NoItem}],
          front_pos : 0..Capacity - 1,
          back_pos  : 0..Capacity - 1,
          count     : 0..Capacity]

(* Type invariant: the queue holds no more than its capacity, and each     *)
(* thread is at a point of the code.                                       *)
TypeOK ==
  /\ actions \in Rings
  /\ stop \in BOOLEAN
  /\ mutex \in Threads \union {NoThread}
  /\ workers \subseteq Workers
  /\ to_spawn \in 0..Cardinality(Workers)
  /\ pc \in [Threads -> Labels]
  /\ arg \in [Threads -> Tasks \union {NoItem}]

(* The workers that will look at the queue before they block again, and    *)
(* the clients that still owe a notification.                              *)
Awake     == {w \in Workers : pc[w] \in {"lock", "outer", "wake", "inner"}}
Notifying == {c \in Clients : pc[c] = "notify"}

(* submit notifies one worker after it has released mutex_, and a notified *)
(* worker may find the queue emptied by another.  All the same, as long as *)
(* the pool is not stopped, a worker sleeps only if every queued action    *)
(* has its own worker on the way, or its own notification.                 *)
WorkConserving ==
  ~stop /\ Waiting # {} =>
    actions.count <= Cardinality(Awake) + Cardinality(Notifying)

(* Ring, mutex and condition variable together behave as a queue of        *)
(* actions: nothing is lost, duplicated, overwritten or reordered, and a   *)
(* stopped pool starts at most one more action for each idle worker        *)
(* (execute_actions, submit, stop).                                        *)
Abstract ==
  INSTANCE TaskQueue
    WITH queue    <- Contents(actions),
         running  <- [w \in Workers |-> arg[w]],
         open     <- ~stop,
         mayStart <- {w \in Workers : ~stop \/ pc[w] \in {"waiting", "wake", "inner"}}

ImplementsTaskQueue == Abstract!Spec

(* A queued action is started, unless the pool is stopped first: no        *)
(* wakeup is lost (submit, the inner loop of execute_actions).             *)
EveryTaskStarts ==
  \A t \in Tasks :
    (\E i \in 1..actions.count : Contents(actions)[i] = t)
      ~> (stop \/ \A i \in 1..actions.count : Contents(actions)[i] # t)

(* stop() returns: every worker leaves its loop and can be joined, those   *)
(* that slept and those that were running an action.                       *)
StopReturns == pc[Owner] = "notify_all" ~> pc[Owner] = "ready"

=============================================================================
