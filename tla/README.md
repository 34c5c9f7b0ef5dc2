# Formal models of vm-design

The repository is a collection of programs around the Lama virtual machine: a
runtime with a mark-compact collector, several bytecode tools and interpreters,
and a set of concurrent or low-level C++ components (pools, shared strings, safe
reads, a parallel copy). This directory holds TLA+ modules of the parts whose
correctness is hard to test, the TLC configurations that check them on small
instances, and proofs, checked by TLAPS, of what must hold for every instance.

Run a model with `tlc -config X.cfg M`, a proof with `tlapm M.tla`.
`PROJECT.json` lists the runs, the source lines of every definition, the mutants
(one plausible bug for each property, which the property must detect), the
hazards with the properties that watch them, and the findings.

## 1. Inventory

| Part | State it keeps | Operations | Interacts with | What is hard about it |
|---|---|---|---|---|
| `runtime/gc.c` collector | heap (begin, current, size), objects with mark/enqueued bits and forward addresses, extra roots | `alloc`, mark, compute locations, update references, relocate | reads and rewrites the interpreter's stack through `__gc_stack_top/bottom`; is called by the runtime | the queue of marking lives in the objects; references are redirected while objects are still where they were; which words are roots |
| `runtime/runtime.c` | none of its own | `Bstring`, `Lstring`, `Barray`, `Bsexp`, `Bclosure`, `Bsta`, printers, comparisons | allocates on behalf of the interpreter, registers roots | arguments that a collection moves during the call |
| Assignment04 interpreter | stack of words, frames, instruction pointer | one handler per instruction | runtime and collector | allocations may move everything that the stack refers to |
| Assignment04 verifier | work list, depth of the stack per offset, current function | one loop over the work list before the execution | writes into the bytecode that the interpreter executes | which function an instruction is verified for, joins of paths, termination, what it leaves to trust |
| Assignment02 interpreter | as above, checks at run time | as above | as above | as above |
| Assignment03 file reader | the bytecode file in memory, its counters | `read_file`, `add_*` | the file; the analyzer | sizes that are computed before anything of the file is known to be there |
| Assignment03 idiom analyzer | reachable addresses, jump targets, work list, idioms, counts | worklist, scan, sort | file reader, disassembler | which instructions always run one after the other, whatever order they were found in |
| byterun `disassemble_instruction` | none | length of an instruction | the idiom analyzer | operands that decide how far the code is read |
| Assignment05 Truffle interpreter | tree of nodes | `execute` of each node | framework | specialisation (generated code) |
| Assignment06 pool | bump pointer and guard | allocate, handler of SIGSEGV | the kernel | the end of the pool is noticed by a fault only |
| Assignment07 pools | bump pointer, mutex or atomic | `allocate`, constructor, destructor | registry, handler of SIGSEGV | concurrent allocation; a full pool |
| Assignment07 registry | two arrays of atomic words | `register_pool`, `unregister_pool`, `find_pool` | life of pools, signal handler | a record of two words updated without a lock |
| Assignment08 `string_ptr` | one word: pointer and bit | copies, moves, assignments, swap, destructor | heap | who frees, without a count |
| Assignment09 `safe_read_uint8` | static pointer, jump buffer, old handlers | read, signal handler | the kernel, the program's own handlers | static state shared by threads and handlers, a handler that is left by a jump |
| Assignment10 `bounded_deque` | ring, two cursors, count | pushes, pops, ends, copies, moves, swap | thread pool | wrap-around, unchecked capacity |
| Assignment10 `thread_pool` | deque, mutex, condition variable, flag | constructor, `submit`, `stop`, worker loop | deque, callers | lost wakeups, stopping |
| Assignment10 `parallel_memcpy` | pool, counter, mutex, condition variable, all static | `initialize_thread_pool`, `parallel_memcpy`, chunk tasks | thread pool | reuse of static state by the next call, sizes below a page |
| Assignment01, the rest of byterun, tests, benchmarks | | | | timing, printing and scripts: nothing to model |

What makes each of them correct, in the words of the properties below:

* *collector*: the interpreter cannot tell that it is there; its queue holds
  objects only and each once; a collection keeps what is live, nothing else, and
  leaves room for what is asked for.
* *thread pool*: actions start once and in order, no wakeup is lost, `stop` returns.
* *parallel copy*: a call writes every byte and returns when nothing of it is
  left running; the counter counts this call's chunks only.
* *deque*: the ring is a bounded double-ended sequence.
* *pools*: objects are disjoint and inside the pool; a full pool ends the process
  and no write ever leaves the pool.
* *registry*: a live pool has a slot of its own; the guard that was hit is found.
* *verifier*: it ends; what it accepts, an interpreter without validations executes
  as one with validations would; what it rejects is ill-formed.
* *interpreters*: the depth of the stack at an instruction is the same whenever it
  is executed, and no more than was measured.
* *shared strings*: the one that frees a string is the only one that refers to it;
  users see independent values.
* *file reader and idiom analyzer*: the code is what the header leaves of the file;
  the idioms are the reachable instructions and the pairs of them that are
  straight-line code, each with its frequency; every sound file is answered.
* *safe read*: no fault ends the program and the handlers come back, as long as reads
  do not overlap.

## 2. Modules

| Module | Source | Kind |
|---|---|---|
| `BoundedDeque` | `Assignment10/src/bounded_deque.h` | operators on a deque value: slots, cursors, count |
| `DequeObjects` | the same | several deque objects under every operation; refines `Deque` |
| `Deque` | | abstract: sequences of bounded length |
| `ThreadPool` | `Assignment10/src/thread_pool.h` | threads, mutex, condition variable, on top of `BoundedDeque`; refines `TaskQueue` |
| `TaskQueue` | | abstract: a queue of actions and idle workers |
| `ParallelMemcpy` | `Assignment10/src/parallel_memcpy.cpp` | the copy, composed with all of `ThreadPool` by INSTANCE; refines `Memcpy` |
| `Memcpy` | | abstract: a call, writes in any order, a return when nothing is left |
| `LamaGC` | `runtime/gc.c`, allocation in `runtime/runtime.c`, stack instructions of `Assignment04/src/interpreter.cpp` | collector and interpreter together; refines `ObjectGraph` |
| `ObjectGraph` | | abstract: a stack and a graph of objects that never move, and stay while they can be reached |
| `Bytecode` | `Assignment04/src/bytefile.h`, `get_stack_delta` of the verifier | instructions, the shared operand of BEGIN |
| `Verifier` | `Assignment04/src/verifier.{h,cpp}` | the loop over the work list |
| `Interpreter` | `interpreter.{h,cpp}` of Assignment04 and, with `checking`, Assignment02 | one action per handler |
| `StackDiscipline` | | abstract: what a well-formed program is |
| `VerifiedInterpreter` | `Assignment04/src/main.cpp`, `verify` | verifier and interpreter on the same code; against `StackDiscipline`, and against the checking interpreter |
| `MemoryPool` | `Assignment07/src/pool.h`, `pool.cpp` | both shared pools; refines `Arena` |
| `Arena` | | abstract: disjoint blocks as long as they fit |
| `PoolThreads` | | what `MemoryPool` and `PoolRegistry` share: the threads, and their counters `pc` |
| `PoolRegistry` | `Assignment07/src/pool_registry.cpp`, `sigsegv_handler.cpp`, the life of thread-local pools | a table of atomic words, writers and searching signal handlers |
| `StringPtr` | `Assignment08/src/string_ptr.{h,cpp}` | objects with one bit of ownership; refines `StringValues` |
| `StringValues` | | abstract: independent string values |
| `Disassembler` | `disassemble_instruction` of `byterun/byterun.c` | operators on a sequence of bytes: length and faults of an instruction |
| `FileReader` | `Assignment03/src/file_reader.cpp`, `bytefile.cpp` | the file read piece by piece, on top of `Disassembler` |
| `IdiomAnalyzer` | `Assignment03/src/idiom_analyzer.{h,cpp}`, `main.cpp` | worklist, scan and sort, after `FileReader`; against a definition of reachable code and of straight-line pairs |
| `SafeRead` | `Assignment09/src/safe_read_uint8.cpp`; the program around it like `main.cpp` | threads, dispositions of signals, static variables; the kernel is external |
| `ThreadPoolProofs`, `ParallelMemcpyProofs`, `LamaGCProofs`, `BoundedDequeProofs`, `IdiomAnalyzerProofs`, `VerifiedInterpreterProofs` | | theorems about the module of that name |
| `PoolProofs` | | theorems about `MemoryPool`, `PoolRegistry` and `SafeRead` |
| `ObjectProofs` | | theorems about `StringPtr` and `DequeObjects` |
| `MC*` | | instances for TLC |

Definitions that begin with "Mutant of" are bugs that somebody could have
written there; they are used nowhere in the models.

### How the modules correspond to the code

*Threads.* A thread has a program counter `pc`, which names the point of the code
where it is. One action is what a thread does between two points at which others
can see a difference: the acquisition of a mutex, the code up to the next unlock
or wait, a notification made after the unlock, one atomic load, store or
exchange. Memory is sequentially consistent; all shared data but the atomics of
the registry and the lock-free pool is protected by mutexes in the code.

*Condition variables.* `wait` releases the mutex and blocks in one step,
`notify_one` wakes any one waiting thread, and a waiting thread may wake up for
no reason (`SpuriousWakeup`).

*Deque.* `front_pos`, `back_pos`, `count` and the slots are those of the class;
slots are numbered from 0 and kept in a sequence, `Slot` translates. No operation
checks the capacity, and neither does the model: callers do, and the invariants
say that they do. The move constructor leaves the source as its inverted test
leaves it (`MovedFrom`), which is fit for assignment and destruction only, and
divides by zero without slots; the model does not move from an object without slots.

*Parallel copy.* `call` holds the locals of `parallel_memcpy`; the subtraction in
`size / pagesize - 1` wraps (`SizeValues`). `copied` is the part of the
destination that has been written. The main thread replaces the pool between
calls. `initialize_thread_pool` assigns the number of threads after the pool is
there; the model does it before, since only the main thread reads it.

*Collector.* Offsets count words; an object is a record with its kind, fields,
forward address and two bits, in a function from offsets. A collection is a
sequence of steps: one per root, one per dequeued object, one per
field of it, one for locations and references together, one per relocated object. The
queue is where it is in the code: element k in the forward address of object k.
`mmap` may return any mapping but the current one, so that a mapping comes back
after two collections. What the interpreter does is `Execute`: instructions that
move words, read and write fields, call, return and allocate. Arithmetic, jumps,
tests and I/O keep no references and are left out; jumps in particular only
choose between sequences of instructions, and the model may take any sequence. A
closure takes the word above the top of the stack for one of its captured values
(`Execute`: CLOSURE); the model allocates one where that word is a number or refers to
an object, since what holds of the collector assumes so much of its roots. `program`,
chosen at the start, says what a behaviour allocates.

*Bytecode.* An address is the index of an instruction, not the offset of a byte: a
jump into the middle of an instruction is not a program of the model. A word on
the stack is an integer, a reference to an object, the address of a stack cell or of a
captured value, or none of these (`Raw`: a word that nobody has written, the zero
that a write leaves). Objects stay where they are; moving them is the subject of
`LamaGC`. Integers are `IntBits` wide and wrap.

*Verifier.* One action is one turn of the loop of `traverse_bytecode`: the top of
the work list is a function to return to (`LeaveFrame`), an instruction that was
visited before (`Revisit`), or one to visit, by kind of instruction. What has no
stack effect of its own is in `Size`, `Recorded`, `Measured`; what is validated is in
`DepthValid` and `VisitValid`, and `Reject` is the end of the process. `MergeValid`
is kept although it always holds: the code compares the depth with the one it has
just recorded itself. The work list lives in the array of the stack and is not
bounded, in the code as in the model.

*Interpreters.* The handlers of Assignment02 and Assignment04 differ in what they
validate, and so the module has one action per handler and a variable `checking`.
`Execute` gives every handler its order: operands, number of words on the stack, what
must hold for the code to be defined, what it validates, effect. A read or write
outside of the stack, or of the header of a word that is no reference to an object,
ends the behaviour with `status = "undefined"`; nothing is claimed of what follows. That
the verifier of Assignment04 has had its work list in the same array is left out: its words
are `Raw` like those of an array that nobody has written to, although one of them may look
like an integer to the code, which then goes on where the model has failed or ended.

*The process.* `VerifiedInterpreter` verifies and then interprets the same `code`;
with `checking` it interprets at once. Auxiliary constants of a behaviour are
computed from the program: `labels` (function and depth of each instruction),
`returning`, `compiled` (the program is well-formed). `strayed` remembers whether the
verifier visited an instruction for a function that it does not belong to. The run
starts at address 0, where the compiler puts main; the verifier starts at the symbol
main and the interpreter at 0, whatever is there.

*Pools.* Addresses are offsets from `base_`; the guard is the lowest part. A
write to the guard is `Fault`, which takes the thread to the handler and the
process to its end. A write below the pool would be silent in the program and is
what `NoWildWrite` excludes.

*Registry.* Addresses are page numbers and a pool is two pages, the guard and one
for objects. A fault is either in the guard of the thread's own pool, or at an
address that is not mapped. A search that has found a pool ends the process; one that
has not leaves the signal to what was set before, which ends the process (`EndProcess`) or
lets the thread go on (`Return`). `disturbed` is an auxiliary variable: it says whether
the table was incomplete or changed during a search.

*Shared strings.* One thread; one action per call. `memory` is what `new` and
`free` manage. `shared` is an auxiliary variable that remembers which strings two
objects have referred to at the same time.

*Files and idioms.* A file is a sequence of bytes, which need not be true. One action
is one read of the file, or one iteration of a loop of the analyzer; `stage` says in
which loop it is. A word has `W` bytes, so that the arithmetic of addresses (an operand
begins one byte after the opcode, `addr + length`) is that of the code. The counters
that nobody initialises are `clean`: what the new memory holds is chosen when the
bytefile is made, and what follows is `undefined` when it is not zero. Where the length
of an instruction depends on bytes beyond the code the model stops as well, and where an
opcode names no operator and no pattern (`NoName`: the table of names is read beyond its
ends). Offsets into the string table are not looked at: the code prints what is there,
whether they are in the table or not. `sort` is
the operator of a sorted sequence; the run lengths that are counted on it are modelled.

*Safe read.* The kernel's part is in `Fault`, `Install` and `Save`: `sigaction` makes
the new disposition effective before the old one is stored in user memory, so that
these are two steps; a fault at a blocked or ignored signal kills; a handler runs with
its signal blocked. `siglongjmp` restores the mask and continues at `sigsetjmp`. A jump
into the environment of another thread is `status = "undefined"`. The program sets
dispositions and faults itself where its own handler recovers by a jump, as `main.cpp`
does in `test_external_handler`. `wanted`, `overlapped` and `raced` are auxiliary.

## 3. Runs

| Run | Instance | Checks | States |
|---|---|---|---|
| `deque` | two objects, two items, capacities 1 to 3 | `EndsAreElements`, refinement of `Deque` | 50,175 |
| `pool` | three workers, two clients, three actions, capacity 2 | `WorkConserving`, refinement of `TaskQueue`, `EveryTaskStarts`, `StopReturns` | 76,373 |
| `memcpy` | two workers, pages of 2 bytes, sizes 0, 1, 3, 5, 8, pools of 0 to 2 threads | `TypeOK`, `RemainingCountsChunks`, `QuietBetweenCalls`, refinement of `Memcpy`, `CallReturns` | 28,920 |
| `gc` | heap of 6 words, two mappings, four programs: arrays of strings and arrays; S-expressions whose fields are assigned, with arrays of more words than there are extra roots; closures; calls | `GCTypeOK`, `QueueHoldsObjects`, `CollectionIsExact`, refinement of `ObjectGraph`, `AllocationEnds` | 619,407 |
| `gc_globals` | one global variable | violation of `QueueHoldsObjects` | |
| `memory_pool` | two threads, objects of 1 or 2 bytes, room for 4 and a guard of 4, either kind of pool | `NoWildWrite`, refinement of `Arena`, `FullPoolEnds` | 12,126 |
| `registry` | three threads, two slots, three mappings | `PoolsKeepTheirSlots`, `GuardHitFound`, `BlamesRightPool` | 122,169 |
| `string_ptr` | four objects, four addresses, two strings | `OnlySharedStringsLeak`, refinement of `StringValues` | 907 |
| `idioms` | 3,422 files: every code of up to two instructions over jumps, calls, closures and ends, of three over jumps, of five with repetitions and an end, closures with bodies, one or two entries; files that are cut short or untrue | `CodeIsWhatIsLeft`, `ReachableIsLeast`, `IdiomsAreStraightLine`, `CountsAreFrequencies`, `ScanMeetsNoError`, `FilesAreAnswered` | 63,804 |
| `safe_read` | two threads, one address that is mapped, two that are not, one beyond the end of a file, one that is not canonical | `OnlyRacesEnd`, `HandlersComeBack`, `AccessesEnd` | 529,920 |
| `verified` | 2,401 programs: every main of four instructions over seven (read, drop, jump back, conditional jump, call, load of an argument, end), and eight programs that use the rest; the latter also for the checking interpreter | `TypeOK`, `DepthCountsFrames`, `VerifierEnds`, `OnlyVerifiedCodeRuns`, `DepthIsStatic`, `MeasuredIsEnough`, `ChecksAreRedundant` | 509,720 |
| `verified_branches` | one program, `Branches` | violation of `AcceptsCompiled` | |

What each passing run shows is in its `about` in `PROJECT.json`. The type invariants that
no run checks are theorems (section 5), and so is `OwnerIsAlone`.

### Why the bounds are enough

* `deque`: capacities 1 to 3 let both cursors go round the ring in both
  directions, meet, and be side by side; capacity 1 is the one in which they are
  the same slot. Two objects are what copies, moves and swaps need.
* `pool`: three workers are what it takes for one to sleep, one to be woken and
  one to take the action before it. Two clients contend for the mutex, and two
  slots are fewer than the actions.
* `memcpy`: sizes below a page (where the number of chunks wraps), of one page
  and beyond, with and without a remainder. Any number of calls and replacements.
* `gc`: the heap is full after one or two allocations, so that almost every
  behaviour collects several times, with garbage before, between and behind live
  objects; two mappings take turns, so that stale addresses of two collections ago
  are in range again. Each program has a stack of 4 or 5 words and is stopped from
  allocating when its objects have 4 to 7 words: more live words than the heap had at
  first, so that it grows.
* `memory_pool`: the guard has room for exactly one object of each thread, which
  is the case at the limit. By hand also with a capacity of 5 (692,558 states).
* `registry`: more threads than slots, so that a slot has several owners and the
  table overflows. By hand also with three slots (2.02 million states).
* `string_ptr`: four objects are two that share, one that has been assigned from
  them and a temporary; addresses are used again after they are freed. A shared
  string never is, so that four addresses are used up in the end.

* `idioms`: two instructions in front of the end are enough for every way that a
  second one can be reached (by running on, by a jump, after a call, as an entry) in
  every order; three give pairs that a jump leads into; five that repeat, before an end,
  have texts that occur up to five times in runs that finish. Jumps go to every address, also into the middle of an
  instruction. A word has one byte, and `MaxIdioms`, the memory, is more than the idioms
  of any sound file here.
* `safe_read`: the second thread is what a race needs. Two addresses that are not mapped
  let a thread fault beside the address that the other one reads. `GoesOn = FALSE`:
  after reads have overlapped the program begins nothing new, since the properties say
  nothing of it any more.
* `verified`: four instructions are a loop, a branch and a call in any order, with
  ways that meet, ways that do not end and code that nothing reaches; ill-formed
  programs are among them. The larger programs use every instruction, every kind of
  variable, closures, recursion up to the limit of frames and the end of the code.
  `HalfWord` is larger than any depth, so that the measured depth is never cut; in
  the code it is cut at 65,536, below the size of the stack.

The properties about accepted programs assume what the verifier does not establish
(`Trusted`): depths agree where ways meet (the comparison in `process_jmp` and
`process_cjmp` is of a depth with itself); locals are in range (after the first END
of a function they are compared with the packed operand); no closures (their code is
not verified); and no instruction was verified for a function that it does not belong
to (the finding below). `MeasuredIsEnough` also asks that the function can come to its
end from wherever it is, since the depth is stored at its ends only.
`OnlyVerifiedCodeRuns` assumes nothing but leaves out what is within a closure
(`InClosure`), which may be what nobody has verified. `DepthIsStatic`
needs none of this but a well-formed program. Well-formedness (`Disciplined`) is
decided by a definition of its own, which looks at all ways through a function, and
not by the code of the verifier.
Part of it is that a function is entered by calls only: a way that leads back to a BEGIN
makes a second frame for one call, and with it a depth that nobody has counted (the program
`Reentrant`; neither the verifier nor the interpreter minds it).

Named bounds: `Programs` (words of stack, frames, live words and the sizes of what is
built) and `Ids` of `LamaGC` limit the program, not the collector; `MaxObjects` of
`Interpreter` limits the allocations of a behaviour, which ends there; `MaxIdioms` of
`IdiomAnalyzer` is the memory, whose end the code meets as an exception; `GoesOn` of
`SafeRead` ends a program after a race. Everything else is a parameter of the code.

The passing run of the collector has no global variables, no locals, and closures only
where the word above the stack is no reference from before a collection. Globals are what
`gc_globals` is about. Locals are reserved without being initialised, so that a stale word
on the stack becomes a root in the same way, and so does the extra word that `Bclosure`
takes: no run has a stale word of either kind, nor has any theorem about references.

`CHECK_DEADLOCK FALSE` is set where the system may stop: a stopped thread pool
with joined workers; a process that has ended (`gc*`, `memory_pool`, `registry`, `verified*`).

### Fairness

* `ThreadPool`, `ParallelMemcpy`: weak fairness of each thread that is within a
  call or in the worker loop. The scheduler of the operating system runs every
  thread that can run. Nothing is assumed about who gets a contended mutex, and
  nobody has to call `submit`, `stop` or `parallel_memcpy`. Actions of the pool
  are assumed to return. `CallReturns` is for behaviours with finitely many
  spurious wakeups.
* `LamaGC`: an allocation goes on; the program need not begin one.
* `MemoryPool`: a thread that has begun an allocation goes on, and so does the
  signal handler.
* `VerifiedInterpreter`: weak fairness of the verifier, which is a loop of one thread
  that waits for nothing. Nothing is assumed about the interpreter.
* `IdiomAnalyzer`: weak fairness of the program, which is one thread that waits for
  nothing; reads of a file return.
* `SafeRead`: weak fairness of each thread that is in a read or at an access of its own.
  The system runs every thread; nobody has to begin a read, nor set a handler. A handler
  that returns to the instruction that has faulted may do so for ever: `AccessesEnd` is
  for behaviours without races.
* The others state no liveness and no fairness.

## 4. Findings

* `gc_globals`. The interpreter of Assignment04 has its global variables at the
  bottom of its stack, and the scan of the stack begins one word above it. Global 0
  is neither a root nor redirected. After a collection it is a stale address.
  The comment in `gc.c` says that the queue of marking holds valid objects only.
* `verified_branches`. Where a branch contains a call, the function that is called is
  verified before the other branch, and the END of that function does not make the
  caller the current function again. The other branch is verified with the arguments
  and locals of the wrong function: a legal index is called out of bounds.

Seen while modelling and not made into a run:

* `Bclosure` is told of one captured value more than there is. The word above the top of
  the stack becomes an extra root and a field of the closure: where it is a reference
  from before a collection the queue holds what is no object, and where it refers to an
  object, that object lives as long as the closure. `NewClosure` has a guard that leaves
  the first case out; without it `QueueHoldsObjects` does not hold.
* The idiom analyzer follows the operand of CALLC, a number of arguments, as if it were an
  address, and does not follow the bodies of closures. What it reaches is therefore what
  control can get to only where no CALLC is reached, and `ReachableIsLeast` says so: with
  one it says which set it is instead (`IsFollowed`). No comment or test of the repository
  says that closures are covered.
* The counters `stringtab_size` and `public_symbols_number` of a bytefile start from what
  the memory held before.
* Two reads at once leave `sig_handler` installed for good, and a fault is then handled
  with what the last of them has left in the statics. Also after a single read `saved_ptr`
  stays set, but the handler is gone. The texts that `sig_handler` prints are a static
  array: the name of the signal is that of the first fault for ever.
* The comparison of depths at jumps, the locals compared with the packed operand, and
  closures without verification, all three above; CLOSURE counts for `captured + 1` in
  the verifier although it leaves one word, so that code after it is measured too deep;
  BEGIN asks for the measured depth without the locals; CJMPNZ jumps on 1 only.

## 5. Proofs

TLC checks instances; the theorems hold for every value of the constants that
satisfies the named assumptions of the modules.

**`ThreadPoolProofs`** (`PoolAssumption`: finite sets of threads, capacity at least 1).
`TypeCorrect`, `NoLostWakeup` and `PoolImplementsTaskQueue`. The type invariant is not
inductive: that the ring does not overflow depends on the mutex, between the caller's
test of the capacity and the push. `IInv` adds that a thread within a critical section holds
the mutex, that there is room while a client is about to push, and two facts about
constructor and `stop`. `WorkConserving` is inductive on top of it. It counts: every
action in the queue has a worker that is awake or a notification that is still
due. Each step moves at most one hand, and the lemmas about cardinalities say so.
The refinement of `TaskQueue` needs `RInv`: the queue is a filled ring, of which the
operations make what the lemmas of `BoundedDequeProofs` say; a worker has an action
exactly while it runs it or is about to; and `stop` is not set before `stop()` sets it.

**`ParallelMemcpyProofs`** (`MemcpyAssumption`: finitely many workers, fewer than `size_t`
has values; pages of at least one byte). `MemcpyTypeCorrect`, `CounterIsExact`,
`CallsEndQuietly` and `CopyImplementsMemcpy`, about the copy on top of the whole pool. The
invariant has three parts. `Control`: where the main thread is in the pool for each place
in `parallel_memcpy`; a worker runs an action exactly while it is within `memcpy_chunk`;
the chunks and the tail are within the block. `Order`: the queue is a filled ring with a
slot for each thread of the pool, and `remaining_tasks_cnt` is exact, from which follow
the room for each push, that the counter does not wrap, and that nothing is queued or
copied when the wait is over. `Bytes`: each byte of the chunks that were submitted is
copied, or in a queued chunk, or in a chunk that a worker is about to copy. Neither of the
two mutexes is mentioned in it: each access to the counter or to the queue is one step of
the model, which is what the mutexes are for.

**`PoolProofs`, the pools** (`PoolAssumption`: the guard has room for one object of each
thread). `PoolTypeCorrect`, `NeverBelowThePool`, `ObjectsNeverOverlap` and `PoolImplementsArena`. The
invariant has the critical section of the synchronized pool, the bound of every
address that was handed out, and `Debt`: the pointer is below the end of the guard
by no more than one object for each thread that is in the guard, because none of
them comes back. With a guard that is smaller, the proof fails, and the program
could write below the pool. It has 16 threads, objects of 16 bytes and a page. For the
refinement, `Covered` says that no byte is skipped: each one above `first_free_` is in an
object, or in a block that a thread has been given. So when a thread is in the guard, more
bytes have been asked for than there is room, which the proof counts with a map from the
bytes that threads wait for to those they were given.

**`PoolProofs`, the registry** (`RegistryAssumption`: mappings are numbered from 1).
`RegistryTypeCorrect`, `SlotsAreExclusive`, `GuardHitsAreFound` and `RightPoolIsBlamed`. The invariant
relates slots and owners: a thread that holds a slot finds its own bounds in it
as far as it has written them, no two threads hold the same slot, and an entry is
never left behind. `SearchBelow` says that a search for the guard of the
thread's own pool does not pass its slot. For `RightPoolIsBlamed`, `SearchKnows` adds
what a search knows while no pool comes or goes: no slot is half written, the words that
were compared are still in the table, and the address is in no guard but the thread's own.

**`ObjectProofs`, shared strings** (`StringAssumption`: the markers are not strings or addresses).
`StringTypeCorrect`, `NobodyElsesString`, `LeaksOnlyShared`, and `IndependentValues`:
the refinement of `StringValues`, every step with its abstract step. `OwnerIsAlone`
follows from two facts that are inductive together: what two objects refer to has
been seen by the observer, and what he has seen has no owner. Nothing that is
referred to is freed, which is what the refinement needs.

**`PoolProofs`, safe reads** (`SafeReadAssumption`: addresses of different kinds are different).
`SafeReadTypeCorrect`, `NothingButRacesEnds`, `HandlersAreRestored`. As long as reads do
not overlap there is one reader, and where it stands says everything about the rest
(`Orderly`): which dispositions are `sig_handler` and which are the program's
(`ActionIs`), which old ones have been stored (`PrevIs`), whether the address and the
environment are those of the reader (`Announced`), which signals are blocked (`MaskIs`),
and that the handler of a probe was stored before it is asked for, or is being stored
(`ProbesRecover`). After an overlap nothing is claimed, and the invariant is only types.

**`BoundedDequeProofs`** (no assumption; items of any set, any capacity). Lemmas about the
operators of `BoundedDeque`: the ring is a sequence. The invariant says where things are:
element `i` is in the slot `i` places to the right of `front_pos`, every such slot holds
an item, and `back_pos` is one place to the right of the last (`Filled`). `RingLaws` has
the arithmetic: one place to the right of place `i` is place `i + 1`, and back again;
moving the front moves every place; two elements are never in one slot. Each of the four
operations then has a lemma that says what it makes of the contents, and so has the step
of a worker that moves the front out and pops it. The three modules that use the deque
cite them.

**`ObjectProofs`, deques** (`ObjectsAssumption`: capacities of at least 1, and a marker that is
no item). `DequeTypeCorrect`, `EndsAreAlwaysElements`, and `RingImplementsDeque`: the
refinement of `Deque`. Every object is a filled ring, except that one that was moved from
is only required to stay within its ring (`MovedFromRing`), because its `back_pos` is 0
wherever its `front_pos` is.

**`IdiomAnalyzerProofs`** (`WordAssumption`, `FilesAssumption`, `MaxIdiomsAssumption`: a word
has bytes, files are sequences of bytes, memory ends somewhere). `TypeCorrect`,
`TheCodeIsTheRest`, `ReachedIsLeast`, `ScanRepeatsNothing` and `PairsRunStraight`, for every
file, true or not. Four invariants stand on one another. `ReaderInv`: `pos` is the sum of
the lengths of what has been read, at each stage of the reader, and the file is what was
read before the code followed by the code. `WalkInv` has the types of the analyzer; what
is followed was found to be within the code by the checks made when it was taken off the
list. `WorkInv` is the work list: every reached address that is not on it has its
successors reached and its targets marked; nothing is a jump target without a jump or an
entry; and any set that has the entries and what its jumps and calls name has all that was
reached. With an empty list the reached addresses are the least such set (`IsFollowed`);
without CALLC they are what control can get to, for no body of a closure is ever entered.
`ScanInv`: where reached instructions do not overlap, no reached address is in
the middle of an instruction, so that the scan, which goes from instruction to
instruction, collects every reached address behind it once, and a pair where the second
is no jump target.

**`LamaGCProofs`** (`GCAssumption`: more than one mapping; markers are no addresses; sizes are
numbers, and a stack has room for what it begins with). `GCTypesCorrect`, `QueueIsSound`,
`CollectionExact` and `GraphIsImplemented`, for any programs, mappings, sizes of the heap and
of objects. Three invariants stand on one another. `GCTypes` is about the layout and holds of every program:
outside of relocation the objects tile the heap (`Tiled`); within it (`Sliding`) the objects
below `free` tile what is filled, those from the iterator on tile the rest, and the places of
the live ones among these follow one another from `free` to the end of the new heap, none
above the object that will go there. From that follows that memmove overwrites nothing that
has not been moved, although source and target may overlap. The forward addresses are sums
of sizes; they are counted as numbers of words below an address (`LiveBelow`: the next live
object is behind by exactly the size of the last).

`GCSound` is about references, for programs in which every word that the collector scans has
been set, and every word that is used is scanned (`AllScanned`: no globals, no locals; the
run has the same bound, section 3). While the interpreter runs, each word on the stack and in an
object is a number or the reference of an object. During marking, `Queue`: the slots are the
first objects of the heap, those between head and tail hold the unmarked objects that are in
the queue, each once, those below the head the marked ones, each once. So the forward
addresses below the tail are an injection from slots to objects that have been seen, and the
heap has room for one more as long as there is an object that has not (`QueueHasRoom`, by the
pigeonhole principle). `Frontier`: what has been seen can be reached; and whatever a root or
a marked object refers to has been seen, or is referred to by a root or field that is still
to be visited. When marking is over, what is marked has what it refers to, and is the least
set that has (`MarkedIsReached`). `SlidingSound` carries that through relocation: references
are redirected before objects move, so that a reference means a place, which may still be
empty or hold another object; the set of places has what the roots and the objects that will
be there refer to (`Retained`), and any part of it that has as much is all of it. When
the last object has moved, places are objects, and these two facts are `CollectionIsExact`.
That no mark bit survives (`NoBits`) is part of the invariant: the next collection would
keep what it finds marked, without following its fields.

`GraphIsImplemented` is the refinement: that no object is lost is not enough, each reference
must go on meaning the same one. `ObjectGraph` knows objects by name; the code has no names,
and the model gives one to each object, which nothing reads but the refinement mapping and
the choice of the next name.
`GCNamed` says that no two objects have the same name, and that the words which the request
of an allocation will take are on the stack. The theorem asks for infinitely many names
(`Endless`), so that there is always one for a new object; the run has five, more than fit
in its heap. An object disappears at `Compact`, the only step of a collection that the graph
shows (`Reclaim`): `mark_phase` and relocation are stutters. At `Compact` all references are
redirected at once, while the objects are where they were; by `Located` each points to the
place of the object that it has pointed to (`Follows`), and what is not marked is referred
to by no root and by no field that stays (`Shrunk`). In relocation the objects that
references mean are those below `free`, and one at the place of each that still moves
(`MovedTo`); a step of `Relocate` moves one of the latter to the former. `Allocate` is `New`
when there is room. The instructions are one lemma each, on words (`WordsMove`), fields
(`FieldsMove`) and requests (`RequestMove`).

**`VerifiedInterpreterProofs`** (`VerifierAssumption`, `InterpreterAssumption`,
`ProgramsAssumption`: sizes, operands and strings are numbers, and the symbol main is in the code).
`FramesAreCounted`, `TypeCorrect`, `OnlyVerifiedRuns` and `DepthsAreStatic`, for any
programs (the last for well-formed ones) and both interpreters. For `FramesAreCounted`, `Paired` says that the
entries of functions on the work list come in pairs, an address over a depth, at positions
`tops`, whose number is `frames_depth_`: the entries are not tagged in the code, so that a
function left by END, RET or FAIL in the middle of other work must take off exactly what a
call has put on. `TypeCorrect` needs `ITypes`, preserved by each handler (`Stepped`, one
lemma for each group of instructions): a reference on the stack or in an object is one to
an object, cells that nobody has written are no references, and frames are pushed up to
their limit only. For
`OnlyVerifiedRuns`, `Scanned` says that an address with a depth that was processed is
followed, which means that each of its successors has a depth or is on the work list, and
that one that was set back to its initial depth is on the list or is followed; when the
verifier accepts, the list is empty, and what has a depth is closed under `Flow`. `Control`
then follows the interpreter (`Followers`): the return address of a frame has a depth as long
as no frame up to it is that of a closure, and so has the address of the instruction unless
it is in a closure or enters one. So the body of a closure may do what it likes, and where it
returns to has been verified all the same. `Scanned` is not invariant
without `Paired`: a return to the caller takes the address that it goes on with from the
list. The hypothesis `Entry = 0` is there because the interpreter starts at address 0
(`interpreter.cpp:206`) and the verifier at the symbol main (`verifier.cpp:491-506`); with
another entry the interpreter executes what nobody has looked at. `lamac` puts main first.
For `DepthsAreStatic`, `Labelling` is what a well-formed program promises: a BEGIN has depth
0, and what follows an instruction has its depth moved by `Net`. The interpreter keeps to it
(`Placed`): the last frame is at the depth of `ip`, and each frame below is at a call (the
address before its `ret`) that has as many arguments, and a closure or not, as the frame
above it will take off when it returns. Without the frames below, the invariant is not
inductive: a return goes on at a depth that only the call knew. `ClosuresFit` says which
function a closure enters, so that CALLC finds its arguments. Because the verifier writes the
measured depths into the code that is interpreted, `Nested` has to say that it writes into
operands of BEGIN only, `Kept` that nothing else of the code changes, and `Waiting` that the
interpreter starts after it. The depth itself is no part of what TLC computes: the proof uses
of `Reached` only that it holds the functions and is closed (`Complete`).

Only model-checked:

* All liveness properties (`EveryTaskStarts`, `StopReturns`, `CallReturns`, `FullPoolEnds`,
  `AllocationEnds`, `FilesAreAnswered`, `AccessesEnd`, `VerifierEnds`): they need fairness
  and ENABLED, which the prover does not handle.
* `CountsAreFrequencies`: that the sorted sequence has the idioms of the unsorted one, as
  often, rests on the library's `SortSeq`, which chooses a permutation; that one exists
  is an induction over the length.
* `MeasuredIsEnough`, `ChecksAreRedundant`: they need that the depths which the verifier
  records are at least the labels, wherever a way to the end of a function leads
  (`returning`, a least set that is computed by iteration, so that what it contains is an
  induction over its steps), and that locals and arguments are what the frames have.
* `QueueHoldsObjects`, `CollectionIsExact` and `ImplementsObjectGraph` for programs with
  globals, where the first does not hold, or with locals, see above.
* The two violations, which are counterexamples.

## 6. What is not modelled, and the plan

Not worth a model: benchmarks (Assignment01, the mains of 07 and 10), `disassemble` and
`dump_file` of byterun, the readers of Assignment02 and 04 (the same text as that of
Assignment03), assembly entry points, the printers of the runtime, the generated
specialisations of the Truffle interpreter. The pool of Assignment06 is `MemoryPool`
with one thread. In modelled parts: failures of `mmap`, the text of messages, the code
of the collector under `DEBUG_VERSION` and `LAMA_ENV`, `__shutdown`, weak memory.

Planned, in this order:

1. Proofs: `ChecksAreRedundant` on top of `DepthsAreStatic`.
2. The tree interpreter of Assignment05: the life of scopes and frames, and what
   closures capture, against `Interpreter` on the same program.
