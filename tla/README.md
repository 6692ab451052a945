# Verification of Windows-Fiber-Test

TLA+ specifications, TLC model checking and TLAPS proofs for the fiber-based
job system in `src/Fibers/Fibers`. All file names below are relative to that
directory.

## 1. The system

| Component | Source | State | Operations | Modelled by |
|---|---|---|---|---|
| Fiber scheduler | `fiber_scheduler.*` | three priority queues of `fiber_data*`, the `fiber_data` records, the thread_locals `current_main` and `active_fiber` | `run_job`, `run_jobs`, `do_work`, `schedule`, `batch_schedule`, `yield`, `fiber_func` | `FiberScheduler`; `run_jobs` and `batch_schedule` in `BatchJobs` |
| Atomic counter | `atomic_counter.*` | one `atomic_uint32_t` | `++`, `--`, `wait_for_value` | `FiberScheduler`, abstractly `ForkJoin` |
| Task interface | `tasks.*` | none | `RunTask`, `RunTasks`, `WaitForCounter`, `this_task::yield` | `ForkJoin` |
| Thread pool | `thread_pool.*` | task queue, `m_mutex`, `m_cvar`, `m_running`, `m_activeThreads` | constructor, worker loop, `wait_job`, `post_job`, `do_work_if_available`, destructor | `ThreadPool` |
| Concurrent queue | `concurrent_queue.h` | `std::queue` and a mutex | `push`, `try_pop_front`, `empty` | `ConcurrentQueue`, abstractly `Fifo` |
| Tagged heap | `tagged_heap.*` | blocks by key, free blocks | `alloc_block`, `free`, destructor | `TaggedHeap`, abstractly `BlockStore` |
| Tagged linear allocator | `tagged_linear_allocator.h` | a block per thread | `allocate`, construction anew | `LinearAllocator` |
| Frame data | `frame_data.*` | ring of 16 `FrameParams` | `InitializeFrame`, `GetFrameData`, `GetActiveFrameData` | `FrameData` |
| Frame task | `main.cpp` | `is_game_running`, the locals of the jobs | `frame_task`, its game-logic and leaf jobs | `FrameLoop` |
| Main program | `main.cpp` | `brunning`, `is_game_running`, the place in `main` | start, the two enters, exit | `TestMain` |
| Concurrent allocator | `concurrent_allocator.h` | a mutex | `allocate`, `deallocate` | single actions of `FiberScheduler` and `BatchJobs` |
| Fiber wrappers | `fiber_util.*` | none (Win32) | create, switch, delete | `SwitchTo` in `FiberScheduler` |

How they interact: `main` creates a `thread_pool` and posts one task per
processor that calls `do_work` in a loop. It then starts `frame_task` with
`RunTask`. The frame task and its children are jobs of the scheduler: they call
`RunTask` and `WaitForCounter` themselves, allocate counters from the memory of
their frame, and yield to the main fiber of the worker thread that executes
them. A finished frame frees its memory and starts the next frame.

What is hard: jobs migrate between threads at every yield, so thread_locals and
stack-local pointers have to agree after a switch; `fiber_data` addresses are
freed and reused; counters are incremented, decremented and polled without a
lock; the scheduler polls instead of sleeping, so progress depends on queue
order; the thread pool notifies a condition variable without holding its mutex;
frame memory is freed in bulk while pointers into it may live on; and shutdown
is a couple of plain flags.

What makes each part correct: a job is neither lost, duplicated, nor touched
after it was freed; a join returns only when all jobs of the counter have
returned, and it does return; a posted task runs at most once and does not sit
in the queue while workers sleep; constructor and destructor return, and nobody
uses a destroyed pool; frame memory is not used after it is freed.

## 2. Modules

| Module | What it is |
|---|---|
| `FiberScheduler` | scheduler and counters: one action per piece of code between two accesses to shared state |
| `MCFiberScheduler` | its instances for TLC |
| `ForkJoin` | abstract specification: fork a job into a group, wait until the group is empty |
| `FiberSchedulerRefinement` | the refinement mapping from `FiberScheduler` to `ForkJoin` |
| `FiberSchedulerProofs` | inductive invariant, safety theorems, and that the scheduler implements `ForkJoin` |
| `ThreadPool`, `MCThreadPool` | the thread pool and its instances |
| `ThreadPoolProofs` | safety theorems of the pool |
| `BatchJobs`, `MCBatchJobs` | `run_jobs` up to its first undefined behaviour |
| `BatchJobsProofs` | joins of batches are sound, and batches of one are safe |
| `ConcurrentQueue`, `MCConcurrentQueue` | the queue, access by access |
| `ConcurrentQueueProofs` | proof that the queue implements `Fifo` |
| `Fifo` | abstract specification: a linearizable queue |
| `TaggedHeap` | the shared heap; constructor to destructor |
| `TaggedHeapProofs` | safety theorems of the heap, and that it implements `BlockStore` |
| `BlockStore` | abstract specification: a block belongs to one key until the key is freed |
| `LinearAllocator`, `MCLinearAllocator` | a frame's allocator on top of `TaggedHeap`, which it extends |
| `LinearAllocatorProofs` | safety theorems of the allocator and the heap together |
| `FrameData` | the ring of frames |
| `FrameLoop`, `MCFrameLoop` | the frame task, composed of `ForkJoin`, `TaggedHeap` and `FrameData` |
| `FrameLoopProofs` | safety theorems of the frame task |
| `TestMain`, `MCTestMain` | `main` with the pool's workers, on top of `FiberScheduler`, which it extends |
| `TestMainProofs` | `main` keeps the scheduler's promises, and strands no frame |

A module that contains a "Faulty ..." definition keeps it beside the correct
one, with the same parameters. Each is a plausible slip in that code, and
exchanging it for the correct one violates the property that watches over it.

### FiberScheduler

`Workers` are the threads that run `do_work`, and at the same time the names of
their main fibers; `Clients` are threads that only start jobs and wait (main);
`Fibers` are addresses of `fiber_data`, each with its native fiber. `cpu[w]` is
the context thread `w` executes. `pc`, `target` (local of `do_work`), `job`
(local of `run_job`) and `waiter` (a task's `atomic_counter*`) belong to
contexts; `current_main` and `active_fiber` belong to threads, exactly as in
the code. Actions and code:

| Action | Code |
|---|---|
| `DoWork` | entry of `do_work` |
| `PopFront`, `PopEmpty` | `try_pop_front` on the queue whose turn it is, and the switch to the job |
| `Reschedule`, `Complete`, `DeleteFiber` | after the switch back: `schedule`, or the decrement, or delete and deallocate |
| `RunJob`, `Schedule` | `run_job` up to, and in, `schedule` |
| `StartWait`, `WaitDone`, `WaitPoll` | `wait_for_value(0)` |
| `Yield`, `Return` | `this_task::yield`, the end of `fiber_func` |

Abstracted: the function and data of a task (a task does any sequence of
`RunTask`, `WaitForCounter` and `yield` on one counter variable of its own, then
returns); the native stack. A counter's address is constructed once, and a
counter is not freed: freeing frame memory is the business of `FrameLoop`. A `uint32_t` counter is an unbounded integer: theorem
`TypeCorrect` shows it stays at or above 0, and 2^32 live jobs do not fit in memory.
The `fiber_data` of a job is overwritten before use in `run_job`; what a fresh
allocation holds is never read, so `Unallocated` has arbitrary contents.
`MaxJobs` bounds the calls of `run_job`; with `FrameChain` the jobs that a job
starts without a counter, the next frames, are not bounded (`TestMain` uses it).

`yield` reads the thread_local `current_main` at the time of the call. That is
what the Debug build does. A Release build with whole-program optimisation and
without `/GT` may compute the thread_local's address once around the loop of
`wait_for_value`; the mutated `SwitchToStaleMain` shows what that would do
(`ThreadLocalsAgree` fails).

### ThreadPool

Workers are numbered as in `m_threads`. What a worker does in `wait_job` with
`m_mutex` held is split at each access to `tasks`, `m_running` and `m_cvar`,
because `post_job` and the destructor change these without the mutex.
`SpuriousWakeup` is a step of the condition variable. `initialize` and the
destructor share the variable `iter` for their loops. The pool is destroyed
only when no client is inside a call, the rule C++ puts on its user; clients
and tasks are otherwise free. `m_activeThreads` has no initialiser:
`InitialActive` is the set of values it may hold at first, and it wraps at
`ActiveMod` (2^16 in the code).

### BatchJobs

The jobs of a batch are elements of one array. `Fill` and `BatchSchedule` are
the iterations of the two loops, one element each; `Pop`, `Reschedule`,
`Return`, `Complete` and `DeleteFiber` are `do_work` as in `FiberScheduler`,
where every access to an element is checked against the arrays that are
allocated. `MaxCount` bounds the size of a batch, which is a `size_t`. Giving back the first element gives back the array, since it is the
address `allocate` returned; any other address is not one. The first access or
deallocation outside the rules sets `misused` and ends the behaviour, for after
undefined behaviour there is nothing to model. The queues have lost their order
here and the caller does not migrate: both would only add interleavings to
`FiberScheduler`'s. That the caller's counter pointer is not null is its
precondition. The array is allocated with the default `std::allocator`; for
arrays of 4096 bytes and more MSVC's allocator stores the true address before
the array, so that even the first element is misused on its own there.

### ConcurrentQueue and Fifo

A step is one access to `m_mutex` or to the `std::queue`. `empty()` takes no
lock. It is modelled as an atomic read of the size: that is what the machine
does for an aligned word, and formally it is a data race. `Fifo` has calls,
returns, and one atomic effect in between; the refinement mapping lets a `pop`
take effect when it removes the front. The other modules take a queue operation
as one action, which `ImplementsFifo` justifies. The `CQ_LOCKLESS` variant is
not compiled.

### TaggedHeap, BlockStore and LinearAllocator

In the heap every function holds `m_alloc_mutex` from beginning to end and is
one action. `live` are the blocks between `new` and `delete`; `peak` is a
history variable. `FLIB_MAX_HEAP_SIZE` limits the free list only, which
`MaxFree` is.

`allocate` looks its thread's entry up in an `unordered_map` up to six times:
`count` (`Count`), three `operator[]` under `m_mutex` that set the entry to null,
and two without it that take the references `cur_ptr` and `block_end`. Each
`operator[]` is a step of its own: `Find`, or, when it misses, `BeginInsert` and
`EndInsert`, for it then inserts an entry, with the lock or without. A look-up may
miss an entry that is there while another thread inserts (`modifying`), for the
map is being changed under it; and when two insertions have met, links may be
lost for good (`damaged`), and any look-up may miss. So a thread can come to have
several entries (`MaxEntries` bounds them), and the two references of a call can
name different ones. `Space` is the comparison, `Refill` the block from the heap,
`Bump` the rest. A `block_data` has a start, `used` units into `block` (or off null),
and an end, the end of a block or null. Where start and end belong to different
blocks, or one is null, the difference as a `size_t` is huge in either order; the
call finds enough space, and the thread has *torn* the pointers. A start past the
end of its own block wraps likewise.

That is real: with `start` found and `end` missed, `allocate` hands out memory past
the block, and the other way round a null pointer. TLC finds both within a few
steps when the exemption of `torn` threads is taken out of `ExtentsPrivate`. The
module says what holds nevertheless. Positions past a block are counted from the
block the pointer came from; what lies there is not known, and `ExtentsPrivate` compares
only extents of the same block. The outcomes are those the container's memory can
produce without a crash; crashing ones are left out. Threads outside the pool
share the id -1 and count as one, as `main.cpp` has one. `FreeKey` and `Construct` are what
`frame_task` and `InitializeFrame` do between frames, and nobody uses the memory
then (the `frame` run shows that). A request is at most a block, as the assertion
in `allocate` demands. `BlockSize` is in units of the requests.

### FrameData and FrameLoop

`FrameData` keeps for each slot the frame's number, its flag, whose duration
`deltaTime` holds, and the allocator. No constructor sets `m_hasRendered`, so
after `InitializeFrame` it is indeterminate (`NULL`). Its one reader,
`HasFrameCompleted`, is called by nobody and not modelled.

`FrameLoop` takes the scheduler as `ForkJoin`, which `FiberScheduler` is proved
to implement, and the heap as `TaggedHeap`; `allocate` is one action. That
stands on `LinearAllocator` with one assumption: no call finds torn pointers. Then
what it returns lies in a block of the frame and is nobody else's. The code does
not guarantee this for the first calls of a frame on several threads at once; the
calls of one frame are all made by the frame task and game logic, of which the
first waits while the second runs, so that they do not race in `main.cpp` as it is. `task`,
`dat`, `at`, `cnt` and `leaves` are the locals of each job, `frame_number` is
the field `run_job` copies. Each of the three waits of `frame_task` is a `Wait`
and a `Waited`; the second and third find the counter at zero but read it from
the frame's memory all the same. The actions in order: `InitializeFrame`,
`StartStage`, the waits, `Flip`, `FreeFrame`, `Measure`, `NextFrame`; game logic
has `StartLeaf` and a wait. `StopGame` is what `main` does at some moment.
`cur_frame`, a thread_local that only threads outside fibers read, stays 0
for `main` and is left out. The `RunTask` of frame 0 is in `Init`.

### TestMain

`place` is where `main` is; `where` is where each pool worker is: in the pool's
loop, in `wait_job` about to look at the queue (`wait`), at `m_running` (`test`), or
to sleep (`drowsy`), asleep, in its posted task (`while (brunning) do_work()`), or
gone. The rest is `FiberScheduler`. A worker between its test and its sleep has
`m_mutex`, misses every notification, and sleeps. `PostJob` is push and
`notify_one` in one; a notification that comes after somebody else took the task
is a spurious wakeup. The destructor is `BeginExit` (`m_running = false`) and for
each thread `NotifyAll`, `Join` and `NotifyAgain`, in some order of the threads.
`main` resets `brunning` and `is_game_running` in two steps. A job that has no
counter is the next frame, started only while `is_game_running`. With `FrameChain`
their number is unbounded, so that the flag, and no bound of the model, ends them.
`begun` is a history variable: some job has been popped.

## 3. What is checked

| Run | Bounds | Properties |
|---|---|---|
| `sched_safety` | 2 threads, 1 client, 3 `fiber_data`, 3 counters, 4 jobs, all priorities and the unset one; symmetry | `TypeOK` `HeldOnce` `NeitherLostNorDangling` `ThreadLocalsAgree` `CounterCountsJobs` `JoinIsSound` `ImplementsForkJoin` |
| `sched_live` | 2 threads, 1 client, 2 `fiber_data`, 3 jobs; fair | `JobsComplete` `ImplementsProgress` |
| `sched_nested` | 1 thread, 3 `fiber_data`, 3 jobs; fair | `WaitsEnd` |
| `pool` | 2 workers, 2 clients, 3 tasks (2 counted), `ActiveMod` 8, `m_activeThreads` first 0 or 7; fair | `TypeOK` `TaskHeldOnce` `StartDataAlive` `CounterCountsTasks` `ClosedIsQuiet` `ConstructorReturns` `NotifyReachesSleeper` `AwakeWorkerDrains` `DestructorReturnsOrMisses` |
| `pool_close` | 2 workers, 1 task; fair; a violation | `DestructorReturns` |
| `memory` | 2 threads, 2 keys, 3 blocks of 2 units, 2 free blocks kept, 3 requests per frame, 2 entries per thread; symmetry | `AllocatorTypeOK` `BlockHeldOnce` `FootprintWithinPeak` `ExtentsPrivate` `BlocksPrivate` `SettledStays` `ImplementsBlockStore` |
| `frame` | 3 frames over a ring of 2, 2 leaves each, 4 jobs, 2 blocks of 1 counter, 1 worker id; fair | `TypeOK` `CountersSound` `MemoryReturned` `ActiveFrameIsOwn` `DeltaTimeFromFrameBefore` `FlipAfterJobs` `FramesFinish` |
| `frame_wide` | frame numbers modulo 4, 5 frames; symmetry; a violation | `FrameIsValid` |
| `main` | 2 workers and main, 2 `fiber_data`, the first frame, a child and any number of further frames; fair | `SomebodyDrains` `NothingLeftAtExit` `ProgramExits` |
| `main_completed` | as `main`, with 2 children; symmetry; a violation | `AllTestsCompleted` |
| `batch` | 2 workers, 3 batches of 1 or 3 in 2 arrays | `OnlyArraysAreMisused` `JoinIsSound` |
| `queue` | 3 threads, 2 values, pushes into fewer than 2 elements; fair | `ImplementsFifo` `CallsReturn` |

Why the bounds are enough. Scheduler: two threads are needed for migration and
for a thread that is on its way back from a switch; a third live job makes a
waiter, a job it waits for and a job of another caller; the fourth start reuses
a freed `fiber_data`. One thread with three jobs makes two nested waiters share
the only thread with a leaf. The safety theorems of the scheduler hold for every
size (section 4). Pool: two workers make one sleep while the other is between
its tests, and make the destructor join in order; the two clients push at the
same time; from 7 the two increments wrap. Memory: three blocks let one key own
two, be freed with one block kept and one in the other key's hands, and get
them back in another order; with two units to a block a request fits
exactly, leaves a rest, or does not fit. Two entries of a thread are enough for its two
references to differ, and the third request meets the pointers two others have left. Frames: the third frame is the first to
take over a slot, and two counters per frame in blocks of one make every frame
free several blocks, of which one is kept and one deleted. All jobs of a frame
are done before the next starts, so that more frames add no new overlap but the
return of a frame job, which the four jobs allow. Main: two `fiber_data` are a frame and its child or
the next frame, and one worker may sleep through what the other is woken by.
Batch: the three elements of an array have a first, a middle and a last.
Queue: two pushers and a popper, or the other way round, at a queue that is
empty or has one or two elements.

Symmetry is used only where nothing but safety is checked and no constant is
distinguished by an ordering.

Deadlock is checked in the runs of the scheduler and the queue. The others stop
by design: the pool when it is destroyed, and also when its constructor or
destructor hangs (liveness properties ask that question); the heap after its
destructor; the frame loop after `is_game_running` is reset, after an exception,
or at the bound `MaxFrame`; main after its return; a batch at its first
undefined behaviour or after `MaxBatches`.

### Fairness

`FiberScheduler`: weak fairness for every thread's own next step, since the
operating system preempts and no lock is held across an action; weak fairness
for a client's next call to finish; strong fairness for the return of a job,
since a job that polls or yields runs only again and again, never continuously.
Task code is taken to be finite, which it is in `main.cpp`. Nothing forces
anybody to start jobs, to wait or to yield.

`ThreadPool` and `ConcurrentQueue`: weak fairness for each thread, strong
fairness for locking the mutex; none for calls, destruction or spurious wakeups.

`FrameLoop`: weak fairness for each job and for its retirement, which is the
progress `ImplementsProgress` shows the scheduler to make. Nobody has to reset
`is_game_running`.

`TestMain`: as `FiberScheduler`, and weak fairness for the steps of `main` that
do not wait for the user. Nobody has to press enter, and no wakeup has to be
spurious. Weak fairness is enough for a worker that waits for `m_mutex`: after
`m_running` is reset nobody keeps it but to return.

### What the runs show about the code

* Priority inversion. `do_work` tries the high queue first on every round, and
  a waiter polls by being queued again. A high job that waits for a low one
  keeps each thread busy for ever, and the low job never runs. The two liveness
  runs therefore use `NotBelow`: jobs are started at their starter's priority or
  above. `main.cpp` does so (a low or unset frame job, high children). With
  `AnyChild` in their place TLC finds the livelock.
* The destructor of the pool can hang (`pool_close`). It stores `m_running` and
  notifies without `m_mutex`; a worker that has already read `m_running` but is
  not asleep yet is missed, and `join` waits for it. `DestructorReturnsOrMisses`
  shows that this window is the only way. `main.cpp:174` announces that the
  program exits. `ProgramExits` says the same of the whole program: outside that window
  it ends, since `is_game_running` stops the frames; without that reset
  (`KeepGameRunning`) a chain of frames keeps a worker in `do_work` for ever.
* A posted task can be overlooked in the same way by `post_job`. The two
  properties `NotifyReachesSleeper` and `AwakeWorkerDrains` state when it is not:
  some worker is asleep at the push, or awake and not in the window.
* `m_activeThreads` is never initialised. From 0 the constructor waits for all
  threads; from other values it may return at once, which the `pool` run shows to
  be harmless; from a value that the increments wrap to below the number of
  threads it may never return, and `ConstructorReturns` excludes those.
* A task still queued when the pool's destructor runs is dropped, and its
  counter stays positive (`CounterCountsTasks` with `ClosedIsQuiet`).
* `run_jobs` cannot be used with more than one job: its jobs are elements of one
  array, and `do_work` gives each back on its own. Only the first has an address
  that `allocate` returned, and it takes the others with it. With one job it is as safe as
  `run_job` (`OnlyArraysAreMisused`). Its counting is sound until then; its one
  caller waits only after `run_jobs` has returned, so that the order of counting
  and queueing inside it does not matter to `JoinIsSound`, only the number does. It
  does not set `frame_number` either; the faulty `SetUpWithoutFrame` shows in
  `FrameLoop` that jobs that allocate from their frame would meet another frame's
  memory.
* The unlocked look-ups of `allocate` may hand out memory past a block, or none, in
  the first calls after the construction. Only a thread whose two references named
  pointers that do not belong together is given such memory; inside the blocks nothing
  is handed out twice, and no thread cuts from a block of another key or thread
  (`ExtentsPrivate`, `BlocksPrivate`). Once every thread has its entry and none has
  gone astray, the danger is over (`SettledStays`). A lock around the look-ups, which
  the writes to the map have, is missing around the reads.
* A frame frees its memory while nobody uses it any more, on any path
  (`CountersSound`), and the memory of past frames never piles up
  (`MemoryReturned`).
* Frame 2^32 is rejected (`frame_wide`): `frame_task` compares its 64-bit number
  with the 32-bit one in `FrameParams` and throws "Returned invalid frame". Up to
  that frame the test never fires.
* `HasFrameCompleted` reads a flag that no constructor sets; its comparison of
  frame numbers is the wrong way round as well. Nobody calls it.
* `main` prints "All tests completed" after it has reset two flags, while jobs
  still run (`main_completed`). The workers leave only when the queues are empty,
  so no job that has begun is cut off by the exit (`SomebodyDrains`,
  `NothingLeftAtExit`); only a frame task that no worker had yet popped is lost.

## 4. What is proved

`FiberSchedulerProofs` proves, for any finite set of `fiber_data`, any sets of
threads, clients and counters and any priorities, from `SchedulerAssumption` alone:

| Theorem | Statement |
|---|---|
| `TypeCorrect` | `Spec => []TypeOK` |
| `EveryJobHeldOnce` | `Spec => []HeldOnce` |
| `NoJobLost` | `Spec => []NeitherLostNorDangling` |
| `MigrationIsSafe` | `Spec => []ThreadLocalsAgree` |
| `CountersCount` | `Spec => []CounterCountsJobs` |
| `JoinSound` | `Spec => JoinIsSound` |
| `SchedulerImplementsForkJoin` | `Spec => ImplementsForkJoin` |

The properties are not inductive alone. `IInv` adds `Shape` (types, with
counters in `Int`) and three places invariants. `MainPlaces` says that a main fiber holds a
`target` exactly between its pop and its push or delete, that a thread outside
its main fiber has it parked in "switched", and that a job about to be deleted
has returned and left its counter. `JobPlaces` says that a queued job is in its
body or in a wait, and a job in `run_job` has not started. `CallerPlaces`
relates `job` and `waiter` to the place of their owner. They are needed because, for example, that
`Reschedule` pushes a job nobody else holds follows from `HeldOnce` only when
the thread is known to hold it, and that `RunJob` gets a `fiber_data` nobody
reaches follows from `NeitherLostNorDangling` only when "free" is known to mean
a null counter. `TypeOK` needs `CounterCountsJobs`: a counter is natural
because it is a cardinality. The lemmas `PushAdds` and `PopRemoves` say what the
queue operations do to the set of queued jobs; there is one lemma per action
(`DoWorkInv` ... `RunJobInv`, the two pairs `Yield`/`WaitPoll` and
`StartWait`/`WaitDone` together), and `NextInv` puts them together. The
refinement needs `IInv` in one place: `WaitDone` sees a zero, and
`CounterCountsJobs` turns it into an empty group. TLC checked `IInv` on the
instance of `sched_safety` before it was proved.

`ConcurrentQueueProofs` proves, from `QueueAssumption` and for any number of
threads, values and elements:

| Theorem | Statement |
|---|---|
| `QueueTypeCorrect` | `Spec => []TypeOK`, mutual exclusion included |
| `FrontIsStable` | `Spec => []FrontStays` |
| `QueueImplementsFifo` | `Spec => ImplementsFifo` |

The invariant adds `TargetPlaces`: a push that has not happened has its value, and
a pop that has not read the front has an empty target. The refinement needs
`FrontStays` in its one hard step: `PopFront` removes the element that `Front`
has read only because nobody changed the front in between, and that follows from
mutual exclusion (`InsideInv`, `<1>a` and `<1>d`).

`TaggedHeapProofs` proves, from `HeapAssumption` and for any keys, any finite
set of blocks and any limits, and `LinearAllocatorProofs`, with
`AllocatorAssumption` and for any threads and sizes:

| Theorem | Statement |
|---|---|
| `BlocksHeldOnce` | `Spec => []BlockHeldOnce` |
| `FootprintBounded` | `Spec => []FootprintWithinPeak` |
| `HeapImplementsBlockStore` | `Spec => ImplementsBlockStore` |
| `AllocatorTypeCorrect` | `AllocatorSpec => []AllocatorTypeOK` |
| `ExtentsArePrivate` | `AllocatorSpec => []ExtentsPrivate` |
| `BlocksArePrivate` | `AllocatorSpec => []BlocksPrivate` |
| `SettledIsStable` | `AllocatorSpec => SettledStays` |
| `BlocksHeldOnceInUse`, `FootprintBoundedInUse`, `HeapInUseImplementsBlockStore` | the first three for `AllocatorSpec`, the specification the run `memory` checks |

`HInv` is `BlockHeldOnce` taken apart: vectors without duplicates, disjoint
vectors, free blocks apart from all of them, and nothing lost. The lemmas on
sequences (`AppendElements`, `TailElements`, `CutElements`, `ConcatElements`) say
what the operations do to the set of elements; `free` is the hard case: the vector
of the key is cut in two, one part goes to the free list, the other is deleted.
`OwnerFacts` turns the `CHOOSE` of the refinement mapping into the key of a block.

`LInv` adds what the allocator needs. `PointersInBlock` and `BumpFits` say that a
thread that has not torn its pointers stays in its block. `BehindPointer` says that
what was cut off a block ends before the pointer into it, so that the next piece is
new, and `RetiredIsQuiet` that between `free(key)` and the next construction nobody
allocates. `InsertPlaces` and `ResetPlaces` say what a thread in the middle of an
insertion, or of the three look-ups under the lock, has in the map. The heart of the
race is `KeepsStarts` with the lemma `KeepInv`: a look-up that misses adds null pointers
or writes them over an entry, and every start that points into a block afterwards did
so before; hence no two threads ever cut from one block. `SettledIsStable` follows
from the same invariant, action by action. `AllocatorUsesHeap` carries the theorems
of the heap over to the composition.

`ThreadPoolProofs` proves, from `PoolAssumption`, for any number of workers,
any clients, any finite set of tasks, any width of `m_activeThreads` and any
value it starts from:

| Theorem | Statement |
|---|---|
| `PoolTypeCorrect` | `Spec => []TypeOK` |
| `TasksHeldOnce` | `Spec => []TaskHeldOnce` |
| `StartDataLives` | `Spec => []StartDataAlive` |
| `CounterCounts` | `Spec => []CounterCountsTasks` |
| `DestructorLeavesQuiet` | `Spec => []ClosedIsQuiet` |

None of the five is inductive. `MutexPlaces` says that `m_mutex` is held
exactly in the critical section of `wait_job` and that a sleeper is nowhere else.
`HeldPlaces` says that a thread has a task in hand exactly between taking it and
giving it away, and what is known of the task there; without it the push of a task
could be a second one. `OnePlace` is `TaskHeldOnce` taken apart. It speaks of
pairs of places instead of a cardinality, since there may be any number of
clients. `DataPlaces` adds to `StartDataAlive` the task that is about to be queued.
`OwnerPlaces` is what `ClosedIsQuiet` rests on: threads are created one
after the other and joined one after the other, and clients are inside the pool
only between constructor and destructor. `TypeOK` needs `CounterCountsTasks`, as
in the scheduler.

`FrameLoopProofs` proves, from `LoopAssumption`, for any numbers of jobs,
worker ids, blocks, slots, leaves and frames:

| Theorem | Statement |
|---|---|
| `LoopTypeCorrect` | `Spec => []TypeOK` |
| `CountersInMemory` | `Spec => []CountersSound` |
| `FramesReturnMemory` | `Spec => []MemoryReturned` |
| `JobsFindTheirFrame` | `Spec => []ActiveFrameIsOwn` |
| `DurationsInOrder` | `Spec => DeltaTimeFromFrameBefore` |
| `FlipsAfterJobs` | `Spec => FlipAfterJobs` |
| `ValidUntilNumbersWrap` | `MaxFrame < FrameMod => (Spec => []FrameIsValid)` |

The invariant has three parts above `TypeOK` and the heap's `HInv`, which is
carried over by instantiating `TaggedHeapProofs` with the heap the frames share.

* `JInv`: where jobs are. The heart is `Members`: whoever is in a group has a
  parent that waits, or will wait, for this group, at the place where
  it does so. When the frame job has passed its first wait nobody is in
  a group, its game logic has passed its own, and `free` takes memory nobody uses.
  `OneFrame` and `Latest` say that the frames form one chain: there is one frame
  job that has not ended, and no job has a higher number.
* `CInv`: where counters are. `Marks` says that every worker id of a frame's
  allocator has a block of its own among the frame's, and `CountersIssued` that
  every counter lies before the pointer into its block. So the next counter is new,
  and a new block holds none yet. `SlotOwned` says that the frame that is
  running owns its slot of the ring.
* `RInv`: what was flipped and measured, by the place of the frame job.

`LoopAssumption` asks that the set of blocks is finite and that `NULL` is no
job, counter, key or kind of task. `ValidUntilNumbersWrap` is the other half of
the run `frame_wide`: the validation fails at the wrap and never before.
TLC checked the invariant on the instance of `frame`, and on one with two worker
ids and frame numbers modulo 4, before it was proved.

`TestMainProofs` proves, from `SchedulerAssumption` and `MainAssumption`, for any
finite number of workers:

| Theorem | Statement |
|---|---|
| `ProgramIsScheduling` | `MainSpec => Spec` |
| `MainTypeCorrect` | `MainSpec => []MainTypeOK` |
| `BegunIsDrained` | `MainSpec => []SomebodyDrains` |
| `ExitLeavesNothing` | `MainSpec => []NothingLeftAtExit` |

By `ProgramIsScheduling` the theorems about the scheduler, `JoinSound` and
`SchedulerImplementsForkJoin` among them, hold in the program. `SomebodyDrains`
is not inductive: the one worker inside `do_work` may be about to look at the low
queue while a job waits in the high one. What every step keeps is
`QueuesWatched`: each queue with a job in it has a worker that will look at this
queue before it leaves `do_work` (`LooksAt`). A worker stops watching a queue only
when it finds it empty, and whoever pushes comes back to the first queue. `FirstJob`
and `Starting` say that before the first pop there is the frame task and nothing
else. `Joined` says that a joined thread is gone, and `Notified` that a
notification moves sleepers only, so that nobody is called back into `do_work`. TLC
checked the invariant on the instance of `main` first.

`BatchJobsProofs` proves, from `BatchAssumption`, for any workers and arrays and
batches of any size:

| Theorem | Statement |
|---|---|
| `BatchTypeCorrect` | `Spec => []TypeOK` |
| `JoinSound` | `Spec => JoinIsSound` |
| `SingleBatchesAreSafe` | `Spec => []OnlyArraysAreMisused` |

`Filling` and `Scheduling` say what the caller's two loops have done to the
array: an element is counted once, when it is filled in. `SingleBatchesAreSafe`
rests on `HeldAlone`, for an element given back by one worker must be in nobody
else's hands, and on `InUse`, that every job that exists is the first of its array.
Both hold as long as all batches have had one job, and `ArraysRemain` keeps the
condition from coming back: an array of more never becomes free for a batch of one.

Every invariant and every action property that a passing run checks is thereby
proved for all values of the constants, and so are the three refinements. Only
model-checked are the liveness properties: `JobsComplete`, `ImplementsProgress`,
`WaitsEnd`, `ConstructorReturns`, `NotifyReachesSleeper`, `AwakeWorkerDrains`,
`DestructorReturnsOrMisses`, `FramesFinish`, `ProgramExits` and `CallsReturn`. Liveness under fairness and `ENABLED` are
out of the prover's reach. It also does no induction over data and loses its
arithmetic backend with `RECURSIVE` operators; the modules use neither.
`TypeOK` of `BatchJobs`, `MainTypeOK` of `TestMain`, and `TypeOK` and `FrontStays` of
`ConcurrentQueue` are checked by no run, but proved.

## 5. Not modelled

* `microprofile/`, `camel_concurrent.h`, `ska_sort.h`: third-party code, nearly
  24,000 of the repository's 25,700 lines. `microprofile_html.h` (10,332 lines)
  is a web page in a string; `camel_concurrent.h` is included by nothing;
  `ska_sort` is called once, on 24 integers, to print them, and falls back to
  `std::sort` at that size. The jobs log their scopes to microprofile; nothing
  in the program depends on what it records.
* `counter_allocator.*`, `concurrent_list.h`, `Task.h`, `task_scheduler.h`: used
  by nothing, partly unfinished.
* `timing.*`, `thread_ex.h`: a clock and processor affinity, without protocol.
* Within modelled files: `has_work`, `TransitionToStage`, `HasFrameCompleted`,
  `free_all_blocks_with_key` (it does not compile when instantiated), the
  copy constructor of the queue and the comparisons of `atomic_counter` other
  than the one for a value, which nobody calls. `resume_waiters` is empty.
* The result of `CreateFiber` is not looked at by the code; a model of its
  failure would only restate the missing check.
* The Linux branch of `fiber_util`, which is disabled and incomplete.

## 6. Plan

What could still be proved: the safety half of the pool's promises to a posted
task (a task in the queue while every worker sleeps was overlooked in the window of
`wait_job`), of which the runs check the liveness; and that `LinearAllocator`
implements the one-step allocation that `FrameLoop` uses.
