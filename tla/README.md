# TLA+ models of the CPSC 213 systems code

The repository is the coursework of a computer-systems course. Most of its directories are small
exercises; the part that carries a system of its own is the user-level threads library of
assignments 9 and 10 (`src/a10/uthreads`), what is built on it (mutexes, condition variables,
semaphores, a simulated disk with interrupts) and the programs over it. This project models that
library first, bottom up, then the heap, the data structures and the simulated machine. All
paths below are relative to the repository root, with `src/` in front.

## 1. Inventory

### The thread library (src/a10/uthreads)

| component | state | operations | talks to |
|---|---|---|---|
| spinlocks (`uthread.c:71-105`) | one word each; SIGALRM mask of the pthread; `isInterrupt` | lock (mask, test, `xchg`), unlock (clear, unmask) | used by everything below |
| queues (`uthread.c:126-175`) | `head`, `tail`, and `next` in the thread | enqueue (idempotent), dequeue, is_empty | ready queue, mutex, condition, semaphore queues share the one `next` |
| ready queue (`uthread.c:181-242`) | the queue, `pthread_mutex`, `pthread_wakeup`, `pthread_num_sleeping` | enqueue + signal; dequeue, or fall back on `pthread_base`, or sleep | pthreads |
| scheduler (`uthread.c:270-723`) | per thread: state, joiner, saved stack, return value | create, yield, join, detach, block, unblock; internally switch, stop, start, free | ready queue |
| monitors (`uthread_mutex_cond.c`) | `holder`, `reader_count`, two waiter queues; a waiter queue per condition | lock, lock_readonly, unlock, wait, signal, broadcast | block/unblock |
| semaphores (`uthread_sem.c`) | `value`, waiter queue | wait, signal | block/unblock |

What is hard there: several pthreads run uthreads in parallel; a thread is put on the ready
queue (by a yield, an unblock, a join) while it still runs on its stack; its control block is
read and freed by whichever processor comes next; idle pthreads sleep on a POSIX condition; a
spinlock is dropped before the block it protects. Correct means: one processor per stack;
nothing on the ready queue that was not put there; no lost and no left-over wakeup; exclusion;
every control block freed once and not used after; joins return after exits; ready threads run.

### Programs over it (src/a10)

`q1.c` (create and join in order), `q2.c` (a counter under a mutex), `q3.c` (a barrier), `q4.c`
(three threads in order by flags), `smoke.c` (the cigarette smokers: agent, three handlers,
three smokers). `traffic.c` and `threadpool.c` are `TODO` stubs. State: globals under one mutex.
Hard: signals before waits, waits without loops, rounds back to back. Correct means: q2's
counter ends at zero, q3 prints every `a` before any `b`, q4 prints in order, the smokers'
counts match the agent's, and everybody returns.

### Disk, interrupts and readers (src/a09)

A simulated disk (`disk.c`: a circular queue of pending reads, a SIGALRM timer whose handler
completes the reads that are due and calls the interrupt routine for each), a queue and a
promise, and readers that spin (`sRead.c`), use callbacks (`aRead.c`, `treasureHunt.c`), or
block a uthread (`tRead.c`); plus four copies of `uthread.c` (`a09/q2` and `a09/q9.2` equal the
a10 one up to comments; `a09/q1` and `a09/q3` are an older one, with no idle sleep, and a `yield`
that enqueues its thread before it stops). Hard: a handler that
interrupts the code whose data it changes, nested handlers, a read completed before its reader
waits. Correct means: the sum and the trail come out right, a callback runs after its
read and once, main frees nothing that is still to be read into, and nobody spins for ever.

### Memory and data structures (src/a05, src/a08, src/a03, src/a04, src/a06)

`myheap.c` (first fit with boundary tags: split, coalesce), `refcount.c` with a shared list and
tree of elements whose class is a table of functions, and their sort (`sortmain.c`), classes
written out in C (`SA-dynamic-call.c`), a growing list (`a08/q4-5/list.c`) with `trunc.c` and
`test.c`, sorts, a sort of student records (`a06/q3`) and a binary tree in Java and in C.
Sequential; hard are long sequences of calls, size arithmetic at `int` width, ownership. Correct
means: allocations do not overlap and survive, malloc fails only when there is no room, an
element is freed with its last reference, a result has every value once. `BinaryTree.c` reads
links that `malloc` left as they were.

### The SM213 machine (src/a08/q8, src/sm213, src/a06)

Two C interpreters of one instruction set (`sm.c`, with a `switch`, and `sm-jt.c`, with two jump
tables), and the Java machine (`sm213/machine`: clocked registers, big-endian memory, a loop
that another thread interrupts) with two CPUs (`a06/q1/CPU.java` and the student's in
`sm213/arch`). Hard: sign extension, bounds and alignment, faults in the middle of a cycle, a
request to stop that meets the loop anywhere, agreement between implementations. `sm213/util` is
the Swing front end. Correct means: all four do the same with every instruction that they all
define, a fault changes nothing, and a machine that is asked to stop stops.

`PROJECT.json` lists all of these, with what is not modelled and why, and the hazards at their
lines.

## 2. Modules

```
MCUThreads --> UThreads                      scheduler            UThreadsProofs  --> UThreads
MCStructures --> Structures --INSTANCE-->                         StructuresProofs, HeapProofs
    UThreadQueue                             queues on `next`         --> Structures
    HeapTests --> Heap ==> FirstFit          allocator and its tests
    RefCount --> Elements                    reference counts, list and tree
    ElementSort --> Elements                 sortmain.c
    ListClient, ListPrograms --> GrowingList growing list, trunc.c, test.c
    Sorts                                    a03
    BinaryTree, Dispatch, Grades             a04, a08/q1, a06/q3
Monitor ==> Mesa                             mutex, conditions    MonitorProofs   --> Monitor
Semaphore ==> CountingSem                    semaphore            SemaphoreProofs --> Semaphore
MCPrograms --> Programs --INSTANCE-->                             ProgramsProofs  --> Programs
    Counter, Barrier, Order, Smoke --INSTANCE--> Monitor
MCSmoke --> Smoke
MCReaders --> Readers --> Disk               disk, readers        ReadersProofs   --> Readers
MCSM213 --> SM213 --INSTANCE--> SM213C, SM213Java --> Word32     simulators
SharedTheorems                               lemmas about queues, and induction over the
                                             numbers, for the modules of proofs
```

`-->` is EXTENDS, `==>` a refinement checked as a PROPERTY. `Programs` and `Structures` put
parts side by side that share nothing: a behaviour uses one of them.

**UThreads** (`uthread.c`). An action is one step of one processor that others can tell apart. A
thread has a `pc` on its own stack, and a processor has the thread whose stack it runs on
(`cur`), so a context switch moves the processor, not the code. `uthread_switch` is cut where
others can come between: taking the next thread (`Dequeue`), storing one's own state
(`SaveState`), the spin on `to_thread` and the load of its stack (`LoadStack`), the two reads of
`from_thread->state` (`CheckDying`, `CheckRunable`), what they lead to (`Reap`, `Requeue`), and
becoming RUNNING (`Enter`). The idle sleep is `PreSleep` (take `pthread_mutex`, drop the
spinlock), `Sleep`, `Awake` and `SpuriousWakeup`. A section under a spinlock is one step:
nothing inside waits except for `pthread_mutex`, whose holder never takes a spinlock.
`uthread_free` adds the thread to `freed` and the identity is not reused, so that a later access
shows. Register saving and stack layout are gone. The client is a record of `Programs`: which
calls each thread may make, in any order, how many, and on which processors.

`idleSleep` FALSE in that record is the older `uthread.c` of `a09/q1` and `a09/q3`, compiled with
`PTHREAD_IDLE_SLEEP 0`: a `pthread_base` yields for ever (`BaseYields`), a yield enqueues its
thread before the switch (`YieldFirst`), and the switch does not look whether to requeue
(`NotDying`). Its ready queue is never empty where it is read: there is one `pthread_base` per
processor, and at any time a processor runs at most one thread, so that one of them is queued or
picked.

**UThreadQueue** keeps `next`, `head` and `tail` and compares them with the queues the callers
believe in. The callers enqueue a thread on one queue at a time, or again on the same one; this
is what the clients of `uthread_block` do.

**Heap** (`a05/myheap.c`) is the words of the heap area: a word is a header (size, in use) or
data of a client. `set_block_header`, `coalesce` and `split_and_mark_used` are operators on that
memory; the search of malloc goes block by block; free is one action with both coalesces. The
client fills what it asked for, as `check_alloc` of `main.c` does. **FirstFit** has blocks and
the holes between them, and no headers: in the refinement mapping its blocks are those that a
walk over the headers finds in use.

**HeapTests** (`a05/main.c`) drives that heap with the test program: a test is a script of
mallocs, frees and toggles on an array of pointers, checked as `check_alloc` checks them. The
program's thousands of steps on a megabyte become a few of each kind on the heap of the run
(`Buckets`, `Iters`), with chunks such that the coalescing tests fill it.

**RefCount** (`a08/q2-3`: `refcount.c`, `list.c`, `tree.c`, `int_element.c`, `str_element.c`).
The heap maps addresses to elements with their count; an address is used again once it is free.
A client with references of its own adds elements to a list and a tree, walks, and deletes.
**Elements** has the two class tables and what their `compare` returns; ints are far from the
limits, where the subtraction of `int_element.c:61` would wrap. **ElementSort** is
`sortmain.c` over it: `qsort` may leave the array in any order that `compare` allows.

**GrowingList** (`a08/q4-5/list.c`) has the functions of the list as operators on a record of
block, length and size; **ListClient** calls them in any order and keeps beside the array the
sequence it should be. **ListPrograms** is `trunc.c` and `test.c` over the same operators: an
argument is its text, its length and what `strtol` reads at its front.

**Sorts** (`a03/bubble_sort_*.c`) has one action per round of the inner loop, **BinaryTree**
(`a04/p2/BinaryTree.java` and `.c`) one per level of an insert. In C the links of a new node are
`None` or `Wild`, whichever `malloc` found; once a wild one is followed the program is `lost`.
**Dispatch** (`a08/q1/SA-dynamic-call.c`) calls through the class tables, one function per step,
and **Grades** (`a06/q3/q3.c`) sorts whole student records.

**SM213C** and **SM213Java** are operators on a machine, a record of its registers, its memory
and how it ended: what one fetch and one execution make of it, for `sm.c` (`FetchSwitch`,
`ExecSwitch`), `sm-jt.c` (`FetchGoto`, `ExecTable`, which follows the tables label by label),
`a06/q1/CPU.java` and the student's CPU. The Java registers have an input and an output port; an
instruction sets inputs, and the tick of the clock moves them over. **Word32** has the
arithmetic of `int`. **SM213** runs the four on the same image and start address, with
`AbstractCPU.start()` around the Java ones, in steps, and a user who triggers interrupts.
`parted` notes that an instruction came up which the C programs and Java define differently.

**Monitor** (`uthread_mutex_cond.c`). One action per turn of a lock loop, per unlock, and per
half of `uthread_cond_wait` (join the queue; give up the mutex), since a thread that was
dequeued before it blocked is the interesting case. `woken` is the set of threads that were
given an `uthread_unblock` and have not come back from `uthread_block`: UThreads shows
(`UnblockKept`, `NoStrayReady`) that for this use the scheduler gives exactly that. The loop of
the broadcast is one step; only the holder touches the queue. **Mesa** is what the header
promises with no queue of the mutex, no blocking and no waking. In the refinement mapping a
thread waits from the moment the mutex is let go, and wants the mutex again once it is off the
condition's queue.

**Semaphore** (`uthread_sem.c`) likewise, with threads that use it as a lock and threads that
only signal. **CountingSem** has a count that is never negative, and threads that passed a wait;
the code's value maps to its positive part plus the sleepers already signalled.

**Counter, Barrier, Order** (`q2.c`, `q3.c`, `q4.c`) and **Smoke** (`smoke.c`) instantiate Monitor
and add the globals and the place in the program of each thread; **Programs** composes them.
`main`'s joins are the `Finished` step; that it comes to them is `EverybodyReturns`.

**Disk** (`a09/q2/disk.c`, and the signal mask in the spinlocks of `uthread.c`). One processor;
what runs is the top of a stack of frames, the program at the bottom and on it the activations
of `handleTimerInterrupt`, each of which interrupted the one below. `masked` is the signal mask,
`isInterrupt` the flag that keeps `spinlock_lock` and `spinlock_unlock` off it. The handler
drops `prq_mutex` and so unmasks the signal for the delivery (`disk.c:115`): from there on it
can be interrupted by another handler. A read's `completeTime` is its number, since latencies
are equal; `clock` says how many are over.

**Readers** (`sRead.c`, `aRead.c`, `treasureHunt.c`, `queue.c`) adds the program at the bottom
and the interrupt service routines, with `sum` and `pending_reads` as loads and stores. The
queue is a sequence and a mutex. `program` says which reader runs, for how many blocks, and
whether ticks may come while a handler runs.

## 3. Runs

| run | instance | shows |
|---|---|---|
| uthreads | 3 threads; seven programs: on 1 processor all calls but `uthread_block` and `uthread_unblock` mixed; on 2, block or return, a pool, unblock before or after block; three over the older scheduler | one processor per stack, no stray or lost wakeup, no use after free, joins return after exits, an early unblock is kept |
| uthreads_live | the first three of these, smaller, and one over the older scheduler | ready threads run; the dead are reclaimed |
| stale_state, unblock_picked | smallest programs | findings 1 and 2 |
| structures | 2 queues of 4 threads; a heap of 80 bytes; 2 elements, 3 list nodes, a tree of height 3; lists of up to 5; command lines of up to 5 (3 for the elements) | the shared links spell two FIFOs; blocks tile the heap, data is kept, no hole is missed, the tests pass; every owner is counted; the list is the sequence of its calls; the sorts, the tree, the class tables and the list programs print what they should, the tree in C only where `malloc` returned zeros |
| monitor | 4 threads, 2 conditions | exclusion, truthful fields, no lost or left-over wakeup, nobody stranded, implements Mesa |
| semaphore | 5 users, 1 producer, initial 2 | value counts sleepers, implements CountingSem, nobody starves |
| programs | q2 with 3 threads and N = 2, q3 with its 3 threads, q4; smoke with 2 rounds and two scopes of who is ready first | result, order and termination; the agent starts a round when all wait for it, and the counts match |
| smoke_start | 1 round, any start | finding 4 |
| readers | 3 blocks, trails of up to 4, of a story of 5; up to 3 handlers on each other | right answers, callbacks that find their read done, nobody spins for ever, main returns and last |
| nested_handler | aRead with a tick before its callback is done | finding 3 |
| sm213 | 96 bytes; two of the repository's programs, 13 command lines and images, 3520 single instructions after four loads; 60 cycles, 1 interrupt | the four simulators agree; a fault keeps the state; an interrupt stops the loop |

### Bounds

- A record of `Programs` gives 2 or 3 calls to a thread: enough for create, then block or yield,
  then act on a second thread, and every call is one switch of at most ten steps. `MaxClaims`
  bounds joins and detaches of one thread: 1 is what the header allows ("mutually exclusive").
  `MaxSpurious` bounds POSIX spurious wakeups; one returns a sleeper at every point of the sleep
  protocol.
- `AnyUnblock` FALSE limits `uthread_unblock` to threads that run or are blocked, once per
  block, as mutexes and semaphores do; TRUE is what the header allows, in unblock_picked. An
  unblock of a thread that sleeps on a wait queue or in a join wakes it for nothing, so the
  program of mixed calls has none. On one processor its calls come in any order. With two, threads that block are kept apart from threads
  that return, because mixing them is finding 1.
- The older scheduler carries the same programs, smaller where its idle threads, which yield for
  ever, make them large; on two processors threads return (created and joined ones) or block.
  Threads that yield and return there are left out: see the remarks below.
- Two processors show every pairwise race of the switch; two threads that switch to each other
  and the idle threads behind them need no third.
- The heap of 80 bytes holds ten words: up to five blocks without payload, or three with one, so
  that a freed block has two free, two used or mixed neighbours. `Requests` (0, 4, 16 and 40
  bytes) give blocks of 2, 3, 4 and 7 words: rounded and exact, and remainders of 0, 1, 2 (too
  small) and more words.
- `Buckets` = 3 and `Iters` = 9: a bucket is toggled three times, and freed neighbours are on
  either side. `MaxRefs` = 2 lets a client keep what it also gives away; three nodes have a
  middle one; a tree of height 3 has elements on both sides of an inner one. A list grows twice
  (`INITIAL_SIZE` 2 and `GROWTH_FACTOR` 2 where `list.c` has 10 and 5).
- Five arguments are one more than the static sort takes; three different numbers give every
  order of three and repetitions.
- In sm213 the preamble of a single instruction loads the smallest int, an address, -1 and 1; its
  operands name registers inside and outside the eight, offsets and shifts on both sides of
  their limits. `max.s` and `test.s` are moved to lower addresses.
- Monitor and Semaphore repeat their calls for ever. Four threads are a holder, a queued writer
  and two queued readers; two conditions let one thread be signalled while another waits
  elsewhere. `MaxValue` = 3 bounds the producer above what the users start with.
- `N`, `NUM_ITERATIONS` are the programs' loop counts (100000 and 10000 there); two are one
  round and its successor.
- `readyFirst` in Smoke is scope, one of `Scopes`: it delays the agent's start until these have
  got to their waits. `AllButTwo` leaves a handler, a smoker and `main` late, for the size of
  the run.
- `MaxDepth` = 4 frames are the program and three handlers, one per read that can be outstanding
  in aRead of three blocks. The stories' start blocks do not hold 0 (`ProgramsAssumption`):
  `treasureHunt.c:76` uses the value minus one as an index.

Deadlock checking is off where the system may really stop: an idle UThreads program (every
thread blocked, all processors asleep), monitor threads that all wait on a condition, the
smokers when signals were lost or a late handler missed its own (in programs too), and an aRead
whose callbacks nest (`queue_dequeue` of the nested one spins on the mutex of the frame below).

### Fairness

The operating system runs every pthread in the end: weak fairness of each processor in UThreads,
none for spurious wakeups. In Monitor and Semaphore it is weak fairness of each thread's next
step inside the library; that a thread on the ready queue runs again is `UThreads!ReadyRuns`,
and that a holder unlocks (a thread past a semaphore signals) is asked of the program. Nobody
has to call, wait on a condition, signal or produce. Starvation of one locker is possible in the
code (a newcomer may barge past the woken one), so only `Progress` of somebody is claimed; a
semaphore hands over in FIFO order, so `WaiterServed` is per thread.

In SM213 a thread that is inside `start()` goes on; nobody has to start or interrupt it. Programs
and Smoke take the fairness of Monitor over to their threads.

In Readers time passes and the timer ticks (weak fairness). Ticks are a millisecond apart,
thousands of instructions: a tick may come between any two steps, but not for ever between the
same two, so the program and the handlers of each depth are strongly fair.

### Findings

1. **stale_state** (`uthread.c:544`). After a switch the code reads `from_thread->state`. A
   thread that blocked can by then have been woken, have run on another processor and be on its
   way out: `TS_DYING` is seen, and a detached thread is freed while the other processor still
   uses its stack (later reaped once more). The comment at 582-587 says that the lagging state
   is okay.
2. **unblock_picked** (`uthread.c:590`). An unblock between the dequeue of a thread and its
   becoming RUNNING puts it on the queue again: two processors on one stack. `uthread.h:37`
   allows the call.
3. **nested_handler** (`disk.c:115`). The unlock before the delivery unmasks the timer signal
   inside the handler; a tick during aRead's callback nests a second one, and an update of `sum`
   or `pending_reads` is lost.
4. **smoke_start** (`smoke.c:257`). `num_active_threads` counts created threads and not, as its
   comment at line 45 says, threads that wait: the agent's first signals can be lost.

Remarks without a run: of two joiners of one thread the first is overwritten and never woken
(`uthread.c:652` tests `joiner` outside the lock; the header forbids the use). An unblock of a
thread that yielded and is on the ready queue changes nothing (`uthread.c:140`), so its next
block does not return at once. `tRead.c:21` dereferences the dequeued thread as if it were a
pointer to one, so that the first completed read is undefined.

The older scheduler frees too early on two processors or more: a thread that yields is on the
queue before it has stopped, another processor may run it to its end, and the first one then
sees `TS_DYING` and frees it under the second (`Older(BlockOrExit)` in place of
`Older(Mixed)` in `MCUThreads` violates `NoUseAfterFree`). The programs of `a09/q1` and `a09/q3`
have one processor.

The simulators differ, and the model follows each: the C programs print a message at an illegal
instruction and go on, where Java throws; the jump `j o(rr)` with an offset of 128 or more is
signed in one and not in the other; shifts by 32 and more; `sys` is in C only; registers 8 to 15
are written beside the array in C and refused in Java; the student's CPU has neither `gpc` nor
the codes 8 to 12, and its instruction register lets the sign of the first bytes spill over the
rest (nothing reads it but the display). `AbstractCPU.java:215` clears the interrupt when
`start()` begins, so that one triggered before is lost, although the comments at 188 and 197-198
promise that a request stops the machine: `StopsWhenAsked` is stated from the loop on.

`BinaryTree.c` does not clear what `malloc` returns and then tests the links in it for NULL:
undefined, unlike `BinaryTree.java`, unless `malloc` returns zeros. The model has both, and
`ResultsRight` is about a program that is not `lost`; a Java one never is.

## 4. Proofs

TLAPS proves the following for every value of the constants that the named assumptions allow.
Each proof rests on an inductive invariant that TLC checked first; it has one step per action.

**MonitorProofs** (any finite set of threads, any conditions).

- `TypeCorrect`, `HolderCorrect`, `ExclusionCorrect`. `IInv`: exclusion needs the fields to tell
  the truth (a lock tests the fields, not the threads), truth needs exclusion (`holder = 0` is
  written for whoever unlocks), and the type of `reader_count` (it stays in Nat through the
  decrement) needs a reader to be there. The readers are counted with the theorems on
  cardinality, which is why the set of threads must be finite.
- `PlaceCorrect` (`WaiterInPlace`): a sleeper is on the queue its role says, or woken, never both.
  `QueueInv` adds that nobody is on a queue twice or on two conditions' queues; the property alone
  does not say that a dequeued thread is off its queue.
- `StrandedCorrect` (`NobodyStranded`): every action that empties a role (a holder leaves, a woken
  one takes the mutex or sleeps again) leaves another thread that will wake the sleepers.
- `MonitorImplements` (`ImplementsMesa`), action by action. Two things make it work. A thread in
  `uthread_cond_wait` that still holds the mutex is already on the condition's queue, but for its
  clients it waits only from the unlock on; so the mapping hides it (`LetGo`), and `LastToQueue`
  says that it is at the end of the queue, where hiding it leaves the others in order. And a
  sleeper in the mutex's own queues is, in Mesa, just a thread that wants the mutex.

**SemaphoreProofs** (any threads, producers and initial value). `ValueCorrect`, `SleeperCorrect`;
the invariant adds `QueuedOnce`, without which a dequeued thread might still be on the queue.
`SemaphoreImplements` (`ImplementsCountingSem`): a wait that sleeps is a stutter, and the signal
that wakes it is the abstract signal; the count it adds is the sleeper's.

**UThreadsProofs** (any number of threads, processors, calls and spurious wakeups). With any mix of
calls on several processors the scheduler is wrong: TLC finds two processors on one stack (findings
1 and 2). So the theorems are about programs that keep one of two disciplines, under the scheduler
with an idle sleep:

- `Separate`: wakeups come from wait queues and ends of threads, not from an `uthread_unblock` at any
  time, and a thread that yields neither waits nor joins. `Pool` and `BlockOrExit` in MCUThreads are
  such programs.
- `Unblocking`: threads create, block and unblock, and a thread is unblocked only when it has
  started, and not twice for one block (`uthread.h:37` asks for less; that is finding 2). `Unblocks`
  in MCUThreads is such a program.

`OneProcessorCorrect`, `NoStrayReadyCorrect` and `NoLostWakeupCorrect` hold under either,
`JoinAfterExitCorrect` under the first, `UnblockKeptCorrect` under the second. For one
processor the run uthreads shows more than the theorems: threads there may yield, wait, wake, join,
detach and exit as they like, each being joined or detached once at most and nobody calling
`uthread_unblock`.

`SchedInv`, for `Separate`, says who is where: a stack nobody executes belongs to a thread about to
resume (`OffResumes`); a thread that was answered (is ready, or picked) is stopped or on its way
there, and nobody else will answer it (`AnsweredStopped`, `AnswerNotPending`); a thread that yields
is answered by whoever looks at its state after the switch, and by one only (`OneHandoff`,
`RunnerAnswered`), which is where the discipline is used: what that processor reads cannot have
changed. `UnblockInv`, for `Unblocking`, follows an answer instead: from the `uthread_unblock` that
gives it, which may come before the block, over the ready queue and the processor that picks the
thread to the return of its block there is exactly one of them (`OneAnswer`), so that the thread
cannot be picked twice and cannot stop without being picked. `SleepInv` is the idle sleep: the ready
queue is empty while `pthread_mutex` is held by somebody about to sleep, and `pthread_num_sleeping`
counts the sleepers, signalled ones included.

`NoUseAfterFreeCorrect` (`Separate /\ Returners /\ ClaimOnce`) adds two things to `SchedInv`. `EndsWell`: when
a thread has ended, one processor looks at it, once, after it has left its stack, and decides with
the joiner who frees it. That needs `Returners`: a thread that calls `uthread_exit` neither waits nor
joins. `uthread_switch` reads `from_thread->state` after it has let the thread go; one that was woken
from a wait, ran on another processor and ended in between is taken for one that ends here, and freed
under whoever runs on its stack (finding 1). `ClaimsInv`: who joins or detaches a thread is
alone with it, which needs `ClaimOnce`, since `uthread_join` tests `joiner` before it takes the lock (a
hazard without a property).

**ReadersProofs** (any reader, any story that the program's index arithmetic is defined for, any
nesting depth). `DiskMutexCorrect` rests on `IInv`: `prq_mutex` is held only while the top frame is
in its loop (`HeldOnTop`), no frame below another is there (`LoopOnTop`), and the loop runs with
the signal masked (`LoopMasked`); that the lock masks it although `isInterrupt` may be set is
`LockSafe`. `IsrFindsReadCorrect`, `NobodySpinsCorrect`, `ReturnsLastCorrect` rest on `RInv`, which
follows every read from `disk_schedule_read` to the end of its callback by counting the frames that
are under way with one: the program's queue is the disk's with the coming reads in front
(`QueueFollows`); in aRead, `pending_reads` is at least what is left to serve, also in the value that
an interrupted callback is about to store (`AllAtOnce`, `Fit`), so a lost decrement (finding 3) can
keep main from returning but cannot let it return early; the other two readers have one read in
flight while they spin (`OneByOne`), and their flag is up when they begin to (`FlagsUp`).
`AnswerIsRightCorrect` adds `AInv`, about what is read: what a spinning main waits for is the block
it needs, still to be written or written (`RightBlock`); the finished rounds of a hunt have left the
trail in its buffers (`OnTrail`); where handlers do not nest, aRead's blocks are written, taken from
the queue and added in the order of their numbers (`AddingUp`; nested, finding 3 is the
counterexample). The answers are recursive functions, `Total` and `Trail`, and the induction that
says what they are (`TotalIs`, `TrailIs`) is over a set of numbers: `Upward` derives it from the
pigeonhole theorem of finite sets, `Recursion` gives the function.

**ProgramsProofs** (any N, any number of rounds, any `Scopes`, any finite `Party` at q3's barrier). `CountsBackCorrect`: `cnt` is the sum of what the iterations so far
contribute, and a loaded value is `cnt` as long as its thread holds the mutex. `BarrierCorrect`: until
the last arrives, whoever has counted waits on the condition and nowhere else (`Gathering`), so
that no unlock can wake it; that is why the wait without a loop in `q3.c` is right. `OrderCorrect`:
flags, output and what is left to do tell the same. `CountsMatchCorrect` and
`EachRoundReadyCorrect` are about the smokers. `Locks` says what `smoke.c` makes of the monitor: each
thread has a condition of its own, empty or with that thread alone on it. `Rounds` follows a round
from hand to hand: the agent has offered what smoker x lacks, handlers have passed it on, x has
smoked (`BetweenRounds`, `Offered`, `Passed`, `Smoked`); a lost signal leaves it in `Offered` for
ever, so that the agent does not return, and the counts are right when it does. `Settled` adds that a
worker which once waited holds the mutex until it waits again, so that whoever the agent finds when
it has the mutex back is ready.

**HeapProofs** (any size and requests within `SizesAssumption`, any order of calls; the tests of
`main.c` are such calls, `TestsCalls`). `BlocksTile` and `DataKept` say what the blocks that a walk from
the first header meets look like; a walk is a recursive function, of which nothing is known before
the heap is known to be in order. So `HeapInv` does not mention it: some set B of blocks tiles
the memory (`Row`), no two free ones side by side (`Tiled`), those in use are the client's, with room
and with its data (`Clients`), and a malloc under way stands at one of them with no fit before it
(`Search`). `WalkRow` shows, by induction over the numbers, that the walk meets exactly the blocks of a
row. Each operation replaces some blocks that lie side by side by others, and the rest of the row
does not notice (`Retiled`, `OneBlock`); `Coalesced` follows the two calls of `coalesce` in `free`.
`FirstFitImplemented`: the holes of FirstFit are the free blocks, because nothing is left to join
(`HolesAre`), a malloc that returns takes the first hole that is large enough, and one that fails has
passed all of them.

**StructuresProofs**.

- `QueuesCorrect` (`UThreadQueue!LinksSpellContent`, any number of queues and threads):
  `uthread_enqueue` takes a thread for queued when its `next` is set or it is the tail of the queue;
  that this is right needs each queue spelled link by link, the queues disjoint, and no link left in
  a thread that is on none.
- `SortsCorrect` (any number of arguments, any integers): what is behind `i` is in its place
  (`TailInPlace`), what the inner loop has passed is no greater than what is at `i` (`GreatestAtI`),
  and the values are a permutation of the arguments, which an exchange composes with a
  transposition.
- `OwnersCountedCorrect` (any contents, elements, nodes, references, height, order of calls).
  `CountsInv` has three parts that need each other. `HeapCounts`: the count of an element is its
  owners', counted as the client's references, list nodes and tree nodes. `ListLinked`: the list is a
  chain of the nodes that were added and not deleted, linked both ways (`Chain`); without it the walk
  of `list_delete` might miss a node, and its reference would never be given back (`WalkMeets`).
  `TreeGrown`: the way to a node leads through nodes, as the comparisons say; the elements compare
  as they did because who is in the tree stays allocated, by `HeapCounts`. Deleting a list or a tree gives
  references back one at a time, an element with several owners more than once; `ReleasedLeft` says
  what that leaves, as long as nobody gives back more than is counted.

**SharedTheorems** has the lemmas about `Append`, `Head` and `Tail` on queues without repetition, and
`Upward` and `Recursion`, that several of these modules share.

Assumptions are the named ones of the modules. `ThreadsAssumption` (`NoThread` is no thread; finite
sets where readers or sleepers are counted), `BootAssumption` (finitely many processors, as
`uthread_init` creates), `InitialAssumption` (the initial value is not negative),
`NAssumption`/`NamesAssumption` (N is a natural number, the threads differ), `PartyAssumption` (the threads of q3 are
finitely many, and `NoThread` is none), `NoThreadAssumption` (nor is
`NoThread` one of smoke's), `NullAssumption` (no
thread is NULL), `StoryAssumption` of Disk (the story is a list of
natural numbers), `ProgramsAssumption` and `EntryAssumption` of Readers (one of the three programs,
a block number that is an index; NULL is no entry), `SortAssumption` (arguments are integers or
`NotNumber`, which is none), `SizesAssumption` of Heap (the size of the heap is a multiple of eight and an
int, and requests are at most 2^31 - 24, so that `get_size_to_allocate` does not overflow), `TestsAssumption` (numbers of buckets and iterations), `CountsAssumption`
of RefCount (addresses are numbers and NULL is none, the nodes are finitely many, a content is an int or
a string).

Only model-checked: everything about schedules outside the two disciplines, and the scheduler whose
idle processors do not sleep; `TestsPass` of the heap's tests; the growing list (its half of
`LinksSpellContent`) and what is computed by the small programs other than the sorts (`ResultsRight`): folds and
recursive functions over sequences of any length, which would each need an induction of its own; the
simulators (`ImplementationsAgree`), whose words are bit patterns that the provers do not decide; and
all liveness (out of the prover's reach).

## 5. Not modelled

- Signal masks in UThreads (in Disk they are), register and stack layout, `uthread_self`'s
  search by stack address, memory of the library's own objects (the destroy functions only
  free).
- Weak memory: `uthread_switch` has an `mfence`, and the rest is under locks; `spinlock_unlock`
  is a plain store, which x86 keeps in order.
- The pthread creation in `uthread_init`: all pthreads exist at `Init`.
- `tRead` (undefined at its first read), `aRead_old` (uninitialised buffers), `promise.c` (used
  by no program), the free lists of `disk.c` and `queue.c` (the records are sequence elements).
- Heap requests above 2^31 - 24, where the `int` of `get_size_to_allocate` overflows
  (`SizesAssumption` excludes them from the runs and from the theorems); frees of
  what was not allocated.
- Of the SM213 Java machine: stalls and bubbles of pipelined variants, the wait of `getInput` and
  its timing exception, observers and breakpoints; the parsing of files by the C simulators,
  beyond what is loaded where.
- Of `a08/q2-3`: the text that is printed. Of the exercises: straight-line programs, the
  assembly that translates them, and binaries.
- Everything listed `not_modelled` in `PROJECT.json`: the stubs and the Swing front end.

## 6. Plan

1. Model: what is left is small beside the rest: the traffic and thread pool programs once they
   are written.
2. Prove: the growing list (`ArrayIsList`: an append, an insertion and a removal each spell what was
   there, and then the folds over them), the trees and grades of `ResultsRight`, and a discipline under
   which threads may both wait and unblock.
