# A TLA+ development of the locks and stacks of utd_cs6V81_spring2012

The repository holds three course projects on threads and shared memory: shared
counters and queues (`src/project1`), locks (`src/project2`) and concurrent stacks
with a garbage collector (`src/project3`). This directory models the programs of
all three, with the circular buffer that the collector keeps its nodes in, checks
them with TLC on small instances and proves with TLAPS, for any number of threads,
nodes, items and so on, what holds of the locks, the stacks, the exchanger, the
counters and the queues; of the garbage collector for two threads, since it
fails with three. Section 4 lists where the code does not do what it, or a text about
it, says; section 5 what is proved and how, section 7 what is not modelled, section 8 what is left to prove.

## 1. The system

### project2: locks

| Part | State | Operations | What makes it correct |
|---|---|---|---|
| `simple_test.cpp`, `test_common.cpp` | the shared `counter`, the list of threads, the lock | create, join, delete, print; `counter++` under the lock | every increment counts; the lock outlives its users; the program ends |
| `create_lock()` | the lock | one of five locks | whichever is made is a mutex |
| `TASLock` | `state` | test-and-set until it was clear | mutual exclusion |
| `TTASLock` | `state` | read until clear, then test-and-set | the read proves nothing and must not be relied on |
| `BackoffLock`, `Backoff` | `state`; per call `limit` | test-and-set, sleep, double the limit | mutual exclusion; a delay range that is never empty |
| `ALock` | `flag[]`, `tail`, `curslot` | draw a ticket, wait at a slot, pass the flag on | mutual exclusion, first come first served, no starvation, `curslot` is the holder's |
| `PThreadLock` | a pthread mutex | lock, unlock | mutual exclusion |
| `second_test.cpp` | `counter`, per-thread counters and waiting times, the wall clock | wait for the start, lock and count until the stop | the counts add up to `counter`; no waiting time is impossible; the program ends |

Threads only meet in the lock and in the counter it protects. What is hard is the
interleaving of single memory accesses, the shared plain variable `curslot`, the
modular arithmetic of the ring of flags, and the end of the program when
`pthread_create()` fails half way.

### project3: stacks

| Part | State | Operations | What makes it correct |
|---|---|---|---|
| `testtwo.cpp`, `TestCommon.cpp` | totals, start and stop time | push and pop until the time is up, join, pop what is left | every node is accounted for once; the program ends |
| `LockStack` | `head`, a mutex | push, pop | it is a stack |
| `LockFreeStack` | `head`, `limit`, a generator | push, pop, backoff | it is a stack; no A-B-A; `1 <= limit <= 512` |
| `GarbageCollector`, `GCNode` | a counter, the list of the threads' clocks, dirty and clean lists | reg, dereg, clean, cleanup, alloc | no node is freed or reused that a thread may still read; none is lost |
| `EliminationStack` | `head`, an array of exchangers; per call `range` | push, pop | it is a stack on which operations may also meet |
| `Exchanger`, `EliminationArray` | one word per slot: a node and a state | visit: offer, accept, wait, withdraw | a visit trades with one partner or gives the node back; a slot is left free; every visit ends |
| `testone.cpp` | totals, added without synchronisation | fixed number of operations | every push is matched by one pop; the totals count what was done |
| `boost/circular_buffer` | an array, two pointers into it, a size; a capacity controller | push, pop, insert, erase at both ends and anywhere, rotate, linearize, resize, assign | it is a list of bounded length that overwrites at the right end; iterators stay good where the interface says so |

A worker calls the stack, and between its calls the collector; the collector
reads the other workers' clocks. `main` only comes back when all have returned.
What is hard: a node can be popped, and come back, between any two accesses of
another thread's `trypop()`; the clocks are read one by one while they move; a
thread that has nothing to do keeps everybody's garbage alive; a partner may come
to an exchanger after the last look of a thread that gives up; the buffer's items
wrap around its array at any place. The buffer is used by one thread at a time (the
collector's two lists per thread).

### project1: counters and queues

| Part | State | Operations | What makes it correct |
|---|---|---|---|
| `part1`, `part2`, `part2a` | `counter`, a mutex | increment without synchronisation, under the mutex, by an atomic add | parts 2 and 2a print the exact number, part 1 a possible one |
| `LockQueue` (`part3`) | ring, `head_`, `tail_`, a mutex with one condition variable | enqueue, dequeue | a queue; nobody sleeps for ever |
| `LockFreeQueue` (`part3`) | ring, `head_`, `tail_` | enqueue, dequeue | a queue, without any lock |
| `part3` | the queue in use | run one kind of queue, then the other | both threads end |

What is hard: waits that are tested with `if`, so that a wake-up without a signal goes
unnoticed, and signals that are only sent when
the queue was empty or full; two indices that each one thread writes and the other
reads.

### Not the system's own logic

`tex/`, the python scripts and the Makefiles build, run and plot. `project3/boost` is
vendored; its circular buffer is modelled because the collector rests on it. Argument parsing yields the constants of the models. `Random.h` names
boost's generators: a draw is a nondeterministic choice here.

## 2. The modules

```
SimpleTest            simple_test: the harness of the locks
  Mutex               what class LOCK promises (abstract)
  TASLock  TTASLock  BackoffLock (+ DelayArgs)  PThreadLock  ALock
  TestLocks           create_lock(): the harness with one of the four locks
  Mutex_proofs        what simple_test gets from any mutex
  TestLocks_proofs, ALock_proofs

StackTest             testtwo: the harness of the stacks
  LifoStack           what class Stack promises (abstract)
  LinkedStack         nodes of the heap, linked from head
    LockStack
    LockFreeStack     push() and pop() alone
      LockFreeTest    ... run by testtwo without the collector
      GarbageCollector  ... run by testtwo with it
        MCGarbageCollector
    TestStacks        testCommon(): the harness with one of the two stacks
    EliminationStack  over what the elimination array promises
  LifoStack_proofs    what testtwo gets from any stack
  TestStacks_proofs, GarbageCollector_proofs
  TestOne             testone: the harness with a number of operations
    TradingStack      LifoStack whose operations may meet (abstract)
    EliminationTest   the elimination stack run by testone
  EliminationTest_proofs

Rendezvous            what visit() of the elimination array promises (abstract)
  Exchanger           visit() and exchange(), one access to the slot per step

SharedCounter         parts 1, 2, 2a
Fifo                  what class Queue promises (abstract)
  ProducerConsumer    part 3: LockQueue and LockFreeQueue
SecondTest            second_test
Programs              one of these programs is run
  ProgramsAndExchanger_proofs    about Programs, and about Exchanger

BoundedList           what the circular buffers promise (abstract)
  CircularBuffer      circular_buffer: the representation and its functions
    CircularBufferClient    ... called in any order
    SpaceOptimized    circular_buffer_space_optimized, over CircularBuffer
      SpaceOptimizedClient  ... called in any order
    CircularBuffers   an object of one of the two classes
```

**Harness and lock.** `SimpleTest` holds the variables of the harness and its
steps; it has no lock. A lock's module extends it, adds the lock's variables and
the steps from `pc = "lock"` to `"cs"` and from `"unlock"` to `"loop"`. `counter++`
is a load and a store. One step is one access to shared memory; what a thread does
with its registers in between is part of a step. The locks use atomic operations
and x86 stores, which are seen in program order, so an interleaving of steps is
what the machine does.

**Locks.** In `TASLock`, `TTASLock` and `BackoffLock` the test-and-set is split by
its outcome (`TestAndSetWins`, `TestAndSetLoses`). `BackoffLock` starts with any
`state`, since the constructor does not write it, and keeps each call's `limit` in
`uint32_t` arithmetic, with `UIntSpan` standing for 2^32. The sleep's length is
left out. Its do-while condition reads `state` once more, but both outcomes lead
to the next test-and-set. `PThreadLock`'s mutex is external: it has at most one
owner. `ALock` has a step for the
fetch-and-add, each flag read, the lowering of the flag, the store to `curslot`,
and in `unlock()` the read of `curslot` and the raising of the next flag.

**Harness and stack.** `StackTest` is to the stacks what `SimpleTest` is to the
locks. `main` is an actor like the workers because it pops through the same code.
That the clock reaches `stoptime` is the event `TimeUp`. `Nodes` are heap
addresses; `contents` is a history variable of `LinkedStack`, the abstract
sequence of nodes on the stack, which the code's `head` and `next` are compared
with. Node data and the count of allocations are left out.

**LockFreeStack.** `trypush()` is a read of `head->next`, a store to `node->next`
and a compare-and-swap; `trypop()` is the read of `head->next`, the read of
`n->next` and the compare-and-swap. `backoff()` loads and stores the shared `limit`
in two steps. Without the collector a popped node is neither deleted nor reused;
`Allocate` then takes any fixed free address, since no two allocations can be told
apart.

**GarbageCollector.** A step is one access to the global counter, to a thread's
clock, or to the list of clocks; the work on a thread's own lists goes with the
access it follows or precedes. `getminclock()` loads a clock through a pointer to
`volatile`, to compare it (`ScanCompare`), and loads it again if it is smaller, to
keep it (`ScanTake`); both are steps, with the lock held for reading. Clocks are 64-bit values that are only compared, so
`GetClock` renumbers those in use as it draws a later one: the order is kept and
the states are finitely many. `_exit(1)` on a full dirty list is `DirtyListFull`.

**Exchanger.** A slot is one 64-bit word: a node and a state in its two low bits.
`get()` reads it twice, so that the state may belong to another item; each read and
each compare-and-swap is a step. The clock is reduced to what the code asks of it,
whether a reading is before `bound`, and may give either answer. The array has the
slots `0..maxrange-1` (`Slots`), but `visit()` draws from `0..min(range, maxrange)` (`Draws`):
the last word is past the end of the array (section 4). It begins as any word (`behind`), and
nobody but this code is taken to write it. A thread that draws it is `Astray`
unless it begins as `Slot()` would make it, and is promised nothing; the properties say
that the other threads are not harmed. `Visit` calls it with the ranges that
`push()` and `pop()` produce: 2 doubled as an `int`, which ends at 0. Whatever the
callers do in between is left to the other modules.

**EliminationStack.** `trypush()` and `trypop()` are those of the lock-free stack. When
the compare-and-swap fails the operation visits the elimination array, of which
only the promise, `Rendezvous`, is used: `Meet(t, u)` lets two visitors of one slot
leave with each other's nodes at once, `MeetNobody` lets one leave with its own. That
the slot protocol keeps this promise is the run `exchanger`. `Draw` draws as the code
does, one past the end, and the word there is taken to begin as a slot does. A push that leaves
with a node has met another push and goes on with the other's node.

**testone.** `TestOne` extends `StackTest` by the count of operations and the two
additions to the totals, each a load and a store.

**project1.** In part 1 the compiler (`-O2`) may keep `counter` in a register for any
number of iterations, so a thread may store at any time after it loaded. In part 3
every access to an index, an item or the mutex is a step. The lock-free ring is
right on the machines the programs are built for (x86 keeps the order of stores and
of loads), and only if the compiler keeps it, too: an item is an `int` like the
indices and may alias them, so it has to. `pthread_cond_wait()` goes to sleep (`Wait`),
is woken by a signal or by nothing at all (`WakeUp`, which POSIX allows), and takes
the mutex again (`Resume`); the condition is not tested a second time. `unsignalled` is a
history of the threads woken by nothing. `main` deletes a queue when both threads
have been joined, and runs the next kind.

**second_test.** Times are numbers of nanoseconds, `NSEC_SEC` to the second; the program
sees them as pairs and compares and subtracts those. The clock may be set back
once, by one nanosecond. The lock is any mutex.

**Circular buffer.** The functions are operators from a record (`cells`, `m_end`, `m_first`,
`m_last`, `m_size`) to a record; loops are folds of their single stores in the
order of the code, since a wrong order would overwrite what is still to be moved.
`linearize()`, with its two nested loops, is the repetition of a step. The item
type is scalar, as the collector's `Node*`: constructing is storing, and nothing
throws. A client calls all functions with all arguments the documented
preconditions allow. The space optimized class hands everything on to the first
one, after or before it has changed the capacity of the array. The builds of the
repository do not define `NDEBUG`, so they have the buffer's assertions, which are
those preconditions, and its registry of iterators, which changes no list.

**Abstract specifications.** `Mutex` says that `lock()` lets a thread in when
nobody is in; `LifoStack` that `push()` and `pop()` act at once on one sequence, and
that `pop()` returns NULL only if it is empty; `TradingStack` that, besides, a push may
hand its node to a pop, or swap it with another push. `Rendezvous`, `Fifo` and
`BoundedList` are described above. Each `Implements...` property is the refinement, by a
mapping of program points: a step inside the call stutters.

## 3. The runs

| Run | Module, bounds | What it shows |
|---|---|---|
| `locks` | `TestLocks`; 3 threads, 2 rounds each; delays 1..3, 8 values of an unsigned | with TASLock, TTASLock, BackoffLock or PThreadLock: mutual exclusion as a refinement of `Mutex`; an exact report; no use of the deleted lock; a legal delay range; the program ends |
| `alock` | `ALock`; 3 threads, 2 rounds each | the inductive invariant of the proofs; `curslot` is the holder's; no two waiting threads at one slot; refinement; first come first served; no starvation |
| `stacks` | `TestStacks`; 2 workers and main, 2 pushes each, 3 nodes, limits modulo 3 | LockStack and LockFreeStack: totals balance; refinement of `LifoStack`; the racy limit stays in range; the program ends |
| `garbage_collector` | `MCGarbageCollector`; 2 workers and main, 2 pushes each, 3 nodes, threshold 0, lists of 2, until the time is up | no A-B-A although nodes come back; a node a thread is about to unlink is neither free nor ready for reuse; every node is in exactly one place; dirty lists are sorted; refinement of `LifoStack` |
| `garbage_collector_three` | the same; 3 workers, 1 push each, 2 nodes, lists of 1 | finding 1 below |
| `garbage_collector_end` | 2 workers, 1 push each, 2 nodes, lists of 1 | nothing leaks; the spinning `dereg()` ends for everybody, and the program with it |
| `exchanger` | `Exchanger`; 3 threads, 2 nodes, 1 word that begins as anything | in a word that begins as a slot the protocol keeps the promise of `Rendezvous`, and whoever owns a slot that is not EMPTY is in it; every visit ends, also in any other word |
| `elimination` | `EliminationTest`; 3 workers and main, 2 operations each, 4 nodes, 1 slot | the elimination stack refines `TradingStack`; when `main` ends, pushes and pops balance |
| `elimination_hang` | 2 workers, 2 operations each, 2 slots | finding 2 below |
| `programs` | `Programs`; 3 threads with 3 increments; 5 items through a ring of 2; 2 testers, seconds of 2 ns, 6 ns, 1 round before the stop | parts 2 and 2a print the exact number, part 1 a possible one; the lock-free queue of part 3 refines `Fifo`, and `LockQueue` does until a wait returns without a signal; `second_test`'s own check succeeds and its waiting times fit into the time that passed; every program ends |
| `programs_wakeup` | the same | finding 3 below |
| `circular_buffer` | `CircularBuffers`; capacities up to 4, 2 items; space optimized: capacities up to 6, minima 0, 2, 5 | the representation is consistent after every operation; every operation and result is that of `BoundedList`; elements that the interface does not count among the moved ones stay in their cells; the array of the space optimized buffer never exceeds its maximum, and keeps its minimum in every operation but a copy, which is documented to have room for the items only |

Every property of a run that passes has a mutant: a fault planted in a definition that models code
(the operators marked `Fault:`), under which TLC finds the property violated.

**Bounds.** Three threads let one hold a lock while two race for it, and two rounds
each let the array lock's tickets go around its three slots twice. Two workers and
`main`, three nodes and four pushes are enough for a node to be popped,
cleaned, reused and pushed back while another thread is inside `trypop()`: the
smallest A-B-A takes two nodes and three pushes, and the mutants of
`garbage_collector` find it. With a threshold of 0 instead of 10
`clean()` calls `cleanup()` whenever the dirty list is not empty, and lists of one or two entries instead of 2^20 let both
lists run full. `LimitModulus = 3` is the least modulus for which doubling wraps
without reaching zero, as 1023 does. `MCGarbageCollector` permutes the nodes
(`SYMMETRY`) and does not tell states apart by the delay limit (`VIEW`), which
nothing else depends on; only safety is checked there. That instance is cut off
(`CONSTRAINT`) when the time is up, to keep it small: what happens at the end is the
question of `garbage_collector_end`. Two workers are all the passing runs can have: with
three, `Protected` fails (finding 1). In that run all workers register, in the order of
their numbers, before one begins (`Orderly`); this leaves out states and adds none.

Exchangers do not share anything, so one slot with three threads shows what can
happen in a slot: two trade while a third one comes with an outdated read. In the run
`maxrange` is 0: the only word is the one behind the array, and the behaviours in which it begins
as `Slot()` would make it are those of a slot. An instance with a slot in the array
besides and 753,000 states passes as well, but for `VisitEnds`, for which it is too large. An `int` of 2 bits
(`IntBits = 2` there, `IntSpan = 4` in `elimination`, where only the number of its
values matters) lets the doubled range reach 0. In `elimination` three workers let two meet while the third
one works on the stack, which makes compare-and-swaps fail; states that differ
only in `range` are not told apart there, since with one slot it decides nothing.

A ring of two items filled five times goes around twice and is full, empty and in
between. Three increments of three threads let one store undo several of
others, by which part 1 loses more than its share. In `second_test` a second of 2 ns
gives every carry and borrow of the subtraction, and `MaxRounds` limits only the
rounds begun before the stop.

Items of a buffer are moved and never looked at; two different ones are enough to
see one in another's place, and `SYMMETRY` permutes them. Ranges are up to one longer than the
largest capacity, so that something is always left out. The space optimized buffer has
one item, since the run is about its capacities there: up to 6, where a fifth of
reserve makes a difference. The histories of the last call are not part of the
`VIEW`: they decide nothing, and TLC checks the action properties on every step,
whether its target is new or not. The minima 0, 2 and 5 lie below, between and
above the sizes that halving leads to. Constructors only replace an object without a
capacity, since they do not look at the old one.

**Fairness.** Weak fairness of every thread's steps, that is: the operating system
keeps scheduling every thread that can run. `simple_test` and `testtwo` assume
nothing else: no thread is promised that its test-and-set comes at the right
moment, or that it gets the mutex. They end all the same, since each thread does a
bounded number of rounds or stops at `stoptime`. For `stoptime` the clock has to
advance (weak fairness of `TimeUp`). In `garbage_collector_end` a thread that wants
the read-write lock for writing is given strong fairness: the readers that spin in
`dereg()` unlock it again and again, and a waiting writer gets it some time. A
read-write lock that prefers readers may break that promise only if several
readers overlap for ever.

`exchanger` assumes that a thread which looks at the clock again and again sees some
time that it is late (strong fairness of `TooLate` and `TimeIsUp`). In
`elimination_hang` the random generator is assumed to draw a push some time (strong
fairness of `Allocate`), so that the finding does not rest on bad luck. In `programs`
every thread is scheduled and time goes on (weak fairness of `Tick`); nobody is
promised a mutex ahead of others, or a wake-up without a signal.

## 4. Findings

Shown by runs:

1. `garbage_collector_three`. `GarbageCollector.cpp:57`, `if(*(*it) < min) min = *(*it);`,
   loads a clock twice. When its thread moves it on in between, `min` rises, maybe above a clock
   that the scan is past. With three workers A, B and T, whose clocks stand in the list as
   B, A, T: B is in `trypop()` with a node that T pops. T finds B's clock, then A's
   smaller one; A moves on, and T takes A's new clock. Its own is now the smallest, so
   T deletes the node that B still reads. With two workers the only clock that moves is
   the other one's, and nothing can go wrong (section 5). `project3.tex:54` runs it with six threads.
2. `elimination_hang`. `pop()` of the elimination stack looks for an empty stack once,
   before its loop (`Elimination.cpp:84`). A worker that saw a node there which
   another worker then popped never returns when nobody pushes any more, and `main`
   waits for it for ever. `project3/tex/project3.tex:59` says that `testone` "performs
   10000 stack operations".
3. `programs_wakeup`. `LockQueue` tests with `if` whether it has to wait (`part3.cpp:69` and `86`),
   and POSIX allows `pthread_cond_wait()` to return without a signal. A producer woken like
   that stores its item over one that has not been taken, and the queue holds more than
   the `-m <queue size>` of `project1/README:16`.

Met while reading, and taken into the models as they are; no property asks for what is
written of them:

- `BackoffLock.h:54-56` says that `state` has two possible values. The constructor
  (`BackoffLock.cpp:45`), unlike those of the other locks, does not write it, so it starts as
  whatever byte the heap block held. If that is `AO_TS_SET` the lock is born held and no
  thread ever enters; anything else works (`TerminatesUnlessBornSet`).
- `test_common.cpp:82` offers any `uint32_t` as `MAXDELAY`. The doubling in
  `BackoffLock.cpp:35` wraps when the maximum is 2^31 or more: the limit falls below the
  minimum and the range of the draw is empty. While twice the maximum is a `uint32_t`
  the range is legal (`DelayRange`).
- `project3.tex:61` says that at the end `testone` "reports how many stack operations and
  how many memory allocations took place". `testone.cpp:78-79` adds to the totals without
  synchronisation, so one of two additions may be lost, and fewer operations are
  printed than took place. `Accounted` is about the operations, not about the totals.
- `Exchanger.cpp:84` draws from `0..min(range, maxrange)` out of `new Exchanger[maxrange]`
  (`Exchanger.h:88`): **the draw does not stay in the array.** Once the range has been
  doubled beyond 100 a thread may use the word behind the array as a slot. If that is
  not zero, it may take what is there for a node, or find the slot BUSY until its time
  is up; the threads in the array go on as they should (theorem `Refinement`).
- `assign(capacity_ctrl, first, last)` of the space optimized buffer
  (`space_optimized.hpp:691-694`) allocates the whole capacity, since
  `circular_buffer::assign()` takes the controller for a capacity. Lines 667-668 promise
  `max[std::distance(first, last), capacity_ctrl.min_capacity()]`. The collector
  does not use this class.

## 5. What is proved

The theorems hold for every value of the constants that satisfies the named
assumptions of the modules. Those say no more than the programs' arguments do: there
is a thread, counts are natural numbers, NULL is no node. Some theorems ask
for more and say so in their statements: `DelaysInRange` that twice the maximal delay
is a `uint32_t` (section 4 says what happens otherwise), `LimitInRange` that the
modulus is the 1023 of the code, those about the collector that there are at most two
workers, `N <= 2` (finding 1 shows what happens otherwise). The collector's proofs use that the heap is finite.

| Module | Theorems | What they say |
|---|---|---|
| `Mutex_proofs` | `Exclusion`, `Report`, `Delete` | with any lock that implements `Mutex`, `simple_test` prints exactly the increments asked for, and deletes the lock after its last use |
| `TestLocks_proofs` | `TypeCorrect`, `Invariance`, `DelaysInRange`, `Refinement`, `Report`, `Delete` | TASLock, TTASLock, BackoffLock and PThreadLock implement `Mutex`, and so the above holds for them; the range of the delays is legal |
| `ALock_proofs` | `TypeCorrect`, `Invariance`, `MutexCorrect`, `CurslotCorrect`, `OneFlagCorrect`, `SlotsCorrect`, `Fair`, `Refinement`, `Report`, `Delete` | the array lock implements `Mutex`; `curslot` is the holder's; one flag is up; no two threads wait at one slot; threads enter in the order of their tickets |
| `LifoStack_proofs` | `Invariance`, `Balance` | with any stack that implements `LifoStack` the numbers that `testtwo` prints balance |
| `TestStacks_proofs` | `TypeCorrect`, `Invariance`, `NoReuse`, `OneInside`, `Refinement`, `Balance`, `LimitInRange` | LockStack and LockFreeStack implement `LifoStack`; without the collector there is no A-B-A; the racy `limit` of `backoff()` stays within 1..512 |
| `GarbageCollector_proofs` | `TypeCorrect`, `Invariance`, `NoReuse`, `Sorted`, `Protection`, `NoLeaks`, `Conserved`, `Refinement`, `Balance` | with the collector and at most two workers, any number of nodes and pushes, any threshold and any size of the lists, the lock-free stack still implements `LifoStack`, although nodes come back: a node that a thread may read is not reused; no node is lost or in two places; nothing leaks |
| `EliminationTest_proofs` | `TypeCorrect`, `Invariance`, `Refinement`, `EveryPushAccounted` | the elimination stack implements `TradingStack`; when `testone` ends every push is matched by one pop |
| `ProgramsAndExchanger_proofs` | `ProgramInvariance`, `CounterCorrect`, `TalliesCorrect`, `FifoRefinement` | parts 2 and 2a print the exact number and part 1 a possible one; `second_test`'s check succeeds and its waiting times fit into the time that passed; the lock-free queue of part 3 implements `Fifo`, and `LockQueue` does until a wait returns without a signal |
| | `TypeCorrect`, `Invariance`, `SlotsCorrect`, `Refinement` | about `Exchanger`: the slot protocol implements `Rendezvous`: a visit trades with one partner or brings its node back, unless it is astray past the array |

A refinement is proved as always: the initial states map to initial states, and every
step maps to a step of the abstract specification or to a stutter.

**Counting what is reported.** The exact report is a statement about a sum, which the
prover cannot compute by recursion. It is proved by counting pairs instead: `Stored` is
the set of pairs of a thread and the number of one of its increments that has been
stored, and `counter` is its cardinality. That a store adds one to it rests on
`RegOK`: nobody else stores between a thread's load and its store. When `main` has
joined everybody, `Stored` is the product of the threads and the iterations. In the
same way `LifoStack_proofs` counts the pushes and pops of each thread: pushes counted
or about to be counted are pops counted or about to be counted, and the nodes on
the stack. Both arguments are made once, for the abstract specification; each lock and
each stack takes the theorem over through its own refinement, the abstract module being
an INSTANCE whose parameters are the mapped variables (`ALock!Report` and the
others).

**The four simple locks.** While a thread is between the return of `lock()` and the store
that clears the byte, the byte is set, or the mutex is that thread's; there is at most one
such thread. (The converse does not hold: a BackoffLock may be born set.)

**The array lock.** Mutual exclusion is not inductive by itself: it rests on who may see
a raised flag, which rests on the tickets. Let `Serving` be `tail` minus the number
of threads with a ticket. `Inv` says that the tickets in the queue are distinct and
lie in the window from `Serving` to `tail` (`TicketsInLine`, `TicketsDistinct`), that a
thread past its flag has the ticket `Serving` (`HolderIsServed`), and that the only
flag up is the slot of `Serving`, and that only while nobody has taken it down
(`OneFlag`). The window is at most `N` wide, so by the lemma `ModWindow` (numbers less
than `N` apart with equal remainders are equal) the slots in the queue are distinct
(`SlotsCorrect`), and the thread that sees the raised flag is the one with the ticket
`Serving`. The counting facts about the queue are the lemmas `JoinQueue` and
`LeaveQueue`, from the library's theorems on cardinality.

**The stacks without the collector.** `Linked` says that `head` and the `next` fields
spell the history variable `contents`, `Owned` that a node in somebody's hand is
nowhere else, so that a store to its `next` does not change the list. In the lock-free
stack a thread may hold on to a node that is no longer on the stack: `PopInv` says
that nobody is going to push that node, so its `next` stays what was read, and a
compare-and-swap that succeeds takes off the top and nothing more.

**The collector.** Nodes come back here, so what `PopInv` says has to be earned by the
clocks. The invariant has these parts.
- `PlaceInv`: every node is in one place (the stack, a hand, a dirty or a clean list,
  the free heap), and there once. `Conserved` and `NoLeaks` follow from it.
- `ChainInv`: the list is linked, and what a thread has read for its swap stays true.
- `GuardInv`: while thread `a` is in `trypop()` with a node, the node is not free and
  no thread `u` has it in its clean list or in hand for a push; if `u` has popped it
  since, `u`'s clock, or the stamp of the node in `u`'s dirty list, is later than `a`'s
  clock. `Seen` is about a `u` that is going through the clocks: either it has looked
  at `a`'s clock and its minimum is no later than that, or `a` is still to come in the
  list. Between the two loads of a clock the same holds, with the clock that is loaded
  counted among those to come; if that is `u`'s own, it has not moved. Here `N <= 2` is needed:
  the clock that moves on is `a`'s, which is then no longer in `trypop()`, or `u`'s
  own. So the minimum that `cleanup()` compares with never lets the node go.
- `OrderInv`: a dirty list is sorted, so that `cleanup()`, which stops at the first
  node that is too young, takes none behind it.
- `RegInv`, `HandInv`, `ListInv`, `MainInv`: who is in the list of clocks, at
  which points a thread has a node in hand, what fits in its lists, and what is over
  once `main` has joined the workers.

`GetClock` renumbers the clocks in use; that this keeps their order is a lemma of its own,
from the well-founded order of the natural numbers. In the refinement a thread inside
`clean()` is where `testtwo` calls the stack again, and a node it holds there is out of
sight. `Protected`, which the run checks as well, says the part of `GuardInv` that the
code's comments are about.

**The exchanger.** All of this is about the words that begin as slots (`Made`), the array's and
perhaps the one behind it: a thread that is `Astray` changes none of them (`AstrayStep`). `SlotInv` gives every slot that is not EMPTY one owner, whose node it
holds while it is WAITING. `FoundInv` says what a thread inside `exchange()` may rely on:
once a slot is BUSY nobody but its owner changes it. A trade takes place at the
compare-and-swap of the second thread. `get()` reads the word twice and may combine the
item of one visit with the state of another; the compare-and-swap that follows fails
then, and the invariant does not depend on what was read.

**The elimination stack.** Without the collector no node comes back, so the heap part
of the invariant is that of the other stacks: `Linked` and `Owned`. `Hands` says at which
points an operation has a node, and that a push which is about to swap has
linked its node to the top that it read. A meeting exchanges the nodes of two threads
and leaves everything else alone. `main` pops alone (`MainInv`), which is why it
never visits the array. For `Accounted` the pairs of a worker and one of its counted
pushes (`Counted`) are as many as those of its counted pops, the pops of `main` and the
nodes on the stack, each side with what has happened and is yet to be counted
(`Matched`); a meeting of a push with a pop adds one to both sides. `SumFunction`
is tied to the number of these pairs by the lemmas about folds below.

**The counters.** `Increments` counts the pairs of a thread and one of its iterations. Parts
2 and 2a keep `counter = Increments`, in part 2 because the register of the thread that
has the mutex is up to date (`UpToDate`). In part 1 `AtMost` says that neither the
counter nor a register exceeds `Increments`. That at least 2 is printed rests on
`AtLeast`: a register is 0 only if its thread has not stored yet, and while the counter
is 1 some thread has iterations left, so that the last store does not start from 0.

**The queues.** The two indices count the calls that have returned (`Numbered`). As long as
every wait was ended by a signal (`Tidy`), the indices are in order and no more than a
capacity apart, and nobody goes on while the ring has no room, or nothing, for him
(`NotBlocked`): a thread is only signalled by one that is about to move its index. In
the lock-free queue nobody waits, so `unsignalled` stays empty there. Two indices
less than a capacity apart have different cells (`PlacesDiffer`), so an item is not
overwritten before it is read, and a store to a cell outside of the two indices is
out of sight of `Fifo`. The item goes in when `tail_` moves, and comes out when
`head_` does.

**second_test.** `Tallied` says that `counter` is the number of the pairs counted, and of the
threads that have yet to count. The lemma `Difference` is about `ts_sub()`: what it
borrows and carries cancels, and what is left is the difference of the two times, or 0.
`Possible` bounds what a thread has waited, with what it is about to add, by the
time that has passed: between two readings the clock is set back, but never forward.

**Sums.** The reports are sums over functions, which the modules take from the folds of the
library. What such a fold computes follows by induction over the finite sets it goes
through. The lemmas `SumIs` and `SumIsCount` take it from the well-founded order of
the natural numbers: the sum is the number of the pairs counted. They are
about these sums alone; a lemma about folds of any operation would need an operator as
a parameter, which the provers do not instantiate.

**Only model-checked.** Liveness, which the prover does not handle (`NoStarvation`,
`TerminatesUnlessBornSet`, `Terminates`, `Ends`, `VisitEnds`, `ProgramEnds`), and the
circular buffers, see section 8.

## 6. Hard cases and where they are checked

`PROJECT.json` lists the hazards at their lines, each with the properties that would
fail. Four have none: the join of a thread that was not created is not defined; the word
past the elimination array is drawn, and the totals of `testone` do lose additions
(section 4); a range that can be read only once is left out of the model of its
operation.

## 7. Not modelled

- `starttime` and `stoptime`, which `testCommon()` stores while workers read them: a worker
  that sees an old value reads again, so the stores only decide when it starts and
  stops, which `Start` and `TimeUp` leave open.
- `testtwo` with the elimination stack, with or without the collector; `total_allocs`;
  the data in the nodes; the debugging output, which reads a node after it was pushed.
- a queue of size 0, which is full and empty at once; what else in the heap writes to,
  or is harmed by writes to, the word past the elimination array.
- circular buffers of items whose copying may throw, `swap()`, comparisons, `at()`'s
  exception, and the registry of iterators of debugging builds.
- argument parsing, usage texts, `Random.h`, scripts, plots, build files.

## 8. Left to prove

The circular buffers: `Consistent`, `ImplementsList`, `KeepsIterators` and `KeepsMinimum`. All but a few of
their functions are loops over the array, folds here, with operators as parameters that
say where an item goes. What such a loop leaves in every cell is an induction over
its length that would have to be made for each loop anew, and `linearize()` has two
nested ones. TLC goes through every buffer up to the bounds, every function and every
argument instead, which says more here than a proof about `push_back()` would.
