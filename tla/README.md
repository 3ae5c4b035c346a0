# A TLA+ verification of ThreadsafeQueueLib

ThreadsafeQueueLib is a header-only C++20 library of queues for threads.  This
directory models the queues it implements and the programs that test and
benchmark them, checks the models with TLC on small instances, and proves with
TLAPS the safety properties of the four queues and of the programs for every value of
the constants.  Paths below are relative to `src/`.

## 1. Inventory

| Component | Code | State | Operations | Here |
|---|---|---|---|---|
| `lockfree_spsc_bounded<T, Capacity>` | `include/lockfree_spsc_bounded/` | atomic indexes `head`, `tail`; private copies `head_cache`, `tail_cache`; ring `arr` of `Capacity + 1` slots | `try_push`, `wait_and_push`, `try_emplace`; `try_pop`, `wait_and_pop`, `peek`; `size`, `empty` | `LockfreeSpscBounded`, `...Proofs`, `...Observer` |
| `lockfree_spsc_unbounded<T>` | `include/lockfree_spsc_unbounded/` | list of heap nodes with an atomic `next`; plain pointers `head` (consumer) and `tail` (producer) | `push`, `emplace`; `try_pop`, `wait_and_pop`, `peek`; `size`, `empty`; constructor, destructor | `LockfreeSpscUnbounded`, `...Proofs` |
| `blocking_mpmc_unbounded<T>` | `include/blocking_mpmc_unbounded/` | list of `unique_ptr` nodes with `shared_ptr` data; `head` under `head_mutex`, `tail` under `tail_mutex`; one condition variable | `push`, `emplace`; `wait_and_pop`, `try_pop` (two overloads each); `size`, `empty`; constructor, destructor | `BlockingMpmcUnbounded`, `...Proofs` |
| `StdMutexQueue<T>` | `benchmarking/benchmark_bounded.cpp`, again in `examples/benchmark_spsc.cpp` | `std::queue`, one mutex, one condition variable | `push`, `wait_and_pop` | `StdMutexQueue`, `...Proofs` |
| drivers | `benchmarking/benchmark_bounded.cpp`, `examples/` | the main thread, a producer and a consumer in loops | run the queues, assert what they answer, join | `BenchmarkBounded`, `TestSpscUnbounded`, `...Proofs` |
| `audit_items`, `Watchdog` | `tests/test_helpers.hpp` | a vector of results; a thread that samples a counter | sort and count; sample and compare | `MpmcTest`, `...Proofs` |
| test suites | `tests/` | threads, counters | scenarios | the largest in `MpmcTest`, the others read for what they promise |
| `lockfree_mpsc_unbounded`, `lockfree_mpmc_bounded`, `FAST_lockfree_spsc_unbounded` | `include/` | - | empty files | nothing to model |
| `tsfqueue.hpp`, CMake, `build/` | | - | include lists, build | not modelled |

Each queue header holds a live half and, below it, an older version that is
commented out; only the live half is modelled.

**How the parts interact.**  A queue is a passive object that threads call.  The
queues do not call each other, nothing is persisted and there are no messages:
everything hard is in what two or more threads do to the same memory.

* In the *ring*, producer and consumer meet in the two indexes and, through
  them, in the slots.  Each side works on a private copy of the other side's
  index and loads the real one only if the copy says "full" or "empty".
* In the *lock-free list*, they meet in the `next` of the last node.  The
  consumer deletes nodes the producer may still point to.
* In the *blocking list*, consumers exclude each other with `head_mutex`,
  producers with `tail_mutex`; a consumer looks at `tail` through `get_tail`,
  which takes `tail_mutex` for one read.  Producers wake consumers through the
  condition variable, which the consumers use with `head_mutex`.

**What is hard in this code**, and what makes it correct:

* publication: nobody sees an index or a link before the data it stands for;
  no data race (ring, lock-free list);
* staleness: an answer "full" or "empty" is true as of what the caller could
  know, and a loop refreshes what it spins on;
* index arithmetic modulo `Capacity + 1` on `size_t`;
* memory: no pointer to a deleted node is followed though addresses are reused,
  and nothing leaks, also when a `T` throws or `new` fails;
* the condition variable: no wakeup is lost; spurious ones do no harm;
* lock order: no deadlock;
* for every queue: it is a FIFO queue - nothing lost, duplicated, reordered.

`PROJECT.json` lists these hazards one by one with the line each is about and
the properties that watch it.

## 2. Modules

| Module | What it is |
|---|---|
| `FifoQueue` | The promise all queues share: a FIFO sequence of at most `Limit` items, and the items handed out so far. |
| `LockfreeSpscBounded` | The ring, under release/acquire visibility. Refines `FifoQueue` with `Limit <- Capacity`. |
| `LockfreeSpscBoundedProofs` | Its inductive invariant and theorems. |
| `LockfreeSpscBoundedObserver` | The ring with a third thread that asks for `size()`. |
| `LockfreeSpscUnbounded`, `MCLockfreeSpscUnbounded` | The lock-free list over a heap with address reuse; its symmetry for TLC. Refines `FifoQueue`. |
| `LockfreeSpscUnboundedProofs` | Its inductive invariant and theorems. |
| `BlockingMpmcUnbounded`, `MCBlockingMpmcUnbounded` | The two-lock list with condition variable; its symmetry for TLC. Refines `FifoQueue`. |
| `BlockingMpmcUnboundedProofs` | Its inductive invariant and theorems. |
| `StdMutexQueue` | The baseline. Refines `FifoQueue`. |
| `StdMutexQueueProofs` | Its inductive invariant and theorems. |
| `BenchmarkBounded` | `benchmark_bounded.cpp` on the ring: extends `LockfreeSpscBounded` with main and the two loops. |
| `BenchmarkBoundedProofs` | Its assertions never fail; extends the proofs about the ring. |
| `TestSpscUnbounded` | `test_spsc_unbounded.cpp` and the loops of `benchmark_spsc.cpp` on the lock-free list. |
| `TestSpscUnboundedProofs` | Its assertions never fail and it frees every node; extends the proofs about the list. |
| `MpmcTest` | The test MPMC_NoLossNoDuplication with its audit and watchdog, on the blocking list. |
| `MpmcTestProofs` | The audit passes, the alarms are true, the audit means what its comment says, and stalls have one cause; extends the proofs about the blocking list. |
| `SequenceLemmas` | Induction over data without an operator as a parameter, and what it gives of `\o` and `FlattenSeq`. |

Operators whose name has an underscore and a capital after it
(`NextIdx_NoWrap`, `PopAdvance_Swapped`, ...) are not part of the model.  Each is
the definition that follows it with one plausible bug, and `PROJECT.json`
("mutants") says which property finds it: every property of a passing run is
known to fail for at least one such bug.

### Conventions

A thread is a value of `pc`; `op` is the operation it executes.  One action is
one access to memory that another thread can see, together with the local work
up to the next one.  All the overloads of an operation, and operations whose code
is the same up to the choice of a constructor, share actions.  The code never
looks into a `T`, so items are numbers (ring and list: the n-th push carries n)
or pairs of a producer and a number; 0 stands for an empty `T`.  Variables marked
"history" are read by properties only, or date an access to memory.

### The ring and its memory model

The indexes are C++ atomics, each with a single writer.  So the modification
order of each is a sequence: `head[n]` and `tail[n]` are the values of the n-th
store, the first being the initial 0.  A thread knows its own stores.  `seenHead`
is the newest store to `head` that happens before the producer's next step, and
`seenTail` likewise for the consumer: a load by the other side returns any store
from there on, and an acquire load of a release store makes that store known.
`head_cache` and `tail_cache` are what the code keeps; `hcAt` and `tcAt` say which
store each was loaded from.  Slots are plain memory: `wrote[s]` and `readBy[s]`
date the last access of each thread to a slot by the store that publishes it, and
`NoDataRace` says that the other thread knows of this store before it touches the
slot.  The `AfterLoad_Relaxed` mutant (no acquire) breaks exactly this.

| Code (`lockfree_spsc_bounded/impl.hpp`) | Actions |
|---|---|
| `try_push` 20-37, `try_emplace` 84-103 | `PushCall`, `PushCheck` (26), `PushReload` (28-31), `PushWrite` (34), `PushPublish` (35) |
| `wait_and_push` 50-75 | the same, and `PushReload` goes back to `PushCheck` with the value kept |
| a `T` that throws in them | `PushThrow` in place of `PushWrite` |
| `try_pop` 117-132, `wait_and_pop` 137-147 | `PopCall`, `PopCheck` (121), `PopReload` (122-125), `PopRead` (128), `PopRelease` (130) |
| a `T` that throws in them or in `peek` | `PopThrow` in place of `PopRead`, `PeekRead` |
| `peek` 158-173 | `PopCall`, `PopCheck`, `PopReload`, `PeekRead` (171) |
| `size` 191-196, `empty` 178-183 | `QueryCall`, `QueryHead`, `QueryTail`, by the producer or the consumer |

`SizeOf` computes on words of `WordSize` values, as `size_t` does.

`0` in a slot is a `T` that is alive and holds nothing (default-constructed or
moved-from), `NoT` a slot in which no `T` is alive: `try_emplace` ends the life of
the old `T` by constructing over it, and if the constructor throws there is none.
An assignment that throws is assumed to leave both sides as they were.  A
`try_push` that assigns into a `NoT` slot is undefined in C++; the model takes the
outcome in which the assignment works.

### The lock-free list

`nodes` is a memory of `Addr`; `live` the addresses allocated.  `delete` leaves the
contents in place and lets `new` hand the address out again; `new` fails when no
address is free.  `next` is written once per node by a release store, so what an
acquire load can return is the old null or the link, and the link for sure once a
link at least as new is known (`seen`).  Each node carries, as history, the number
of the push that fills it.  With `MayThrow` a move or construction of a `T` may
throw at each place where the code does one.  `QueryThreads` says who calls
`size()` and `empty()`; the comments allow it to anyone, only the consumer can do
it safely (section 4).  The destructor runs when no call is in progress, as
impl.hpp 24-25 demands.

`new node()` default-constructs a `T`, so with `MayThrow` it may fail while there is memory
(`PushNoNode`).  `emplace` constructs over the stub's `T`; if that throws, no `T` is alive there
(`NoT`).  The next `push` assigns into it, and a destructor that comes first destroys it:
undefined in C++, and the model takes the outcome in which both work.

### The blocking list

`head_mutex` and `tail_mutex` hold their owner.  `cond.wait` is `WaitCheck` (evaluate
the predicate, get_tail included), `WaitBlock` (unlock and block, atomically), and
`LockHead` when woken by `PushNotify` or `WakeSpuriously`; then the predicate again.
`notify_one` picks any waiter and does nothing without one.  `try_pop`, `empty` and
`size` take the same `LockHead`.  A pop reads its node after it has given
`head_mutex` back.  All data here is guarded by the mutexes, so memory is
sequentially consistent and `NodesAreSafe` states who may touch which node.

### The drivers

`BenchmarkBounded` and `TestSpscUnbounded` run the programs' tests one at a time
(`test` is chosen initially).  A test on one thread is a table of operations and
the answers the program asserts, or `Ignored` where it asserts nothing (`Statements`); `Statement` calls the operation,
the queue's own actions carry it out, `AssertAnswer` compares.  main is then both
producer and consumer and sees all its own stores (`SeesAllStores`,
`SeesAllLinks`).  The two-threaded test is the two loops, the joins and what main
asserts after them; the benchmarks have the same shape.  The programs' sizes are
parameters: `Elements` for the length of the loops, `Capacity` where the ring's
tests 2 and 5 fill it (the other tests use a bigger ring than they need).  Both modules
assume (`ProgramAssumption`) what holds of the programs as they stand: an `int` or a
`std::string` does not throw here, test 1 of the ring finds room for its three items, and
memory does not run out under a list of `MaxItems` items.

`MpmcTest` has the threads of MPMC_NoLossNoDuplication with their shares of the
items, the counter `progress`, main with its joins, audit and destructors, and the watcher.
The pop and the `fetch_add` behind it are two steps of `ConsumerLoop`; `counted` says how many
iterations of its loop each consumer has finished.  Two histories: whether a notification has
been `missed`, and whether a consumer has `worked`, that is finished an iteration, since the
watcher last loaded the counter.

Time enters at one point, as an assumption (`LongEnough`): the watcher's sleep lasts until a
consumer has finished an iteration, or until nothing is left that could run (`Stalled`).  It does
not look at the counter that the watcher judges by, so that the counter tells work from a
stall is checked, not assumed.  That the threads get a whole iteration done within the sleep,
and main its audit and its joins, is what the choice of 5 s (`test_concurrent.cpp` 119) stands
for; it is assumed.  Without it every sample could fall before the first pop.

## 3. Runs

Each run is one question; the bounds make its interesting case happen.

| Run | Module | Bounds | Distinct states | Shows |
|---|---|---|---|---|
| `bounded` | `LockfreeSpscBounded` | Capacity 2, 5 pushes, 16-valued words, throwing T | 821,916 | All safety properties of the ring and the refinement of `FifoQueue` |
| `bounded_live` | `BenchmarkBounded` | Capacity 4, loops of 10, 21 items, 16-valued words | 3,256 | The program's assertions hold, it ends; `wait_and_push` and `wait_and_pop` return |
| `bounded_observer` | `LockfreeSpscBoundedObserver` | Capacity 2, 4 pushes | violation | finding 2 |
| `unbounded` | `LockfreeSpscUnbounded` | 4 addresses, 5 pushes, throwing T | 462,226 | All safety properties of the list, destructor included, and the refinement |
| `unbounded_live` | `TestSpscUnbounded` | 4 addresses, loops of 3 | 11,992 | The program's assertions hold and all nodes are freed; `wait_and_pop` returns |
| `unbounded_leak`, `unbounded_size_by_producer` | `LockfreeSpscUnbounded` | 3 addresses, 3 pushes | violations | findings 3, 4 |
| `blocking` | `BlockingMpmcUnbounded` | 2 producers, 2 consumers, 1 observer, 3 pushes, 4 addresses, throwing T | 716,165 | All safety properties of the two-lock list, no deadlock, no livelock, and the refinement |
| `blocking_live` | `MpmcTest` | 2 producers, 2 consumers, an item each; vectors up to length 4 | 123,330 | The audit is right, the watchdog raises no false alarm and misses no stall, and stalls have one cause |
| `blocking_lost_wakeup` | `BlockingMpmcUnbounded` | 1 producer, 1 consumer | violation | finding 1 |
| `watchdog_hang` | `MpmcTest` | 1 producer, 1 consumer, 1 item | violation | finding 5 |
| `std_mutex_queue` | `StdMutexQueue` | 2 producers with 3 pushes each, 2 consumers | 16,520 | the baseline is a FIFO queue and loses no wakeup |

Why these bounds are enough to be interesting:

* Ring: with capacity 2 there are three slots; five pushes let both indexes go
  round the ring and overlap a lap with caches from before it, so full and empty
  rings with all alignments of `head`, `tail` and both caches occur.  A word of 16
  values is far from the indexes' range but small enough for `t - h` to wrap.
  The driver's ring has capacity 4 so that its first test (3 items) fits, and a
  loop of 10 makes the indexes lap twice; its test 5 laps five times with 20 items.
* List: the heap has four addresses, one more than a full pipeline (stub, one
  item, one node being deleted, one being allocated), so the allocator both reuses
  a just-deleted address and runs out of memory.  In the driver it never does
  (three items, one stub): the programs do not expect `bad_alloc`.
* Blocking list: two consumers can both be past the predicate or asleep, two
  producers can both wait for `tail_mutex`, a fifth thread walks the list, and
  three items let one walk see the list shrink and grow.
* Test: with two consumers of one item each, one wakeup can be lost while the
  other consumer goes on, so the counter moves once and then stops.  Behaviours with and
  without a notification that is missed occur, and `missed` tells them apart.

`CHECK_DEADLOCK FALSE` stands where a destructor or the end of a program makes a
behaviour end.  What would be a deadlock there is excluded by `NoDeadlock`,
`ProgramEnds`, `NoFalseAlarm`.

### Properties

*Ring.*  `NoDataRace`: accesses to a slot are ordered by happens-before.
`NothingOverwritten`: never more than Capacity items, one being written included
(`WithinCapacity`), and the slot the next push writes to holds nothing of value, so
nothing is overwritten that a `T` owned (`NextSlotIsSpare`).
`FifoDelivery`: the n-th pop returns the n-th item.  `AnswersAreTrue`: an
operation gives up only if the ring is full (`FullIsTrue`) or empty (`EmptyIsTrue`) as of
the newest store it knows.  `PeekHolds`: after a successful peek the consumer pops that very value and
never finds the queue empty.  `QueryIsConservative`: the producer is never told
fewer items than there are, the consumer never more, neither more than Capacity.
`WaitFree`: each step of a call brings it nearer to its end, whatever the other thread
does; a `wait_` loop goes round only beside a ring it has just seen truly full (empty).

*Lock-free list.*  `NodesAreLive`: no deleted node is used.  `ListIsIntact`:
the stub pattern (`ListIsChain`), with one node per item and one stub, and none after the
destructor, but for those a throwing `T` orphans (`NodeAccounting`); `NothingLeaks` admits no orphans
(finding 3).  `FifoDelivery`, `EmptyAndPeekAreTrue`, `QueryIsSnapshot`: as above, for links.
`LockFree`: each step of `size()` brings it nearer to the end of the list, which only a push
moves, by one node; `wait_and_pop` goes round only beside a queue it knows to be empty.

*Drivers.*  `AllTestsPassed`: no assertion of the program fails, whatever the two
threads do before main asks; for the list also that every node is freed when the
queue goes out of scope.  `ProgramEnds`: both joins return.  `WaitPushReturns`,
`WaitPopReturns`: a spinning call returns once there is room (an item), with no
further call to help it.

*Blocking list.*  `NodesAreSafe`: no deleted node is used, no reader meets the node
a producer may be filling, an unlinked node has one owner.  `ListIsIntact`:
as above.  `EachItemOnce`: each item that left the queue is with
exactly one consumer, or was dropped by an exception.  `ProducerOrder`: each
consumer gets any one producer's items in order.  `QueryIsSnapshot`: `size()` is the
exact number of items at the moment of `get_tail`.  `NoDeadlock`: while a call is
running that does not wait for an item, some thread can go on (`CanGoOn`: it is inside a
call and neither at a mutex that is held nor asleep).  `OnlyLocksBlock` ties that to the
actions: whoever can go on has a step that is ENABLED.  `CallsRunOut`: a step lowers the stage of its
thread or shortens its walk, and wakes nobody to a stage as high: without new calls and
spurious wakeups all steps run out, so no two calls keep each other busy.  `NoLostWakeup`:
see finding 1.

*Test support.*  `AuditIsMultisetEquality`: over values that were produced,
`audit_items` reports nothing if and only if each is there exactly once.
`AuditPasses`: it reports nothing on what the blocking list delivered.
`NoFalseAlarm`: the watcher fires only beside a consumer that sleeps although an
item is there: of the locks there is no deadlock, and a consumer that gets round its
loop within a sleep is seen, because the counter is advanced behind the pop.  That no sample
falls into main's audit is not part of it but of `LongEnough`.  `EndsOrIsReported`: a
test that does not end is reported.  `OnlyTheGapStalls`: no wakeup is lost and nothing is
reported unless a notification has found nobody while a consumer was between its predicate
and its blocking (`missed`, the condition that `tests/blocking_mpmc/test_edge.cpp` 61-62 keeps
away by a sleep).  The two together: without such a notification the test ends.

*All queues.*  `RefinesFifo`: hidden behind caches, locks and half-done operations there is
one FIFO queue; a push takes effect when `tail` is stored, linked or moved, a pop
when the value is read (blocking list: when `head` moves).

### Fairness

`CallFairness` of the two drivers assumes that a thread inside a call keeps running
(weak fairness of its steps) and that a store becomes visible to the other thread
after finitely many loads (strong fairness of the load that returns the newest
store), which is what C++ asks of implementations ([atomics.order]).  Under it
`WaitPushReturns` and `WaitPopReturns` hold; nobody is obliged to make a call.
`ProgramEnds` adds `LoopFairness`: the loops, and main, go on.  `TestFairness` of
`MpmcTest` says that main, the watcher and each thread that can run do; it assumes
nothing of the mutexes beyond that, and there spurious wakeups may happen but are
never assumed to.

## 4. What the runs found

1. **Lost wakeup** (`blocking_lost_wakeup`).  `push` notifies without holding, or
   having held, `head_mutex`.  A consumer that has evaluated the predicate and not
   blocked yet misses the notification and sleeps beside an item.  The test that
   is to exclude this (`tests/blocking_mpmc/test_edge.cpp` 12-13, 44-66) waits 50 ms
   so that every consumer blocks first.  The property is stated so that it blames
   nobody unjustly: no call is running, a consumer sleeps, an item is there.
   `StdMutexQueue` keeps it.  The gap between predicate and block is the only cause: if no
   notification that wakes nobody falls into it, the property holds (`OnlyTheGapStalls`, run
   `blocking_live`; the theorem `OnlyTheGapLosesWakeups` for any use of the queue); `notify_one` choosing the wrong waiter,
   competing `try_pop`s, exceptions and spurious wakeups do no harm.
2. **`size()` of the ring is no snapshot for a third thread** (`bounded_observer`):
   it combines a `head` and a `tail` of different moments.
3. **Leak** (`unbounded_leak`): a throwing `T` orphans the node just allocated.
4. **`size()` of the lock-free list by anyone but the consumer** follows deleted
   nodes (`unbounded_size_by_producer`), although its comment speaks of concurrent
   pops.
5. **The watchdog does not prevent a hang** (`watchdog_hang`): `tests/test_helpers.hpp`
   48-50 says that its failure does.  It only records one (66); the test stays in the
   join of a consumer that sleeps for good after finding 1.  Finding 1 is also the only thing
   that can make it fire (`OnlyTheGapStalls`, theorem `OneCauseOfStalls`).

Seen while reading, outside the models:

* `lockfree_spsc_unbounded/defs.hpp` 49-50 says that the next value is in the node
  after the sentinel; it is in the node `head` points to.
* `try_emplace` constructs over a live `T` (`NextSlotIsSpare` says it owns nothing
  then).  After a `try_emplace` that threw, a `try_push` assigns into a slot without one.
* `audit_items` compares numbers of distinct values, not values: one that was never
  produced would make up for a missing one.
* The assertions of the drivers contain the calls they check; with NDEBUG the calls
  go too.
* `static_assert` in `lockfree_spsc_bounded/defs.hpp` 34-37 demands a power of two
  for a reason that 43-48 takes back; the `defs.hpp` files include `*_impl.hpp` files
  and `utils.hpp` declares a namespace `tsfq` that the headers use as `tsfqueue`.

## 5. Proofs

### The ring

`LockfreeSpscBoundedProofs` proves, for every `Capacity >= 1`, every number of pushes
and every word of at least `2 * (Capacity + 1)` values (a `size_t` has to hold
`t - h + buffer_size`):

| Theorem | States |
|---|---|
| `TypeCorrect` | `Spec => []TypeOK` |
| `RaceFreedom` | `Spec => []NoDataRace` |
| `FifoOrder` | `Spec => []FifoDelivery` |
| `TrueAnswers`, from `TrulyFull` and `TrulyEmpty` | `Spec => AnswersAreTrue` |
| `RingIsFifo` | `Spec => RefinesFifo` |
| `PeekStable` | `Spec => PeekHolds` |
| `ConservativeAnswers` | `Spec => QueryIsConservative` |
| `NothingIsOverwritten`, from `CapacityBound` and `SpareSlot` | `Spec => []NothingOverwritten` |
| `CallsAreWaitFree` | `Spec => WaitFree` |

None of the properties is inductive.  `Invariant` proves `Spec => []IInv`, where
`IInv` adds to `TypeOK`:

* `IndexInv`: the stores to `tail` walk round the ring one slot at a time, those to
  `head` repeat them, and two stores less than `buffer_size` apart are as many slots
  apart.  Without it nothing links the positions the code compares with the numbers
  of items they stand for.
* `DistanceInv`: each cache is the value of the store it was loaded from; the producer
  is at most `Capacity` stores ahead of the head it knows, the consumer never ahead of
  the tail it knows, and a thread past its check has room (an item).  It is what makes
  "equal modulo `buffer_size`" mean "equal".
* `ControlInv`: which labels belong to which thread, and how `got` counts the stores to `head`.
* `RaceInv`: each slot was last touched by either thread at a time the indexes date;
  with `DistanceInv` it gives `NoDataRace`.
* `DataInv`: the slots between the indexes hold the items not yet popped, in order.
* `PeekInv`: a peeked value is the item at `head`.

The argument: the lemmas `NextIdxWraps`, `SlotAfterStep` and `Remainder` give the
arithmetic modulo `buffer_size` once; `FullIff` and `EmptyIff` turn the code's
comparisons into statements about numbers of stores; `RingSlots` and `DistinctSlots`
say that different items in the ring have different slots.  Then one lemma per
action shows that it preserves `IInv`; `NextInv` puts them together.  TLC checked
`IInv` as an invariant of the `bounded` instance before it was proved.

For the refinement, `DataInv` makes the queue of the mapping the sequence
`Len(got) + 1 .. Len(tail) - 1` of push numbers (`QueueIsNumbered`): the store to tail
appends the next number (`Push`), the read of the slot takes the first (`Pop`), and every
other step leaves both ends alone (`QuietSteps`).  `ConservativeAnswers` needs one more
invariant, `QueryInv`: what the index a query has loaded dates from; `SizeIsDistance`
shows that the wrap-around arithmetic of `size()` then counts stores.

`SpareSlot` needs `SpareInv`: outside `Filled`, the slots of items not popped yet, no
slot holds a value, and one without a `T` is the next to be written.

`CallsAreWaitFree` is where the caches pay off: a `reload` that does not end the wait has
loaded the index afresh, and by `DistanceInv` an index that still compares as full (empty)
stands for exactly `Capacity` (no) items known to be there.

### The lock-free list

`LockfreeSpscUnboundedProofs` proves, for every set of addresses, every number of pushes
and a `T` that throws or not, all the safety properties of run `unbounded`.  Every
theorem assumes `QueryThreads \subseteq {"C"}`: only the consumer asks for `size()` and
`empty()`; with the producer asking they are false (finding 4).

| Theorem | States |
|---|---|
| `TypeCorrect` | `Spec => []TypeOK` |
| `NodesStayLive` | `Spec => []NodesAreLive` |
| `ListStaysIntact`, from `ChainIsIntact` and `NodesAreCounted` | `Spec => []ListIsIntact` |
| `DeliversInOrder` | `Spec => []FifoDelivery` |
| `EmptyAndPeekHold` | `Spec => EmptyAndPeekAreTrue` |
| `QueriesAreTrue` | `Spec => QueryIsSnapshot` |
| `ListIsLockFree` | `Spec => LockFree` |
| `ListIsFifo` | `Spec => RefinesFifo` |

Pointers say nothing that survives the reuse of an address; the serial a node carries
does.  The invariant `IInv` is about serials:

* `ChainInv`: no serial occurs twice, those from `head` on occur without a gap, and
  `next` leads from each to the next one, to null from the last.
* `LiveInv`: allocated are exactly the nodes from `head` on, the ones the two threads hold
  off the list, and the orphans.
* `ProducerInv`, `ConsumerInv`: which serial each local pointer stands for at each label.
  The producer's `tail` may be a deleted node between the link and its update, and at
  no other time: this is why `NodesAreLive` is true though `tail` dangles.
* `DataInv`: a linked node that has not been popped holds the item of its number.
* `PeekInv`, `WalkInv`: what a peeked value and a half-done `size()` stand for.  By `WalkInv`
  and `ChainInv` the cursor stands on a linked node and its `next` has the next serial, which is
  what makes a walk end (`ListIsLockFree`).

`NodesAreCounted` counts by a bijection between the live nodes and their serials; the
refinement maps the queue to the items numbered `Len(got) + 1 .. pushed`.

### The blocking list

`BlockingMpmcUnboundedProofs` proves the safety properties of run `blocking` for every
finite set of threads (a thread may be a producer, a
consumer and an observer at once), every set of addresses, any `MaxItems >= 1`, and a
`T` that throws or not:

| Theorem | States |
|---|---|
| `TypeCorrect` | `Spec => []TypeOK` |
| `NodesStaySafe` | `Spec => []NodesAreSafe` |
| `ListStaysIntact`, from `ChainIsIntact` and `NodesAreCounted` | `Spec => []ListIsIntact` |
| `ItemsGoOnce` | `Spec => []EachItemOnce` |
| `ProducersInOrder` | `Spec => []ProducerOrder` |
| `NeverDeadlocked` | `Spec => []NoDeadlock` |
| `StepsRunOut` | `Spec => CallsRunOut` |
| `OnlyTheGapLosesWakeups` | `PatientSpec => []NoLostWakeup` |
| `QueriesAreTrue` | `Spec => QueryIsSnapshot` |
| `ListIsFifo` | `Spec => RefinesFifo` |

Here, too, nodes are known by their serials; what is new is that any number of threads
is at work, and that the two ends are under different mutexes.  `IInv` adds to `TypeOK`:

* `MutexInv`: the labels at which a thread holds each mutex, so that at most one thread
  is at any of them; and that a consumer about to unlink has seen an item, which nobody
  can take before it does.
* `CountInv`: a producer numbers its items, and there are no more pushes than `MaxItems`,
  half-done ones included.  No item is in `entered` twice, so a position there tells it
  from all others.
* `ChainInv`, `LiveInv`, `OwnInv`: `next` counts the serials up from `head` to the dummy;
  allocated are the nodes from `head` on and the detached ones; each of these has one owner.
* `DataInv`, `GotInv`, `HolderInv`: a node holds the item of its serial until it is read,
  a consumer receives items by growing position, and a popped item is in one place.
* `WalkInv`: what `size()` has counted is the distance of its cursor from `head`.
* `KeepInv`: nobody keeps a pointer to a node that it gave up.

The argument: one lemma for each action that changes the list (`PushAlloc`,
`PushFill`, `PushAdvance`, `PopUnlink`, `PopRead`, the exceptions, the destructor); every other action
leaves list and histories alone, and the lemmas `ListFrame`, `QuietMove`, `WalkFrame`
and `CountFrame` say once for all of them what that preserves.  For the refinement,
the contents of the list are the positions `Len(taken) + 1 .. Len(entered)` of `entered`
while the queue exists: `PushAdvance` appends one, `PopUnlink` takes the first.

The lemma `SomeoneCanGoOn` orders the two mutexes: the holder of `tail_mutex` is at a label
that asks for nothing else; if nobody holds it, the holder of `head_mutex` can at worst ask for
`tail_mutex`, which is free; if both are free, everybody can go on.

`StepsRunOut` compares the stages of all threads before and after a step: only `PushNotify`
moves a second thread, from the stage `waiting` up to `lock_head`, which is still below the
notifier's own.  That a `wait_and_pop` which finds nothing goes down to `waiting`, and back up
only when somebody spends a notification on it, is what rules livelock out.  A walk stays at
its stage and gets nearer to `snap_tail`, by `WalkInv`.

Of `Spec`, `NoLostWakeup` is no theorem: it is false (finding 1).  Of `PatientSpec`, `Spec` without
the notifications that find nobody while a consumer is between its predicate and its blocking
(`WaitersBlockFirst`), it is one.  `PatientSpec` has no run of its own; `blocking_live` checks the
claim on the behaviours of the test that keep to it (`~missed`).  Its invariant,
`WakeInv`, counts as that of the baseline does: while somebody sleeps or is about to block, there
are at least as many `Busy` threads, about to notify or in `wait_and_pop` and awake, as there are
items.  A push adds an item and, before it returns, a notifier; a notification passes
the role on to the waiter it wakes; a consumer that takes an item goes with it; one
that blocks has just seen that there are no items.  Only a notification that finds nobody
while somebody is about to block breaks the count, and that is the step left out.

### The baseline

`StdMutexQueueProofs` proves `NoLostWakeup` and `RefinesFifo` for every finite
set of producers and consumers and number of pushes, and that `front()` and `pop()` are never
called on an empty `std::queue` (`FrontIsThere`), which would be undefined.  The invariant behind
`NoLostWakeup`, `WakeInv`, counts: if somebody sleeps, there are at least as many threads
bound to look at the queue again, or to notify somebody who will, as there are items.
`blocking_mpmc_unbounded` has such an invariant only without the notifications between a check
and the blocking behind it, which no push excludes.

### Induction over data

No prover here takes a theorem whose parameter is an operator, so the library's induction
theorems cannot be used.  The lemmas of `SequenceLemmas`, which say nothing of the code but are
what `TestPasses` and the ring's `AllTestsPass` rest on, state induction with a set in its place: a set
of numbers that holds 0 and with each number the next one holds them all (`Induction`).  The
proof needs that every non-empty set of numbers has a least element (`LeastNumber`), and gets
it from a fact without operator parameters: on finite sets, proper inclusion is well-founded; the
interval from 0 to n shrinks as n does.  `JoinsExist` and `FlattenedIsLaid` apply it to the
recursive function inside `FlattenSeq`.

### The stress test

`MpmcTestProofs` proves, for every finite set of producers and consumers, all shares that
add up (`SharesAssumption`, `test_concurrent.cpp` 110-114), every set of more addresses than there are
items, and a `T` that does not throw:

| Theorem | States |
|---|---|
| `TestInvariant` | `TestSpec => []TInv` |
| `TestPasses` | `TestSpec => []AuditPasses` |
| `AlarmsAreTrue` | `TestSpec => NoFalseAlarm` |
| `AuditIsExact` | `TestSpec => []AuditIsMultisetEquality` |
| `OneCauseOfStalls` | `TestSpec => []OnlyTheGapStalls` |

`TInv` adds to the blocking list's `IInv` the roles (`RoleInv`: producers only push,
consumers only call `wait_and_pop`, nobody asks for the size), the shares (`ShareInv`:
nobody pushes or pops more than its share, and a consumer has counted what it received
before it calls again) and
how far main has come (`PhaseInv`).  `TestPasses` is a matter of counting: when main has joined, the
consumers have received as many items as there are; they are produced ones and no two are the
same, so they are all of them.  The proof counts by injections between the items produced and the
places where they arrived.  `AuditIsExact` needs what `std::sort` does: `Rank` is a bijection
that orders, so a value that occurs twice has a neighbour equal to it (`AuditCountsEach`, for
vectors of any length).  `AlarmsAreTrue` rests on `NeverDeadlocked`, on `LongEnough`,
which is an assumption about time and not a fact about the code, and on `WorkInv`: since the watcher
last loaded the counter, it has grown if a consumer has finished an iteration, so a
sample that shows no progress is one of a stall.  `OneCauseOfStalls` joins it
with `WakeInv`, which holds until a notification is missed (`GapHolds`): what would make the
watcher fire is a consumer asleep beside an item with nobody busy (`Stall`), and while `WakeInv`
holds there is none; `WatchInv` follows the two samples up to the comparison, with `stop` read
in between.

### The drivers

`BenchmarkBoundedProofs` and `TestSpscUnboundedProofs` prove `AllTestsPass`, that is
`MainSpec => []AllTestsPassed`, for every `Capacity >= 3` and every number of `Elements` (ring),
and for every number of `Elements` and every heap with room for `MaxItems` and the stub (list).
The programs are their queues' actions and main's, so the queue's `IInv` holds in
them; what is added, `MainInv`, follows each test by two numbers, how many pushes and how
many pops have succeeded:

* `At` says what they are before each line of each test, `Expected` what a call must answer then.
* `ScriptsAreRight`: each line asserts just that, and leads to what `At` says of the next one.
  Test 5 of the ring is five rounds flattened into one script, hence `FlattenedIsLaid`.
* `CallInv` and the lemmas `PushRuns`, `PopRuns`, `QueryRuns`: the call in progress goes
  from the numbers before it to those after it, and ends with the answer expected.  Here it counts that
  main sees its own stores; with a stale load `try_pop` might answer false.
* `LoopsAreOver`: behind the joins the loops cannot begin another call.
* `MemoryLasts` (list): a push finds memory, by main or by the producer thread, since the nodes
  allocated have serials without a gap, the one that a pop is about to delete included
  (`NoBadAlloc`: no exception that the programs do not expect).

That the queue is freed follows from `leaked = {}` and the list's `LiveInv`.

### Only model-checked

* `OnlyLocksBlock`, which speaks of ENABLED, out of TLAPS's reach.  So the step from
  "some thread can go on" (proved) to "some thread has a step" is checked by TLC only.
* All liveness: `ProgramEnds`, `WaitPushReturns`, `WaitPopReturns`, `EndsOrIsReported`.  What they rest on besides fairness is proved: calls get on with every step
  (`WaitFree`, `LockFree`, `CallsRunOut`), somebody always can (`NoDeadlock`), and no
  wakeup is missing where none is lost (`NoLostWakeup` of `PatientSpec`).
* The findings: their runs show behaviours.

## 6. Not modelled

* A `T` whose throwing assignment leaves its operands half changed.
* Compilation to weaker orders than the code asks for, cache lines, yield and spin
  counts, time.
* Stack depth of the recursive destructor of the blocking list.
* More than one producer or consumer in the lock-free queues: `defs.hpp` excludes it.
* Numbers that time gives: throughput in the benchmarks, the 5 s of the watchdog.  That no sleep of
  the watchdog ends while main audits or joins is assumed (`LongEnough`).
* In the baseline, `bad_alloc` of `q.push` and moves that throw: the programs use it with `int`
  only, and no program catches `bad_alloc`.
* The other test suites, beyond what they promise: their scenarios are paths of
  the queue modules.
* The empty queue headers and the build.

## 7. Plan

Done, in order of importance:

1. `LockfreeSpscBounded` with its memory model, exceptions, runs, refinement.
2. Its inductive invariant, safety theorems and refinement proof.
3. `LockfreeSpscUnbounded`: heap, reuse, exceptions, destructor.
4. `BlockingMpmcUnbounded` and, for contrast, `StdMutexQueue`.
5. Proofs about the lock-free list, the blocking list and the baseline.
6. The programs: `BenchmarkBounded`, `TestSpscUnbounded`, `MpmcTest`.
7. Freedom from deadlock of the blocking list, the audit, the watchdog's alarms and the
   assertions of both drivers, for all sizes.
8. Progress of calls in all three queues of the library, and that the lost wakeup has one
   cause only, for all sizes.

Every safety property that a passing run checks is a theorem now, but for `OnlyLocksBlock`
(ENABLED).  A candidate for more is a model of a `T` whose failed assignment leaves its operands
half changed.
