# openkal-llvm-runtime in TLA+

This directory models the parts of openkal-llvm-runtime that keep state between
calls and that several threads, or several phases of one thread's life, touch.
The modules are translated from `src/`, TLC checks them on small instances, and
TLAPS proves the central results for every value of the constants.
`PROJECT.json` maps each definition to the lines it stands for.

## The system

The repository packages LLVM's C++ runtime (libc++, libc++abi, libunwind, the
builtins of compiler-rt), configured for openkal-musl: `mcpp.toml` selects the
sources, `llvm-generated/` holds the configuration, `port/` replaces a few
headers, and some vendored sources carry branches for openkal (`kal_task_wait`,
`kal_task_wake`, the rounds of `emutls.c`). Most of the volume is upstream
template code without state of its own. What has state is the following.

| component | state | operations | what is hard | what makes it correct |
|---|---|---|---|---|
| static-local guards (`cxa_guard_impl.h`) | guard byte, init byte, thread id; one mutex and condition variable, or a futex | acquire, release, abort | two bytes written apart, waiters after an exception, recursion | one initialiser at a time, constructed once before use, nobody left asleep |
| emergency heap (`fallback_malloc.cpp`) | a static array, a free list of offsets | malloc, free, and the choice between it and `::malloc` | split, padding and merge in any order | blocks aligned, large enough, disjoint; freed where they came from |
| emulated TLS (`emutls.c`) | one index per variable, one array per thread | `__emutls_get_address`, the key destructor | index read without the lock, array growth | distinct indices, one address per variable and thread |
| thread-exit destructors (`cxa_thread_atexit.cpp`, `thread.cpp`) | a list in a pthread key | register, `run_dtors`, `~DtorsManager` | destructors that register more, the order of keys and rounds | each once, in reverse order, never on freed memory |
| atomic wait and notify (`atomic.cpp`, `atomic_sync.h`) | contention tables: waiter counts and platform states | wait, notify_one, notify_all | lost wakeups, shared entries, store buffers | nobody sleeps beside a changed value |
| semaphore and timed waits (`semaphore`, `atomic_sync_timed.h`) | a counter on top of the above | acquire, try_acquire, try_acquire_for, release | silent releases, the clock at the limit | permits conserved, no sleeper beside a permit, timed waits end |
| exception objects (`cxa_exception.cpp`) | reference counts, per-thread handler stack | throw, catch, rethrow, exception_ptr | nesting, rethrow, foreign exceptions | freed once, when nobody refers to it |
| unwinder (`UnwindLevel1.c`, `cxa_personality.cpp`) | cursor, the phase | search, cleanup, resume, forced unwind | two phases must agree | the handler found is the one entered |
| FDE cache (`UnwindCursor.hpp`, `RWMutex.hpp`, `libunwind.cpp`) | a table under a reader-writer lock | find, add, remove | growth and removal while others look up | what is registered is found, what is not is gone |
| `shared_mutex`, `shared_timed_mutex` | one word, two condition variables | lock, shared lock, try and timed forms | two gates, who must be woken, giving up | exclusion, nobody asleep at an open gate |
| `call_once` | a word per flag, one condition variable | call, with exceptions | the exception path | as the guards |
| `barrier` | a tree of tickets, the phase, the expected count | arrive, wait, arrive_and_drop | compare-exchanges without a lock, reuse of tickets | each phase completed once, by the last |
| `shared_ptr`, `weak_ptr` | two counts | copy, release, lock | lock against the last release, the load that spares a decrement | object and block end once, after their last pointer |
| futures | a word, an exception pointer, a count | set, set at thread exit, wait, get, deferred and asynchronous execution | who stores the result, who deletes the state | one result, waiters return, the state outlives its users |
| filesystem paths (`path_parser.h`, `path.cpp`, `port/include/__filesystem`) | none | parse, normalise, append | root names, empty components | agreement with the standard's definition |

How they meet: a guard's initialiser may use thread_locals and may throw; an
exception's memory comes from `::malloc` or the emergency heap; every
thread_local on the PE and ok-image targets is an emutls block, its destructor
an entry of the thread-exit list, and both are run by musl's key rounds; the
semaphore sleeps through the contention table of atomic wait, and that through
openkal's `kal_task_wait`. Throwing goes from `cxa_exception.cpp` through the
two phases of `UnwindLevel1.c`, which call the personality routine for every
frame and consult the FDE cache; catching comes back into `cxa_exception.cpp`. A
future holds its exception as an `exception_ptr`, its state is counted like a
`shared_ptr`, and a value set at thread exit is published by the key destructor
of `thread.cpp`.

## Modules

| module | role |
|---|---|
| `OnceInit` | abstract: what guards promise, one initialiser at a time, then complete for ever |
| `CxaGuard`, `MCCxaGuard` | `GuardObject<InitByteGlobalMutex>`, the implementation this build selects |
| `CxaGuardFutex`, `MCCxaGuardFutex` | `GuardObject<InitByteFutex>` of the same header |
| `FallbackMalloc` | the emergency heap and its callers' choice of allocator |
| `EmuTls` | `__emutls_get_address` in several threads |
| `ThreadExit`, `ThreadExitProofs`, `MCThreadExit` | the end of one thread: emutls, destructor list, `__thread_struct` and a key of the program's own under musl's rounds |
| `Contention` | contention table entries and openkal's wait and wake, shared by the next two |
| `AtomicWait`, `MCAtomicWait` | `atomic::wait`, `notify_one`, `notify_all` |
| `Semaphore` | `counting_semaphore` over `Contention`, with a clock |
| `Unwind` | the two phases and the personality routine, as functions on a stack of frames |
| `CxaException`, `MCCxaException` | exception objects, the stack of caught exceptions and `exception_ptr`, over `Unwind` |
| `SharedMutex`, `CallOnce`, `Barrier` | locks and one-time calls; `CallOnce` refines `OnceInit` as the guards do |
| `SharedCount`, `FutureState` | `shared_ptr`'s control block; the state behind a future |
| `FdeCache` | libunwind's cache of frame descriptions |
| `Sync`, `MCSync` | the six modules of the last three rows side by side: a behaviour is one of the object that `object` names |
| `CxaGuardProofs`, `CxaGuardFutexProofs`, `AtomicWaitProofs`, `SemaphoreProofs`, `CxaExceptionProofs`, `SyncProofs` | the theorems about the module each is named after |
| `StorageProofs` | the theorems about `EmuTls` and about `FallbackMalloc`, which share no name and no state (hence `TlsSpec` and its like in `EmuTls`) |

### Correspondence with the code

**CxaGuard.** A byte is the set of its bits. The init byte and the thread id are
touched only with `global_mutex` held, so each critical section is one action
(`WaitPending`, `AcquireDone`, `AcquirePending`, `InitByteRelease`,
`InitByteAbort`), and `cond.wait` joins sleeping with the unlock. The guard byte
is read and written without the mutex, in actions of its own
(`GuardByteDone`/`Unset`, `GuardByteRelease`); `Broadcast` is the call after the
unlock. `stack[t]` is what the compiler's code does around the calls: which
initialisers a thread is inside of. `ThreadId` is the truncation to 32 bits of
`port/include/__thread/support.h`. The inputs are the statics used
(`Uses` says which an initialiser may use), exceptions, and spurious wakeups.

**CxaGuardFutex.** One action per atomic access of `InitByteFutex`, including the
separate loads and stores of the thread id, and the futex word that contains
both bytes. The build does not select it (`_LIBCXXABI_USE_FUTEX` is not defined);
it is modelled because it must keep the same promise, `OnceInit`.

**FallbackMalloc.** Offsets are in units of `heap_node`. A call holds
`heap_mutex` until it returns; the loop over the free list is stepped node by
node, so that the position of the cursor can be talked about. `blocks` and
`system` record what the program owns and are not state of the code.

**EmuTls.** The index is loaded without the lock (`LoadIndex`), assigned under it
(`AssignIndex`), and the array, which belongs to one thread, grows in one step.
Memory from `realloc` behind the old slots is `Garbage` until it is cleared.

**ThreadExit.** `round` and `key` are musl's loop over the keys (external, as
`emutls.c` and `cxa_thread_atexit.cpp` rely on it), with `tsd_used` its flag that
asks for another round. `<<v, n>>` is the block of `v` in the thread's `n`-th
array: its address. Objects are registered by `Use`, the compiler's wrapper
around `__emutls_get_address` and `__cxa_thread_atexit`; `ok` is whether malloc
gave the list a node.

**AtomicWait, Contention, Semaphore.** An entry has `waiter_count` and
`platform_state`. Native atomics sleep on their own address, all others on the
entry's platform state; `MCAtomicWait` has two of each. A release store goes to
the thread's store buffer and drains later (x86 order: one pending store, read
through by its own thread). `kal_task_wait` compares and sleeps in one step.
The semaphore's counter is a `ptrdiff_t`, which is not one of the platform's
wait sizes, so it uses the table; a timed acquire gets readings of the clock.

**Unwind, CxaException.** `frames[t]` is a thread's call stack, as the compiler
laid it out: each frame is stopped at a call site with an action list, in a
landing pad, in a catch clause, or leaving one. `scan_eh_tab` is the scan of the
action list; the encoding of the tables is left out. `unwind_phase1` and
`unwind_phase2` are the loops of `UnwindLevel1.c`, with `private_2` the frame
that phase 1 remembers in the exception. The functions of `cxa_exception.cpp` are operators on
what one thread can reach (`View`), so that they compose as their calls do, and
an action is one library call of the program. Threads share reference counts
only, each changed by one atomic addition. Fields that nothing reads before they
are written again are kept at a fixed value, which is noted at `Header`. The
program may call, return, throw, catch, execute `throw;` and use an
`exception_ptr` anywhere, also in destructors that a landing pad runs, and
foreign code may throw exceptions of its own. `NestedRethrow` says whether a
destructor may execute `throw;` while the exception that it would rethrow is
already in flight again; see the findings.

**SharedMutex, CallOnce, FutureState.** What happens between taking and giving
up the mutex is one action, `wait` on a condition variable gives it up in the
same action, and a notification after the unlock is an action of its own. A
condition variable wakes all or one, or for no reason. A timed wait that ends
tries its gate once more, in the same action, since the wait returns with the
mutex held. `Execute` of `FutureState` is the function of a deferred and of an
asynchronous state; they differ in who calls it and in `ZeroWaits`. `ThreadExit` of `FutureState` is the key destructor
of `thread.cpp`; an asynchronous function's thread has no reference to the
state, as in the code.

**Barrier, SharedCount.** One action per atomic access, except that `Arrive`
joins the adjustment that `arrive_and_drop` makes with the reads of the phase and of
the expected count: the phase cannot end, and so none of these be changed or used
by its completion, before this arrival has come. `Share[t]` arrivals of a
thread in a phase stand for `arrive(n)`; the hash that chooses the first node is
any node. `__barrier_phase_t` has 4 numbers instead of 256 so that it wraps.

**FdeCache.** A frame description stands for its address range. Readers hold the
lock shared over several actions, one for each entry they look at, and remember
which buffer they are in; a writer's section is one action. The image is one
whose lookups the code caches: it has no index of its frames and gives no hint,
which is the case of the PE build, and the full scan after a miss finds the frame.
A frame of a registered section belongs to no image, so it is looked up in all
groups at once. `Fdes[s]` is what registration reads of a section, up to its end
or to the first malformed record; `__unw_add_dynamic_fde` registers a section of
one. `Deregister` has a condition that the code does not check and its callers
must see to: no thread is just looking up a frame of the section.

## Runs

| run | instance | result |
|---|---|---|
| `guard_mutex` | 3 threads, 2 statics, nested and self-recursive use, 1 exception; 105 339 states | mutual exclusion, one construction before use, real recursion only, implements `OnceInit`, every acquire returns |
| `guard_futex` | 3 threads, 1 static, 2 exceptions; 23 991 states | implements `OnceInit`, no false recursion, no lost wakeup |
| `fallback_heap` | 24 nodes, alignment of 4 nodes, requests of one and of two alignment units, 1 system block; 78 808 states | sound blocks, freed where allocated, NULL only when nothing fits |
| `fallback_walk` | the same | **violation**: the list is cut |
| `emutls_access` | 2 threads, 3 variables, the third in a second chunk; 21 900 states | distinct indices, readable slots, stable addresses |
| `exit_deep` | 3 variables, destructors 3 deep, own key, malloc failing at will, thread end or `exit()` | no use after free, each once in reverse, all destroyed, blocks freed |
| `atomic_wait` | 2 waiters, 1 writer, 4 atomics, 2 stores; 440 429 states | no lost wakeup where the code promises none, every wait returns |
| `semaphore` | 3 threads, at most 2 permits released; 77 292 states | permits conserved, no lost permit, timed acquires return |
| `semaphore_zero` | the clock may show exactly the limit | **violation**: a timed acquire asleep without a timeout |
| `exceptions` | 2 threads, 6 frames together, 3 exceptions, 1 `exception_ptr`, foreign exceptions in both; 1 450 935 states | current exception, handler counts, `uncaught_exceptions` and reference counts agree with the program's stack; phase 2 enters what phase 1 found |
| `exceptions_nested` | 1 thread, 5 frames, a destructor may rethrow what is in flight | **violation**: the exception is destroyed in flight |
| `sync` | 3 threads (2 waiters and 2 providers for the future, 2 threads for the cache), one object of six; 60 959 states | exclusion, no stranded sleeper, orderly phases, lifetimes that end once, one result, lookups that find, and everybody returns |

Each module's `TypeOK` is part of the invariant its run checks (`GuardInv`,
`FutexInv`, `HeapInv`, `EmuTlsInv`, `ExitInv`, `WaitInv`, `SemaphoreInv`,
`HandlerStackInv`, `ObjectsAreSound`), together with the named part that it
supports. These invariants are inductive for the guards, emulated TLS, atomic
wait and, with `NoLostPermit`, the semaphore; of the objects of `sync` that have
theorems, `ObjectsAreSound` is, with `OneResult`. So TLC checks on the instance what the
proofs start from. The properties of `sync` are those of the six modules, conjoined where
they say the same of several objects; where a property has several parts it has
a mutant for each part that a plausible mistake can break.

**Why the bounds suffice.** Three threads are the fewest with an initialiser, a
waiter and a newcomer that sees PENDING and WAITING together; one exception is
the fewest that hands a guard on while others sleep, two hand it back. Twenty-four
nodes hold five blocks, so that a chunk can be freed in front of a free chunk
that is not the head of the list, which needs four. With a header of two words
and a chunk of four the third variable crosses the first boundary. musl has four
rounds, and depth three is the last that fits. Two atomics
on one entry and two stores let a wake go to the wrong sleeper and let a value
change back. Two permits are the fewest with a silent release. Six frames let one
thread rethrow inside a catch clause inside a destructor, and three exceptions
let one be thrown while one is handled and one is pointed to; two threads suffice
because threads share nothing but counts. Two readers at most make the limit of
`shared_mutex` reachable by three threads; with four arrivals by three threads
the barrier's tree has two rounds, and every drop makes a round odd. An initial
buffer of two entries makes the cache grow with the first section. `MaxThrows`,
`MaxStores` and `MaxReleased` bound counters that the code does not have; the
proofs hold for every value of them.

**Deadlock** is checked where the program never stops. The guards stop at
`abort_message`, a thread stops at its end, and a program whose last store is
made may sleep, and a barrier that all have left or a future that all have
dropped is done; those configurations say `CHECK_DEADLOCK FALSE`, and the
liveness properties say when sleeping is wrong.

**Fairness.** Weak fairness of each thread's steps inside the library: the
scheduler runs every thread and the mutex is not withheld for ever. Initialisers
end (`InitialiserEnds`); one that loops for ever blocks its waiters by design.
Store buffers drain and timed sleeps end, which hardware and openkal provide. A
poll loop does not read the same early instant for ever (`ClockMovesOn`, strong
fairness: the clock is steady, so some reading is the next one). Nothing is
assumed of new calls, of exceptions, of spurious wakeups, or of notifiers.
In `sync` every thread that is in a call runs on, a holder of the `shared_mutex`
unlocks, participants keep arriving at the barrier, functions end, and promises
go out of scope; `EnteredWriterOwns` holds under it however many readers come.
`WaitReturns` uses the two-second default timeout of `__platform_wait_on_address`,
and fails without it: with a release store or `notify_one` on a native atomic a
wakeup can be missed, and the timeout is what ends the wait.

## Findings

1. `fallback_walk`: when a freed chunk is merged in front of a free chunk that is
   not the first, its `next_node` stays 0. The list is cut, and the next walk
   reaches offset 0, where the assertion in `fallback_malloc`'s loop fails.
2. `semaphore_zero`: a clock reading equal to the limit is no timeout yet, the
   remaining time is then 0, and 0 is "no timeout" to openkal.
3. `exceptions_nested`: `__cxa_rethrow` marks a rethrow by flipping the sign of
   `handlerCount`. A destructor that runs because of the rethrow is still inside
   the outer catch clause; if it executes `throw;` and catches the exception
   itself, the sign is flipped twice, and the end of the outer clause destroys
   the exception although it is in flight. All other runs exclude this program
   (`NestedRethrow = FALSE`).

Known limits that no run demonstrates:

* `ThreadId` keeps 32 bits of an address (macOS branch of
  `port/include/__thread/support.h`). Two threads whose descriptors lie a multiple
  of 4 GiB apart get the same id, and a wait is then taken for recursion; the
  theorem `GuardNoFalseRecursion` assumes that ids are distinct.
* `emutls.c` says that a thread's variables outlive its destructors. That holds up
  to depth three (`exit_deep`, and the hypothesis `DestructorsFit` of the theorem);
  a fourth level of destructors, each constructing the next variable, runs in
  musl's last round just after the blocks are freed.
* An array that is created in the middle of the rounds, because the first
  thread_local is used by a key destructor, counts down more rounds than are left
  and is not freed; `BlocksFreed` is about arrays that existed when the thread
  ended.
* When the reader limit of `shared_mutex` is reached, `unlock_shared` wakes one of
  those that wait for it. If two readers wait and two leave one after the other,
  only the first leaves the count at the limit minus one and notifies. It takes
  2^31 - 1 readers; the instance has too few threads for a second waiter, and the
  theorem `SleepersAreNotStranded` has the number of threads as its hypothesis.
* `DwarfFDECache::add` does not check `malloc` when the buffer grows.

## Proofs

Everything below holds for every value of the constants that the named
assumptions admit; no bound on threads, guards, variables, atomics, permits,
pointers or exceptions is used.

| module | theorem | says |
|---|---|---|
| `CxaGuardProofs` | `GuardInvariant`, `GuardMutualExclusion`, `GuardConstructedOnce`, `GuardNoSelfWait` | `GuardInv` always, and what follows from it |
| | `GuardNoFalseRecursion` | recursion is real, if `ThreadId` is injective |
| | `GuardImplementsOnceInit` | refinement of `OnceInit` |
| `CxaGuardFutexProofs` | `FutexInvariant`, `FutexRecursionIsReal`, `FutexImplementsOnceInit` | the same for the futex, access by access |
| `StorageProofs` | `EmuTlsInvariant` | indices distinct, slots in the array and cleared, one block each |
| | `AddressStability` | an action property: no step changes an address that was given out |
| | `HeapStaysOrderly` | `HeapInv`: blocks of the emergency heap are aligned, large enough and apart |
| | `BlocksReturnHome`, `NullMeansNoRoom` | action properties: an address tells its allocator; NULL means no room |
| `ThreadExitProofs` | `DestructionInReverse` | each destructor once, those of the body in reverse order, however deep |
| | `ExitInvariant` | under `DestructorsFit`: no use after free, all destroyed, blocks freed |
| | `EveryDestructorRuns`, `EveryBlockIsFreed` | the last two on their own: `AllDestroyed`, `BlocksFreed` |
| `AtomicWaitProofs` | `WaitInvariant`, `WakeupsAreNotLost` | counts exact; nobody sleeps beside a changed value unannounced |
| `SemaphoreProofs` | `SemaphoreInvariant`, `PermitsAreAnnounced` | permits conserved; nobody sleeps beside a permit unannounced |
| `CxaExceptionProofs` | `HeadIsInnermostClause` | the stack of caught exceptions follows the catch clauses |
| | `HandlersAreCounted`, `FlightsAreCounted` | `handlerCount` and `uncaught_exceptions` agree with the program's stack |
| | `FreedWithLastReference`, `FlightKeepsExceptionAlive` | an exception lives exactly as long as something refers to it |
| | `FoundHandlerIsEntered` | phase 2 finds what phase 1 found |
| `SyncProofs` | `SyncInvariant` | `ObjectsAreSound`: exclusion, flags, pointer counts, references |
| | `FutureHasOneResult`, `FutureStateOutlivesUse` | one result; the state is deleted after all use |
| | `SharedObjectEndsOnce` | object and control block end once |
| | `SleepersAreNotStranded` | gates and flags, for at most `n_readers + 1` threads |
| | `CallOnceImplementsOnceInit` | refinement of `OnceInit` |
| | `PhasesEndInOrder` | the barrier: the last arrival, and no other, completes a phase |
| | `RegisteredFramesAreFound`, `CacheHoldsWhatIsRegistered` | the FDE cache: what is registered is found, what is not is gone |

**Assumptions.** `CxaGuardAssumption`: the types of the constants, and that
`NoThread` and `NoGuard` are neither. `CxaGuardFutexAssumption` also says that
ids are distinct and not 0, as the kernel's are. `EmuTlsAssumption`: an array has
room for at least one slot. `FallbackAssumption`: no request is for zero bytes (the
callers never make one), the alignment is more than one node (`alignof` of the most
aligned type against the four bytes of `heap_node`), the heap is larger than it, and
`::malloc` returns nothing inside or at the end of `heap`. `ThreadExitAssumption`: every key is created once, and
that of emutls before that of the destructors. `ContentionAssumption`: finitely many threads, since
waiters are counted. `AtomicWaitAssumption` and `SemaphoreAssumption`: types,
that the two tables are two, and that the clock gets past the limit.
`ExceptionAssumption`: finitely many exceptions and `exception_ptr` objects, since
both are counted; that None, the special call sites, the special actions and the
names of the process states are not taken for an exception, a table or a type; and
at least one type to throw.
`SyncAssumption`: finitely many threads, somebody who has a future, providers
that are not waiters, a promise that one of them has; shares of at least one in the
barrier, whose sum (a cardinality, so that it needs no recursion) is the count that
the constructor is given, and more than two numbers for a phase; sections that are neither the
image nor None, each with a sequence of frame descriptions, and a buffer that has
room for an entry.

**The guards.** Mutual exclusion is about call stacks, but what keeps a thread
out is the init byte. So `GuardInv` says that a guard is pending exactly
while someone is inside (`PendingMeansInside`). Between the two halves of
release the guard byte is already complete and the init byte still pending;
`GuardByteRunsAhead` says that this happens only for the innermost initialiser
of a thread at that point, so that release and abort act on the right guard and
an abort never meets a published guard byte. `GuardByteRecordsConstruction` ties
the byte to the number of constructions and to the answers given, and `IdsMatch`
the recorded id to the thread inside. `CallsAreSound` gives the program counter
its meaning. With the futex there is no mutex to lump accesses together:
`ClaimsAreExclusive` says that a guard has one claimant from the compare-exchange
that sets PENDING to the exchange that ends it, `PendingMeansOwned` ties the init
byte to that claimant, and `IdsMatch` says which id may be stored while the claim
is written and withdrawn, so that an acquire that reads byte and id at different
times finds its own id only in a recursion. For the refinement the invariant
makes the abstract status, the thread that is inside or claims, well defined; the
lemmas `GuardSimulates` and `FutexSimulates` map each action to `Begin`, `Finish`,
`Fail`, `Observe` or a stutter.

**Emulated TLS.** That the slot read is in the array rests on `IndexIsFinal`: an
index, once loaded, is the variable's for good, and not above the number handed
out. `SlotsAreFiled` says that a slot which no variable has yet been given, or
whose variable the thread has not used, was cleared, through every reallocation;
`OneBlockEach` that a thread allocates once for a variable. From them every step
returns the block that earlier accesses returned.

**The emergency heap.** What is free is not what the free list leads to: the list can be
cut (see the findings), and then it ends at offset 0. So `HeapIInv` says that there is
a set `F` of free chunks, which may hold lost ones, such that `F`, the blocks and
the chunk being freed are aligned and apart (`Laid`), and that `next_node` leads from
`F` to `F`, to the end or to 0, and to each chunk from one place only (`Linked`): when a
chunk leaves `F`, taken or merged, nothing leads to it any more. Offset 0 is no chunk,
because of the alignment, and keeps its length 0, so a walk that strays there neither
takes nor merges anything; such a walk does not end, and that is the finding, but no
block is harmed. The chunks of the list are among `F` and 0 (`ListWithin`: a set that
holds the head and is closed under `next_node` holds what `Visited` collects), which gives
`HeapInv`. A block has at least two nodes, so none begins at the last one, where
`is_fallback_ptr` would not recognise its address. For `NullOnlyWhenFull` the invariant has a second
set, the chunks that malloc has passed (`Passed`). That the padding aligns the tail of a chunk
is arithmetic with a parameter as the divisor, from `ModIs` up to `ModSum`.

**Thread exit.** `ListsAgree` says that an object is in one place: in the key's
list, in the walk, running, or destroyed; a new one is distinct from all others
because its block had no owner in this array. `OrderKept` carries the order of the
thread's own objects from the list into the walk and into the history; that a
destructor which registers more cannot come between rests on the list being taken
from its key before the walk. `DestructorsFit` says that destructors construct
variables at most three deep (two, for the destructor of the program's key). Then
`RoundsLowerDepth` says that what is in the list in one round constructs, in the
next, only variables that are less deep, and nothing is left for the fourth.
`RoundsAgree` says that a list or an array left behind sets musl's flag, and that the
array's countdown is not ahead of the rounds, so that blocks are freed in the
fourth round only; the two together give `NoUseAfterFree`. For an array that
existed when the thread ended the countdown is exact (`ArrayCountsDown`), so
that the fourth round does free it. The depth is sufficient, and for a chain of
constructions necessary (see the known limits).

**Atomic wait and semaphore.** The question is what a sleeper may rely on between
its last look at the value and its sleep. `CountIsExact` says that it is counted
from before the platform's comparison until after its sleep, so that a notifier
which reads zero misses nobody. `MonitorIsFresh` says that if the value has
changed since the look, a writer has yet to change the platform state, or has
done so and the comparison will turn the thread away. `BuffersAreAhead` says that a
store to an atomic of the table has left the store buffer by then, and
`ChangesAreAnnounced` that the announcement goes to the word slept on. For the
semaphore the notifier is a release that found the counter at zero; a silent
release is harmless because `NoLostPermit`, which is part of the induction there,
held before it. Permits are conserved through every failed compare-exchange.

**Exceptions.** All six theorems assume `~NestedRethrow`; the run
`exceptions_nested` shows why, and the last theorem that nothing else goes wrong.
They follow from one inductive invariant, `IInv`. Per thread it says (`StackOK`): the
head of the stack of caught exceptions is that of the innermost clause; of nested
clauses of one exception only the lowest has its `nextException` on the stack, and
that is the head before it (`ChainAt`), so that `__cxa_end_catch`, which unlinks the
header only when the count reaches zero, restores the right head; an exception is in
flight in one frame only, above every clause that handles it, and then the innermost
clause below is one of those (`FlightAt`); this is what makes the sign of
`handlerCount` a sound mark of a rethrow. A foreign exception is alone on the stack,
because a catch beside another one ends in `std::terminate`. `AwaitsOK` says what phase 1
left behind: the frame in `private_2` is below, its table still catches the exception
and all tables between continue (`Marked`), which is preserved because frames below the
top do not change while a landing pad above them runs. Over all threads it says
(`ThreadsOK`) that no two of them hold the same exception, and `RefsOK` that a
reference count is the number of references. Library calls are functions on what one
thread can reach, so the proof has two layers. The `Local...` lemmas show that a call
keeps `Local`, the invariant as one thread sees it with the exceptions of all others
as a parameter; `Focus` and `Lift` go from all threads to one and back, and a lemma per
action combines them. Throwing, rethrowing and resuming are reduced to one case, an
exception in flight on top of the stack (`Airborne`): raising it is as if a frame
without clauses had been pushed that flies it. What the loops of the unwinder return
is stated for the first frame from the top that answers, so no induction over the
stack is needed.

**The objects of `sync`.** `ObjectsAreSound` equates words and counts with sets of
threads: `write_entered` with the one writer behind gate 1 and `readers` with the
holders; a pending flag with the thread that runs the function; both owner counts
with the threads that have a pointer, or have let one go and not yet taken it off
(`CountsAreExact`); the owners of a future's state with the futures, the providers
that will publish at their exit, and the promise (`OwnersAreExact`). The proofs
count with `FiniteSetTheorems`, one element more or less per step. The last weak
owner's plain load is right because a count of 0 then leaves exactly one thread on
the way; the object of a `weak_ptr::lock` is alive because the compare-exchange
saw a count that is not -1, and so another owner. For the future, `CallsAreSound`
says who can still store a result: the one thread that executes, a ~promise that
found none, or any provider while the promise lives, and never two of these. It is
inductive only together with `OneResult`, because a waiter that reads relies on
"ready means a result". An asynchronous function has no reference; what protects
it is that the last future passes `look` only when the state is ready.
`NoSleeperAtOpenGate` distinguishes `notify_all`, and one sleeper with
`notify_one`; with two waiting at the reader limit it is false (see the known
limits), so its theorem has the hypothesis `Cardinality(Thread) <= n_readers + 1`.
The code counts up to 2^31 - 1 readers, so every program satisfies it.

**The barrier.** No ticket and no thread knows how many have arrived; what makes the
thread that comes out of the last round the last one is that arrivals are conserved.
`Level` is the number that a round expects, half of the round before, rounded up.
`BarrierInv` says (`FlowOK`) that whoever has come into a round either looks there for a
ticket (`Present`) or has found one (`Taken`: ticket `n` is for the arrivals `2n` and
`2n + 1`), where those who have come into round 0 are the expected ones less those still
due (`Due`), and those who have come into round `r + 1` are the complete tickets of
round `r` (`Filled`). A compare-exchange moves one arrival from one of these sets to
another, which `Flows` and `Assemble` add up; that the second of two and the single taker
of the last ticket of an odd round have a place of their own is arithmetic
(`TicketSlots`). A thread in a round that expects one has come out of the round before,
which therefore is complete; all places of that round are taken, so nobody looks there
any more and the round before it is complete, and so down to round 0, where nobody is
due (`LastArrival`, by `NoLeast` over the rounds). So everybody else waits in this phase
or is gone, and all tickets in use carry the number of the next phase. Drops lower the
expected count between phases; rounds are monotone in it (`LevelFacts`), so the next
phase uses only tickets that are ready. Phases may wrap: three numbers are enough,
because nobody who has not woken from a phase lets the next one end.

**The FDE cache.** `CacheInv` says what a reader has behind it and what a writer has
ahead of it. A lookup has passed no entry that matches, and what it looks for is in the
image or in a registered section, whose descriptions are all in the buffer (`Stored`);
so it cannot come to the end in vain. That the buffer does not change under it is the
lock: a writer needs `readers = {}`. What a registration has yet to add is exactly what
is missing of its section, and no two threads add the same section. Threads that missed
the image's frame together have yet to add it (`Missing`); a lookup can miss only while
there is no such entry, so entries and such threads together are at most as many as
threads. `removeAllIn` is a recursive function of the number of entries passed
(`Compacted`). That it has a value and keeps, in number and content, exactly the entries
of other groups is proved by `NoLeast`: a set of numbers without a least element is
empty, which follows from `WFMin` and needs no operator as a parameter.

**Left to TLC.**

* Liveness (`AcquireReturns`, `WaitReturns`, `TimedReturns`, `NobodyWaitsForever`):
  fairness is out of the prover's reach. Every other property of a passing run is
  stated by a theorem.

## What is not modelled

* Memory order beyond one store buffer per thread (AtomicWait); the guard's
  acquire and release orders are taken as sequential consistency of single bytes.
* The 32 bits of `platform_state`: it is counted without a width.
* Failing `malloc` in `emutls.c`, which aborts; the Win32 branch; alignment and
  initial values of TLS objects.
* The code does not fix which of `__thread_struct`'s key and the destructors' key
  is the older one, so `ThreadExit` has the step of `notify_all_at_thread_exit`
  but states no property about when it comes.
* Contents of blocks and exception objects in `FallbackMalloc`.
* Forced unwinding, dynamic exception specifications, failures of the frame
  stepper, exception destructors that throw and catch themselves, the work of
  the terminate handler, and running out of memory while exceptions are
  allocated beyond the bound on exceptions.
* The abort of `unwind_phase2` when it goes on past the frame of `private_2`:
  by `HandlerAwaits` that frame never answers "continue".
* In `FdeCache`, images with an index or with hints from a compact table, which
  the code does not cache, and lookups of addresses that have no frame description.
* A promise whose future was never taken, `packaged_task`, a `std::async` whose thread cannot be created, the atomic
  operations on `shared_ptr`, `memory_resource`; memory order in these modules.
* `latch` (a counter over atomic wait), `mutex`, `timed_mutex` and
  `condition_variable`, which forward to pthread.
* In `ThreadExit`, the fourth level of destructors and arrays born in the rounds,
  as said under the known limits.
* The components listed as `not_modelled` in `PROJECT.json`, each with its reason.
  DWARF interpretation, register files, numeric builtins, locales, formatting,
  containers and the demangler are sequential computations on data; generated
  files, build manifests, scripts and examples have no run-time state.

## Plan

Done: the guards, the emergency heap, emulated TLS, thread exit, atomic wait, the
semaphore, exceptions and unwinding, the synchronisation objects, the FDE cache;
and the theorems of the table above. What is left:

1. `Path`: parser and `lexically_normal` as functions on sequences of component
   kinds, against a reference definition.
2. The index searches of libunwind (`EHHeaderParser`, `FrameHeaderCache`) against
   a linear search.
