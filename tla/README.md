# TLA+ models of Viengoos

Viengoos is the resource manager of the Hurd on L4: a server (in effect the
kernel of the system) that owns all memory, keeps all objects and hands out
capabilities to them. Users talk to it by L4 IPC. This directory holds TLA+
models of its core, of the locks that user code builds on its futex call and of
the libraries that kernel and programs are made of (memory management, threads,
signals, data structures), TLC configurations that check them on small
instances, and proofs checked by TLAPS for the results that do not depend on
the size of the instance.

Source paths below are relative to `src/`. `PROJECT.json` lists for every
definition the lines it models, for every run what it checks, and for every
hazard the properties aimed at it.

## 1. The system and its parts

| Part | Source | State | Operations |
|---|---|---|---|
| user mutex | `hurd/mutex.h`, `hurd/lock.h`, `hurd/futex.h` | one word: 0, 1 (locked), 2 (locked, waiters) | lock, unlock, trylock |
| recursive mutex | `hurd/rmutex.h` | owner, signed count (negative: waiters), meta-lock | lock, unlock, trylock |
| wait queues | `viengoos/object.c`, `thread.h` | per thread `wait_queue`, head/tail flags; per folio object the head | enqueue, dequeue, walk |
| blocking calls | `viengoos/server.c`, `thread.c` | `wait_reason`, `wait_reason_arg`, debug list `futex_waiters` | `RM_futex`, `RM_thread_wait_object_destroyed`, `RM_activity_info`, object destruction |
| kernel lock | `viengoos/mutex.h` | one word: nil, the owner, or the last waiter | lock, unlock with a synchronous wake-up message, trylock |
| kernel threads | `server.c`, `ager.c` | `server_loop`, `ager_loop`, one `kernel_lock` | one message; one batch of frames |
| folios, objects, capabilities | `object.c`, `activity.c`, `cap.c`, `hurd/cap.h` | versions and types in folios; owner, lists and counts of activities | allocate, free, copy, rub out, set quota |
| frame accounting | `object.c`, `memory.c`, `activity.h` | object descriptors, five lists and a dozen counters per activity, `laundry`, `available` | claim, share, map, free, reuse |
| pager | `pager.c` | the above, `policy`, children sorted by priority | select a victim, reclaim from it, ask it to free |
| ager | `ager.c` | age and reference bits of frames, statistics | visit a batch of frames |
| page faults | `server.c` | `desc->mapped` and the hardware's mappings | answer a fault |
| threads | `thread.c` | `struct thread`, `thread_ids`, `tid_to_thread`, L4 threads | `RM_thread_exregs`, deallocation |
| exceptions | `thread.c`, `libhurd-mm/exceptions.c`, `libhurd-mm/ia32-exception-entry.S` | exception page, stack of exception frames, processor | raise, enter, handle, leave |
| capability copies and translations | `hurd/cap.h`, `viengoos/cap.c`, `hurd/addr-trans.h` | slots with guards and subpages; what the hardware has cached | `cap_copy_x`, rubout, `cap_shootdown`, fault |
| address translation | `libhurd-mm/as-lookup.c`, `as-build.c`, `as-compute-gbits.h` | page tables of capabilities with guards | lookup, insert |
| free address space | `libhurd-mm/as.c` | tree of free regions | allocate, allocate at, free |
| capability slots | `libhurd-mm/capalloc.c` | cappages with bit arrays, list `nonempty` | `capalloc`, `capfree` |
| storage | `libhurd-mm/storage.c` | descriptors of folios on three lists, `free_count` | `storage_alloc`, `storage_free`, the reserve |
| memory maps | `libhurd-mm/map.c`, `anonymous.c`, `pager.c`, `mmap.c`, `mprotect.c`, `madvise.c` | maps, pagers with their storage, the address space | mmap, munmap, mprotect, madvise, fault |
| physical memory, zalloc | `memory.c`, `zalloc.c` | reservations, buddy zones | reserve, clear, grab, allocate, free |
| containers | `libhurd-btree`, `libhurd-ihash`, `libhurd-slab`, `libbitarray` | nodes, tables, slabs, bits | insert, find, remove, iterate |
| libpthread: synchronisation | `libpthread/sysdeps/generic`, `sysdeps/viengoos` | mutexes, condition variables, read-write locks, semaphores, barriers, once | lock, wait, signal, post ... over block and wakeup |
| libpthread: threads | `libpthread/pthread` | control blocks, id table, free list, total | create, exit, join, detach |
| libpthread: keys, signals | `sysdeps/hurd`, `libpthread/signal` | key table; per thread pending, blocked, actions | create, delete; kill, mask, dispatch, sigwait |
| libl4, libc-parts, newlib | the directories of these names | bindings, loader, `malloc` | |
| laden, deva, init, ruth, benchmarks | ditto | boot loader, an unfinished device server, users | |

How they interact. `server_loop` receives one message, takes `kernel_lock`,
runs the handler, releases the lock and then sends the reply, so a handler is
atomic with respect to the ager, **but its reply is not**. `ager_loop` takes and
releases the lock for every batch. A blocking call sends no reply: the thread
is put on the wait queue of an object, and whoever later wakes, requeues,
destroys or informs takes it off and sends the reply. Destroying an activity
frees its folios, which destroys the objects in them, which may be activities,
threads with waiters or threads that wait. Every look at an object claims its
frame for the activity that looks, which may unmap it, move it between lists
and charge one chain of activities instead of another.

On the user's side a fault that the kernel does not resolve comes back to the
thread as an exception: it runs `exception_handler_activated` on a stack of its
own, which finds the map and asks its pager, which takes an object from
`storage_alloc` and puts it in the address space with `as_ensure` and the
kernel's `RM_cap_copy`. All of this may fault in turn. `libpthread` blocks a
thread on a futex, its own thread id, after it has put it on a queue; its
signals stop a thread wherever it is and make it run something else.

What is hard. The atomic operations of the locks against each other and against
the futex queue; waiters that are moved, woken, destroyed, aborted or timed out
in any order; deallocation while capabilities, children, waiters and frames
still refer to the thing; a recursion over storage whose shape users choose;
accounting kept incrementally in many places; hardware bits read and cleared in
several places; a reply that is overtaken; rounding in the comparison of
shares; hand-over of locks to threads that still sleep, or do not sleep yet;
recycling of control blocks whose threads still run; faults inside the code
that returns from faults; maps that are cut while pages behind them are being
filled; translations the hardware keeps after a capability changed; trees whose
null links are threads, tables probed past deleted entries. There are no
crashes to recover from: nothing is persistent (the disk of the design does not
exist in the code).

What would make each part correct: mutual exclusion, no lost wake-up and
progress of the locks; wait queues that are exactly the blocked threads; a
revoked capability stays revoked; lists, counts and quotas that agree with the
tree of activities; frames on the one list their descriptors call for, charged
once at each level; nothing written is lost; a victim that has something to
give and is of the lowest priority; a structure of a library stands, after any
sequence of calls, for the set, function or memory that its callers believe in;
a dequeued thread runs; a context that was interrupted is resumed exactly once.

## 2. Modules

Arrows of dependence: `LockAbs` is implemented by `FutexMutex` and by
`KernelMutex`; `KernelThreads` extends `KernelMutex`; `KernelWait` extends
`WaitQueue`. `MC*` modules add model values, symmetry sets and small sets of
inputs where a configuration alone does not do. `*Proofs` modules hold theorems
(section 4). `Locks` and `MCPager` put two specifications that share nothing side
by side for one run; a behaviour is one of either.

**LockAbs** - the promise of a lock: it has an owner or none, `Acquire` gives
it to somebody when it is free, `Release` takes it from its owner.

**FutexMutex** - `ss_mutex_lock`, `ss_mutex_unlock` and `ss_mutex_trylock`, one
action per atomic operation (`Lock` is the compare-and-swap, `Exchange` the
exchange of the slow path, `Decrement` and `Store` the two writes of an
unlock), with `FutexWait` and `FutexWake` as the kernel handles them: the wait
compares the word and sleeps in one step, the wake takes the head of a queue to
which sleepers are added at the front. `DeadlockTimeout` is the EDEADLK timeout
of debug builds (`server.c`), which wakes every sleeper when no message arrives.

**RMutex** - `hurd/rmutex.h` over a meta-lock that is taken to be an owned lock
(that `ss_mutex` is one is what `FutexMutex` shows). `LockAgain`, `LockFree`
and `LockBusy` are the three branches under the meta-lock; the meta-lock is
released before `FutexWait`, with the count remembered in `val`. A failed
`ss_rmutex_trylock` keeps the meta-lock, as in the code.

**WaitQueue** - the circular list through the fields of the waiting threads and
the folio. `wq` is those fields; `queue` is a history variable, the sequence
per object that enqueueing at the front and dequeueing from any place would
give. `EnqueueFirst`, `EnqueueBefore`, `DequeueOnly`, `DequeueTail`,
`DequeueHead` and `DequeueMiddle` are the branches of
`object_wait_queue_enqueue` and `_dequeue`; `Represents` says that the links
are the sequences. A comment of `thread.h` says that the head's `prev` designates
the object; in the code it designates the tail, as in the model.

**KernelWait** - the messages that block threads and wake them. One action per
message: the four futex operations, waiting for destruction, `RM_activity_info`
and its two events (`Notify`), allocation over an object (`FolioObjectAlloc`,
which destroys what was there, wakes those who waited for it and takes it off
its own queue), starting a thread, aborting its IPC, the discarding of a page
and its clearing at the next access, the EDEADLK timeout. The helper `wake`
and the other loops (`WakeEach`) go over the walk of the queue, which is taken
before the handler changes it, as `object_wait_queue_for_each` fetches its next
element in advance.
`failed` names the assertion that stopped the kernel; nothing happens after:
`ObjectMissing` is where a dequeue looks for the object of a discarded page, for a
head, for a tail and, in debug builds, for everybody.
Whether a futex word has the expected value is a free choice.

**KernelMutex** - `viengoos/mutex.h`: the word is nil, the owner or the last
thread that found the lock taken. `KUnlock` clears the word and, if it names
somebody else, `Wakeup` sends the synchronous message that needs a receiver.

**KernelThreads** - `server_loop` and `ager_loop` around `kernel_lock`: the
number of frames per round and the frequency of the statistics are constants,
the content of a handler is left out.

**ObjectStore** - folios, objects, activities and capabilities. Oids are pairs
of a folio and an index, -1 being the folio itself. `activity_destroy`,
`folio_free` and `folio_object_alloc` call each other; one handler is one action,
so `Doomed` is what all the calls together destroy: the least set with what
`GoesWith` adds to it, the activities charged to, or children of, one in the set
and the objects of their folios. `Without` is what is left of a list. `FolioAllocDenied` is the error path in
which some ancestor is over its quota after those below were charged. Threads
and cappages behave like pages here. `MayFree` excludes calls in which an
activity frees the storage it lives in itself: the code goes on using it.

**Frames** - the descriptor of every frame (`desc`), the `lists` and the counters
(`act`) of every activity, and the hardware's view (`mapped`, `written`).
`Disconnect` and `Connect` are the halves of `object_desc_claim`; handlers compose
them through a record of the state, in the order of the code. `ListOf` is the list
by which the code unlinks a descriptor, `EvictAll` and `FreeAll` are the loops over
the frames of `reclaim_from` and of a destroyed activity's folios. `FrameAlloc`,
`FrameFree`, `Realloc`, `Lookup`, `CapRubout`, `SetPolicy` and `Fault` are what
a call of a user does to one frame; `SendReply` is the reply of a fault, which
maps the page after the lock was released, so that the ager may run in between;
`AgerVisit` is the ager's visit; `Reclaim`
is `reclaim_from`; `AskToFree` is `send_reclaim_notification` with the grace
period it begins; `ActivityDestroy` is the inheritance of frames and the
assertions there. Lists are sets: where the code takes an end of a list, the
model takes any element. An age is active or not. `modified` is history: what
users wrote since the page was set up. `Flush` always asks for the status bits; the
pager does not for a frame that is dirty and referenced already (`object.h:401`),
where they tell nothing new.

**PagerSelect** - one level of `pager_collect`: the sorted list of children
under creation, destruction and `activity_policy_update`, and the search for a
victim as a pass over the candidates (`Pass`, one `Process` for each), with the
integer divisions of the code. `RM_activity_policy` with its rights is `SetSibling` and `SetSelf`.

### libpthread

The modules share the state of `PthreadBlock`: one `object`, of one kind per
behaviour, where each thread is in its call (`pc`, `call`), and whom it still
has to wake (`waking`). What is done under an object's spin lock is one step;
between the spin lock's release, the sleep and the waker's loop everything may
happen.

**PthreadBlock** - queues at whose front threads are put and taken, `Block`
(`futex_wait` on the thread's own id) and `Wakeup`, which repeats `futex_wake`
until somebody was woken, since the thread may not sleep yet.

**PthreadMutex** - normal, error-checking and recursive mutexes with their
hand-over to the first of the queue, `pthread_mutex_transfer_np`, and a
condition variable. **PthreadRwlock** - read-write locks; an unlock wakes one
writer or all readers and counts them as holders. **PthreadSem** - semaphores,
barriers and `pthread_once`. The early returns with `EINVAL`, and the barrier of
one thread, keep the spin lock, as in the code; after that nobody gets into the
object.

**PthreadLife** - `pthread_create` in its steps, `pthread_exit`,
`pthread_join`, `pthread_detach`, and the recycling of control blocks: a thread
that has put its own control block on the free list runs on for a while, and
`__pthread_alloc` halts it before it reuses the block. `CreateFails` is a failure
before the kernel's resources exist. The later labels of `pt-create.c`
(`failed_setup`, `failed_sigstate`, `failed_starting`) cannot be reached on
Viengoos: `__pthread_setup`, `__pthread_sigstate_init` and
`__pthread_thread_start` return 0 (the last one asserts that it can).

**Pthread** - their disjunction, the run's module.

### Libraries

`LibState` has two variables for all of these modules: `lib`, the structure as
the code keeps it, and `ref`, what its callers believe: a set, a function, a
memory. `Libraries` is the disjunction; a behaviour is about one structure. Bits,
keys, free addresses and thread ids, which are all numbers given out, have one
property between them, at the end of `ThreadControl`.

**Btree** - `libhurd-btree` at the level of links, threads and colours:
insertion with the splitting on the way down (`FindInternal`, `FixRedEdges`),
`Detach` with its rebalancing, `next`, `prev`, `first`. **Ihash** - open
addressing, probing in both directions, deleted slots, growth. **Slab** - buffers
of slabs, growing and reaping. **Zalloc** - buddies; `ZoneFor` chooses the blocks
a freed range is cut into, `add_block` merges. **Reserve** - intervals of bytes
at boot, and which pages go to the allocator when; `AddFrom` gives the set of
outcomes of `memory_add`, since it depends on which of several overlaps the tree
happens to find, and one of them may be that it never ends. **BitArray** - `bit_alloc`
with its hint. **PthreadKeys** - the table of keys. **FreeSpace** - `as_alloc`,
`as_alloc_at`, `as_free`; `Widened` is the rounding of what is not data.

**AddressSpace** - addresses are bit strings, tables are named by the bits
translated before them. `Walk` is `as_lookup_rel`, `Build` is `as_build` with
the guards that `ComputeGbits` prefers, `Indirect` the table that is put in
between with `PivotGuard` for what was there.

**Shootdown** - `cap_copy_x` (`CapCopyX`) with the guards and subpages that its
flags can ask for (`AskedGuards`, `AskedSubpages`), what it considers a change
(`ChangesTranslation`), its refusals (`Narrows` before, `Fits` after the shoot-down),
what `cap_shootdown` reaches (`ShotPages`), and faults that fill the hardware's
cache, `ref`. `weakened` and `hidden` record the two ways in which the code leaves
translations behind.

**ThreadControl** - ids, hash and L4 threads under `RM_thread_exregs`, whose two
branches do the same to a thread with and without an L4 thread. An id is found
with `BitArray`.

**CapAlloc** and **Storage** - the steps between locks of `capalloc`, `capfree`,
`storage_alloc` and `storage_free`. The list `nonempty` is kept link by link, since
`capalloc` may unlink, and `capfree` link, a cappage that is not, or is already, on
it. Assertions are compiled in and stop the program, that of
`pthread_mutex_unlock` in `Discard` included.

**Maps** - maps and anonymous pagers: `Mmap`, `MmapFixed`, `Munmap` (which cuts
maps with `Carve` and `SplitMap` and then destroys the ones it took out, each
between `DestroyBegin` and `DestroyOne`), `Mprotect`, `Madvise`; a fault in its
steps `FaultFind` (under the lock of the maps), `FaultEnter`, `FaultServe` and
`FaultFill` (under `anon->lock`); the kernel's `DiscardPage`. Calls come between the
steps of a fault, on the very page that faults too; such pages are `stale`. The
storage tree of a pager is changed by `fault` under `anon->lock`, by `mdestroy` under
`pager->lock` and walked by `advise` under neither: where two of them are in the tree
at once its state is not known any more and the program counts as stopped. `ref` is
the memory as the program understands it.

**Activation** - one thread and its faults. A fault may hit the program, a normal
handler, or any of the steps in which a handler goes back. When `map_fault` fails a
signal is raised instead: its handler is a part of the normal handler's body, or, in
activated mode, of the activated handler, and comes back the same way.

**Signals** - signal states, dispatch frames on the stacks, masks, `sigwait`. A
sender locks the receiver's state (`KillSiginfo`) and interrupts it in a step of its
own (`Deliver`), wherever the receiver is by then. The list of waiters is kept link by
link, on the waiters' stacks; `Dead` is a link or pointer to one that has returned.

## 3. Runs

Nine runs pass; three end in a violation, and each of these states a comment of the
repository that the code does not keep (section 6). States are distinct ones, after
symmetry.

| Run | Instance | States | Shows |
|---|---|---|---|
| `locks` | 4 threads, debug build; server and ager; fairness | 2829 | both mutexes refine `LockAbs`; a sleeper implies somebody who will wake it; whenever someone waits someone gets the user mutex; the kernel's threads are both woken, the ager goes on |
| `rmutex` | 2 threads, depth 2, trylock, fairness | 2922 | the count is the owner's depth and no assertion fails; a sleeper is woken, unless a failed trylock kept the meta-lock |
| `rmutex_lost` | 3 threads | - | violation: waiters whose count was forgotten |
| `kernel_wait` | 4 threads, 2 futexes in a page, destruction, production | 27553 | wake and requeue affect exactly the right waiters; blocked = queued on a live object; nothing fails |
| `kernel_faults` | 2 threads, 1 page, 1 activity; aborts and discards too, debug | 459291 | the links are the sequences; a blocked thread is on a queue where an event can wake it, and on `futex_waiters`, as long as the kernel runs |
| `object_store` | 3 folios of 1 object, 2 slots, quota 1 | 179868 | revoked for good, types agree, nothing void is referenced; lists and counts agree with the tree after any recursive destruction, no re-entry; quotas kept |
| `frames_lists` | 2 frames, root and a mortal child | 82576 | frames on the right lists, local counts and totals agree |
| `frames_late` | 1 frame, root and a child | - | violation: a mapped eviction candidate |
| `pager` | 1 frame, 3 levels, 4 policies, goals 2 and 4; Self and 2 children, 3 priorities, weights 1 and 3 | 131784 | exclusions undone exactly once, no counter below zero, the frame on the right list; no write is forgotten, and what was written is offered for reuse only if it may be discarded or was written through a mapping the kernel does not know of; children sorted and searched in order; victim of the lowest group, with something to give |
| `pthread` | 3 threads, 3 calls each, one object of each kind, fairness | 20158 | objects give what they promise, assertions hold, nobody forgotten or woken twice; control blocks, stacks and ids used once; dequeued threads and joiners go on |
| `libraries` | 16 structures, see below | 699624 | each structure stands for what its callers believe |
| `shootdown_stale` | 1 cappage, 1 page | - | violation: a writable translation outlives the right to write |

The parts of a property that is a conjunction (`TreeOK`, `Accounting`,
`WaitersReachable`, `LivesWell`, `NumbersAgree` ...) are definitions of their own
beside it.

Why the bounds are enough to be interesting. Four threads give the user mutex
two sleepers besides a holder and an unlocking thread. Two threads of the
recursive mutex make every branch happen, with one asleep while the other
recurses, leaves, and retries; three are needed for one sleeper to be forgotten
in favour of another, which `rmutex_lost` shows. A queue of three has a head, a
tail and a middle; with four threads in `kernel_wait` there are three sleepers
and a caller, so that one can be woken, one moved and one left, and each of them
destroyed before. Versions 0 and 1 let storage be reused under a stale
capability; that no longer history matters is the theorem `Revocation`. Three
folios, each with an object that may be an activity, make a chain of activities
in which a child is stored in its parent's or a stranger's folio, and
destruction that recurses twice; two slots let one capability be copied from
another. Two frames let one be shared or a candidate while the other moves, with
a child that is destroyed and whose frames are inherited; three levels of
activities (`pager`) have a middle that is both charged by those below and
charges those above. Goals of 2 and 4 and an allowance of 2 let the grace period
end in each of its two ways, and the four policies let a written page be one that
may be discarded. Self, two children and three priorities put one, two or all of
them in the group of the lowest priority, in every order, and weights of 1 and 3
make the divisions round; longer lists of children are left to `SelectionOrdered`.

Three threads of `pthread` are a holder, or waker, and two waiters, of which one
may be on its way to sleep while the other sleeps; a barrier for two is entered
by the third before the first has left; of three control blocks one is recycled
while its thread still runs. In `libraries`: six nodes of a tree reach every
branch of rotation, splitting and removal at least below the root; the keys 0, 3,
7 and 14 collide in the tables of 3 and of 7 slots and fill the first beyond its
maximal load; ten pages with five zones leave an odd block at the end; two
buffers per slab and three slabs make full, partial and empty ones in every
order; twelve bytes in pages of three let two reservations share a page, and one end at
the first byte of a page; two threads fill a cappage of two slots in the window in
which it is full and still listed, with a second cappage beside it; five
bits of address, tables of up to two bits and guards of at most three significant
bits force a table between others and one that is narrower than preferred; two
threads allocate and free five objects of three folios; three signals, one of
them blocked by its own handler and one not, four calls, handlers nested twice;
faults nest four deep; three calls of two threads cut, protect, remap and destroy two
pages of two pagers while one of them faults; a cappage with two slots, whole or as
one of its two subpages, is put, moved, weakened and copied over itself above two data
pages; three thread objects share eight ids.

`VersionLimit`, `MaxVersion`, `MaxDepth`, `MaxFrames`, `FreeAllocations`, `BadKarma`,
`Freq`, `MaxCalls`, `MaxSigCalls`, `MaxMapCalls`, `MaxContexts`, `MaxInserts`,
`MaxCopies`, `MaxFolios`, `MaxKeys`, `MaxLocks`, `CountModulus` and the sizes of pages,
tables, bytes and folios are bounds or scaled-down constants of the code.

Deadlock is checked except in the `KernelWait` runs (all threads may be
blocked, and an assertion may stop the kernel), in `rmutex` (a failed
trylock keeps the meta-lock for ever), in `frames_lists` (an assertion of
`activity_destroy` may stop the kernel), in `pthread` (threads may all wait, or
exit) and in `libraries` (bounds on calls are used up, programs end).

### Fairness

- `FutexMutex`: weak fairness of each thread's own steps. L4 schedules every
  thread that is not blocked, and a thread that holds the lock is assumed to
  unlock it. Nothing obliges a thread to lock, and nothing relies on the
  EDEADLK timeout, which production builds lack. The queue is last-in
  first-out, so only progress of the system is claimed, not of each thread.
- `RMutex`: the same, strong fairness of taking the meta-lock, and strong
  fairness of leaving the outermost level. The first is an assumption about
  `ss_mutex`, which by itself only promises that somebody gets it; with two
  threads the other can overtake forever only if it never stops taking the
  lock. The second says that callers do not hold the lock for ever.
- `KernelThreads`: weak fairness of the server's steps inside a handler and of
  the ager. Nobody has to send a message.
- `Pthread`: weak fairness of each thread inside the library: going to sleep,
  the loop of `__pthread_wakeup`, the steps of create, exit and join. Nobody has
  to unlock, post or exit, and the queues are last-in first-out, so nothing is
  claimed of a thread before it is dequeued.

## 4. Proofs

The theorems hold for arbitrary sets; the assumptions on constants are the
named `ASSUME`s of the modules, which TLC evaluates on the instances, and where a
theorem needs more (`BlockedIffQueuedHolds`, `ReachableHolds`, `FramesGrace`,
`FutexExactHolds`) its statement says so.

**FutexMutexProofs** (`MutualExclusionHolds`, `NoLostWakeupHolds`,
`Refinement`; any set of threads, both builds). Typing and `QueueOK`, that the
queue holds exactly the sleepers, are parts of the invariant. Mutual exclusion
is not inductive: it needs `WordOK`, that at most one thread is between taking
the word and making it 0 and that the word is 0 exactly when there is none. The
no-lost-wake-up property needs `QueueOK` for the step that wakes. The
refinement maps the owner to that thread.

**KernelWaitProofs** (any finite set of threads, any objects and counts).
`ListsAgree`: `Represents` is inductive as it stands; the work is one lemma for
each branch of enqueue and dequeue, and the fact that a thread is on one place of
one queue. The rest is about the messages. `KernelQueues` holds for all calls in
both builds, beyond the assertions that stop the kernel: the links are the queues,
and whoever is blocked is on the queue of an object that exists.
`ReachableHolds` adds the debug list, in builds without it or without
FUTEX_CMP_REQUEUE: a moved waiter leaves `futex_waiters`, so the property is false
otherwise. `BlockedIffQueuedHolds` is the converse, that nobody runs and is queued
and no assertion fails. It needs `Peaceful`: no aborted IPC, no discarded page, no
requeueing in debug builds, no FUTEX_WAKE_OP whose `val2` is 0; each of these, allowed, breaks
it (section 6). The invariant is stated of the record that handlers pass
along (`Good`), so that it can be said to hold between two calls of a handler:
there a set `X` of threads has been dequeued and not yet replied to. The loops
over a queue work on a walk taken in advance; that the walk is the queue
(`WalkIs`) and that each round keeps `Good` while the rest of the walk is still queued are
lemmas on the loop's function. `FutexExactHolds` says what a whole call did:
who was first in the queue is woken or moved, as many as the counts say, and
everybody else keeps his place. The loop's invariant is `Exact`: after some rounds,
those seen whose rank among the matching waiters is below the counts have been woken or moved, in the
order of the walk, and the others are where they were; orders are relations
(`Before`), so that queues need not be compared element by element. It needs
`Peaceful` and that a requeue is told to move somebody, since a count of 0 moves all
(section 6).

**KernelMutexProofs** (`Safety`, `Refinement`; any set of threads.
`NobodyForgotten`; at most two threads). The invariant adds that the word is
nil exactly when nobody is inside, and that a thread the word names is inside
or waits for a message. With a third thread a waiter can be overwritten in the
word and forgotten; the kernel has two threads, the theorem says this
is enough.

**ObjectStoreProofs** (any number of folios, objects, slots and activities).
`NoExtantPointers` and `Revocation` follow from one inductive fact: no capability
is ahead of its object, and those of void objects and free folios are behind.
Freeing bumps versions of exactly what becomes void, whatever the recursive
destruction covers. `TypesAgree` adds the types: a capability with its object's
version has its type or a weaker one of the same kind, and what a slot says of
an activity or folio is true. `TreeKept` needs the whole shape of the tree: the
lists hold each folio and each child once and nothing else, owners and parents
are live activities, and there is no circle. The last is stated without
paths: every non-empty set of activities other than the root contains one that
does not go with the rest of the set, which is what makes the least set of
`Doomed` never come back to the activity it began with. The counts then follow
from the lists, by the theorems on finite sets. `QuotaHolds` (no allocation takes
an activity beyond its quota, a denied one charges nobody) is an action property
and needs no more than the typing of counts. Assumptions: `MaxVersion <
VersionLimit`, versions do not wrap (without it the claims on versions, types and
trees are false; `QuotaHolds` does not use it), and finitely many folios.

**RMutexProofs** (`Balanced`, `Refinement`; any set of threads, any depth, both
builds). `RecursionBalanced` is not inductive: it needs `MetaOK`, that whoever
looks at the fields has the meta-lock (the converse is false, since a failed
trylock leaves it with a thread that does not look), and `UnlockerOK`, that only a
thread inside is about to unlock. The sign of the count, which waiters change,
drops out of the argument: depth is its absolute value.

**PthreadProofs** (`ExclusionHolds`, `AssertionsHold`,
`NobodyForgottenHolds`, `LivesWellHolds`; any finite set of threads, any number of
calls). One invariant for the six kinds of objects: a thread that blocks is on
exactly one of the object's queues or the lists of those a waker still has to wake
(`Places`); what an object records is the number or set of
threads that hold it, those included to whom it was handed over and who have not
run since. None of the four properties is inductive alone: that a mutex's owner is
the one that holds it relies on the hand-over list, and the assertions of the
wakers on the queues. The life of threads has its own invariant: which of the
control blocks are in the table, on the free list, being created or on their way
out, which stack and kernel thread each has, and that the total counts the ones
that have not yet subtracted themselves.

**FrameProofs** (any finite sets of frames and activities, any tree, any policies).
`FramesInvariant` is the inductive invariant behind `FrameAccounting` and holds
whether or not replies are overtaken and activities destroyed. It is stated of the
record that handlers pass along (`Good`), since in the middle of a handler a frame is
on no list or charged to nobody: every frame is on the list its descriptor calls
for, on nobody else's, and in the pool of candidates that goes with that list; an
owner is alive; the local count is the number of frames an activity pays for, the
totals and pending counts are those of the subtree. None of the three parts of
`Accounting` is inductive alone: `object_desc_claim` adjusts the counts by what the
descriptor says, so the counts are right only if the lists are. The sum over a
subtree is the number of pairs of an activity and a place below its count, so that
the theorems on finite sets do what an induction over sums would; that an
activity charged by 1 changes the sums of exactly its ancestors is one lemma
(`TotalChange`), which all of charging, pending, excluding and inheriting use.
`FramesKeepWrites` holds whenever replies are sent. It adds for each frame that the
hardware has a dirty bit only for what is mapped, that a candidate is not noted as
mapped, and that a modified page is marked dirty or the hardware still has its bit; that
candidates are not mapped at all is false (section 6), so the theorem says how far a
reply that the ager overtook can do harm. `FramesGrace` assumes that nobody is destroyed
(section 6 again) and adds that the excluded frames of an activity are what the
activities of its subtree had when they were asked. Assumption:
`FramesAssumption`.

`SelectionOrdered` is about `PagerSelect` (any children, priorities, weights and
goals; whether or not an activity's two priorities agree). `SelectInv` adds to the order
of the list that nobody is on it twice, without which a child that is moved could
stay at its old place as well. Taking an element out keeps a list sorted
(`RemoveSorted`), and so does inserting one between those that are not lower and
those that are not higher (`InsertSorted`); what is left for each of
`activity_prepare` and the two directions of `activity_policy_update` is that their
loops stop at such a place. The candidates of `pager_collect` then ascend
(`CandidatesAscend`), Self among them, and each step of a pass leaves as victim
one that is not above those still to come. Assumption: `PagerSelectAssumption`.

**LibraryProofs** (`SignalsAreHonoured`; any threads, signals and masks.
`ActivationResumes`; any depth of nesting. `StorageHolds`; any number of threads
and folios, folios of any size. `SlabsHold`; any pages, slabs of any size.
`NumbersHold`; bit arrays, tables of keys and address spaces of any size, any
threads. `CapsHold`; any threads, any cappages of any size). They are about the
specifications `SigSpec`, `ActSpec`, `StorageSpec`, `SlabSpec`, `NumbersSpec` and
`CapSpec` of the components, whose steps are those the
`libraries` run takes on a structure of that kind. For signals the invariant ties
each frame on a thread's stack to the mask it will restore and to the steps that
still separate it from the handler, and the lock of every signal state to the one
thread that is between taking and releasing it: the receiver in its dispatch, or a
sender, whose signal is not blocked as long as it has the lock. The links of the
waiters need only be typed, since a list gone wrong loses waiters and no masks. For activations it says what the
exception frames, the stack and the message buffers of every context below the
running one hold, so that the theorem about the innermost context survives its
return, at whichever instruction the next fault arrives. For storage,
`StorageInv` gives each object in use exactly one owner (a client, the folio whose
shadow it is, or the thread that is freeing it), says which thread has a
descriptor locked and why the lists' lock is still held, that a descriptor's count
of free objects is one ahead of its set only while its holder clears an object,
and that a descriptor is on one list exactly when its count is not zero.
`free_count`, which is read without a lock and counts folios before they exist,
does not occur in it: its races decide when folios are allocated and freed and
nothing else that the property speaks of. For slabs, every slab's free list and
the buffers handed out partition its buffers, the reference count is their number,
and `first_free` names a slab that is not full unless all are; `reap`, whose loop unlinks the empty slabs until a deallocation is refused, is
a filter of that list. `NumbersHold` is four proofs, one per allocator; no
two share a kind of structure, and the kind never changes. Bits: the bytes visited, with the
masks of the first and the last look, come in the order of the addresses from the
start, wrapping once, so the first one that is not full has the bit that is wanted
(`BitFound`). Keys: the count of deleted keys is the number of free entries, which
is why the search the count promises does not run off the table. Addresses: the
regions are disjoint, maximal and make up what is free (`SpaceOK`); maximality is
what makes the neighbours that `as_free` looks for the only ones to coalesce with. Threads:
`TidsOK` (ids in use, the hash and the L4 threads belong to the same objects) does
not mention the client and is inductive; `Seen` (the registers and the state are
those asked for last) is not inductive without it, since two objects with one id would change
each other's thread. `CapsHold` does not need the list at all, which two threads can spoil (section 6): its
invariant `CapInv` says that a call that looks for a slot has the cappage's lock, that
the slot it has found is still free, and that every mark belongs to one client or to
one call that has a slot in hand. The window in which a full cappage is listed then
ends in the assertion that a slot is found, never in a slot given out twice. Assumptions: `SigsAssumption`,
`ContextsAssumption`, `FolioAssumption` (a folio has more than two objects, and the
two folios of the start fit), `PerSlabAssumption`, `BitsAssumption`,
`KeysAssumption`, `SpaceAssumption` and `ThreadsAssumption`, which say that sizes are
positive numbers and that the model values for "none" are none; and `SlotsAssumption`,
by which a cappage has more than one slot (256 in the code), so that a new one is
not full after its first.

Recursive functions (a list without some elements, a walk, a sum) are opened in
these proofs by a least counterexample, with the library's theorem on minima of
well-founded relations: it takes a set and not an operator, and so can be used
where the induction theorems cannot.

Only model-checked. Liveness and everything that relies on fairness, since the
prover has no rule for `ENABLED`. `VictimRight` of `PagerSelect`: it depends on how
large frames and goals are, since the search gives up when the active frames shifted by 15
are still too many, ignores less than a thousandth of the goal, and rounds shares. Of the libraries `Btree`, `Zalloc`, `Reserve`, `AddressSpace` and
`Shootdown`, which have recursive operators; `Ihash`, whose probing is a search of
the table from a place given by a remainder; and `Maps`, whose calls split regions
in loops.

## 5. Not modelled

- Marshalling of messages (`hurd/rpc.h`), console, boot, `libl4`, the loader and
  `process-spawn`, `laden`, `deva`: bindings, straight-line start-up code or pure
  I/O, with no state whose history matters.
- Copied code: the two copies of Doug Lea's `malloc` (10700 lines), the two of
  `elf.h` (4900). With the bindings of `libl4` (15900 lines of inline functions
  around traps, each interface twice), tests and benchmarks these are about two
  fifths of the repository's C code, which is why the share of its lines that the
  map names (about a seventh) is small although the parts above that have a
  module are modelled nearly whole. Most of `libpthread`'s other lines are
  declarations, attribute getters and setters, and licence texts.
- The contents of futex words, results of calls and error codes in
  `KernelWait`. (`FUTEX_OP_OR` adds instead of or-ing, and `FUTEX_WAKE_OP` returns 0;
  visible in the source, outside the model. So is `RM_read`, which never sends
  its reply.)
- The EDEADLK branch of `server_loop` works on wait queues without
  `kernel_lock` (`server.c:138-142`); the model takes it as one step. The server
  handles no message meanwhile, and the only other thread, the ager, dequeues
  only those who wait for an activity's statistics (`ager.c:411`), on other
  queues than the futex waiters; what the two might both touch is a frame that
  `object_find` brings in.
- The statistics of `update_stats`, the water marks of the pager, the descent
  of `pager_collect` over several levels, the order inside the lists of frames,
  frames that hold threads, activities or folios.
- Calls in which an activity frees the storage that contains itself.
- In libpthread: cancellation, clean-up handlers, attributes, values of keys and
  their destructors (the loop over the keys ends at the first deleted one,
  `pt-destroy-specific.c`), time-outs that expire (`__pthread_timedblock` is a stub
  on Viengoos), alternate signal stacks, `sigsuspend`.
- In libhurd-mm: the program's start (`as_init`), `as_walk`, `map_join`, which
  nothing calls, fill functions that fault in their own region, what becomes of a
  storage tree in which two threads work at once (the model stops), the staging
  area and stack flags of anonymous pagers.
- Concurrent readers of a tree: `BTREE_(find)` restructures it, so a shared lock
  would not do. The callers in this repository exclude each other, but for the
  storage trees of anonymous pagers (`Maps`, section 6).
- Policies under which the two priorities of an activity, as a sibling and for its own
  memory, disagree (`Agreeing = FALSE`), in the run; `SelectionOrdered` covers them.

## 6. Where code and comments differ

Three disagreements have a run that ends in a violation.

- `rmutex_lost`: `ss_rmutex_lock` resets the count to 1 although another thread still
  sleeps; "Negative means there may be waiters" (`hurd/rmutex.h`) fails with three
  threads.
- `frames_late`: the reply that maps a page is sent when `kernel_lock` is released; if
  the ager takes the shared frame back before, the reply makes a mapping that the
  descriptor does not have, and the pager leaves it when the frame becomes a
  candidate; "Eviction candidates are unmapped" (`viengoos/ager.c`) fails.
- `shootdown_stale`: a capability copied onto itself with `CAP_COPY_WEAKEN` is not
  taken for a change and keeps its writable translations; "we need to shoot down all
  cached translations" (`hurd/cap.h`) fails. It fails too below a cappage whose subpage
  is not the first, of which `cap_shootdown` visits the first slots, and where a cappage
  leads back to itself; `PlainTranslationsFresh` excepts exactly these.

The following are in the models, because the code is, and the properties of the
passing runs are stated so that they hold beside them. Each can be reached by
TLC with other constants or was read off the code; the hazards of
`PROJECT.json` give the lines.

- Requeueing no waiter moves them all: the count is decremented before it is
  compared with 0 (`Counts` with a zero).
- In debug builds a moved waiter leaves `futex_waiters` and is unlinked from it
  again later (`NDEBUG = FALSE` with requeueing).
- `FUTEX_WAKE_OP` with `val2` of 0 moves waiters to a null object.
- A thread whose IPC was aborted is still queued when it next waits; the head and
  the tail of the queue of a discarded page cannot find its object. In `kernel_faults`
  both stop the kernel by an assertion.
- A failed `ss_rmutex_trylock` keeps the meta-lock.
- An overflowing version makes a revoked capability valid (`MaxVersion` equal
  to `VersionLimit`).
- The assertion of `activity_destroy` on inherited frames does not count dirty
  candidates; and a destroyed activity's exclusion stays with its ancestors
  (`Mortal` activities together with `Goals`).
- The pager considers an activity's own memory with one priority and compares
  it with another (`Agreeing = FALSE`).
- `RM_activity_policy` demands a control capability for `child_rel` and not for
  `sibling_rel`.
- `update_stats` adds an activity's own statistics once per child.
- `capalloc` unlinks a full cappage after it released its lock: another thread may
  pluck it, and the assertion that it has a free slot fails, or may free a slot and
  link it a second time. `capfree` of the last slot of a cappage unlocks
  `cappage_descs_lock` twice, which fails the assertion of `pthread_mutex_unlock` with
  a single thread already.
- `memory_reserve` loses the right one of two reservations between which it fills
  the gap, and reads a neighbour that does not exist. `memory_add` rounds up the end
  of a reservation, which is its last byte: where that is the first byte of a page it
  does not advance, or gives the page away, although the memory is to be "added to
  the free pool if and when the reservation expires" (`memory.h`).
- `zalloc`'s assertion that no memory is left when a request is refused fails
  under fragmentation; it reads one element beyond the zones.
- A failing constructor makes `libhurd-slab` give back the wrong address.
- `as_build` fails an assertion for a void slot and an address of too many
  significant bits.
- `storage_free` compares a folio's mode with a constant of another enumeration,
  so that folios for short-lived objects come back to the wrong list;
  `free_count` drifts and its difference wraps.
- `fault` changes the storage tree of a pager under `anon->lock`, `mdestroy` under
  `pager->lock`, and `advise` walks it with neither. A fault goes on with the pager, the
  offset and the access it found before `maps_lock` was dropped: it may install a page
  where none is mapped any more, or a writable one after `mprotect`, or use a pager that
  was freed.
- A fault on a page that has its content calls the fill function of an anonymous
  pager again. `mmap` tests `PROT_READ` where it means `PROT_WRITE`.
- The early returns with `EINVAL` of timed locks, and a barrier for one thread,
  keep a spin lock.
- A second signal to a thread that was just given one by `sigwait` replaces it, and
  unlinks its waiter again through the links it had: another waiter may be dropped, or
  one that has returned be linked again. Without assertions `ss->sigwaiter` is never
  cleared and dangles. A receiver that is stopped while it holds `sig_lock`, which the
  sender has given up by then, waits for itself in `signal_dispatch`;
  a signal that interrupts `sigwait` fails an assertion; taking a default action
  that returns panics.
- A fault in activated mode is dropped, and the thread hangs.
- `THREAD_IDS_MAX` lacks parentheses: there are 32 ids, and the search always
  starts at the first; stopping a thread that never ran commissions it.

## 7. Plan

Done, in this order: user locks, wait queues and blocking calls, the kernel
lock and its threads, the object store, frame accounting, victim selection;
proofs of the locks, the wait queues and versions; then libpthread, the
containers, the allocators of the kernel and of libhurd-mm, address-space
translation and its cached results, thread control, activations, signals, maps.

Then the proofs of the recursive mutex, libpthread's synchronisation and life of
threads, signals, activations, storage, types, tree and quotas of the object
store, the messages that block and wake, the accounting of frames, slabs, bits,
keys, addresses and thread ids, capability slots, the order of victims.

More proofs that could follow: `HashAgrees` and `MemoryAgrees`, with the argument by a
least counterexample for their loops; the modules with recursive operators, if
these are rewritten as recursive functions.

Models that could follow: `PagerSelect` over several levels, `update_stats`, the
EDEADLK branch split into steps without the lock, time-outs and cancellation of
libpthread.
