---------------------------- MODULE PthreadMutex -----------------------------
(***************************************************************************)
(* Mutexes and condition variables of libpthread (sysdeps/generic), in the *)
(* build with assertions, where owner is kept for every type of mutex.     *)
(*                                                                         *)
(* object: type (PTHREAD_MUTEX_...), held, owner, locks and queue of the   *)
(* mutex, and waiters, the queue of a condition variable used with it.     *)
(* holds[t] counts the locks that t has been given and not released.       *)
(***************************************************************************)
EXTENDS PthreadBlock

CONSTANTS
    MutexTypes,     \* a subset of {"normal", "errorcheck", "recursive"}
    MaxLocks        \* bound on the depth of a recursive mutex

ASSUME MaxLocksAssumption == MaxLocks \in Nat \ {0}

Mutex == "mutex"

MutexInit ==
    /\ \E type \in MutexTypes :
          object = [kind |-> Mutex, spin |-> FALSE, type |-> type, held |-> FALSE,
                    owner |-> None, locks |-> 0, queue |-> <<>>, waiters |-> <<>>]
    /\ holds = [t \in Threads |-> 0]

Hold(t, n) == holds' = [holds EXCEPT ![t] = n]

\* The mutex record once t has found it free: __held is set, and the owner.
Taken(t) ==
    Updated([held |-> TRUE, owner |-> t,
             locks |-> IF object.type = "recursive" THEN 1 ELSE object.locks])

\* pthread_mutex_lock and pthread_mutex_trylock of a free mutex.
MutexLockFree(t) ==
    /\ Running(t, Mutex) /\ SpinLock
    /\ ~object.held
    /\ object' = Taken(t)
    /\ Hold(t, 1)
    /\ UNCHANGED <<pc, call, waking>>

\* pthread_mutex_lock and pthread_mutex_trylock by the owner of a recursive
\* mutex.
MutexLockAgain(t) ==
    /\ Running(t, Mutex) /\ SpinLock
    /\ object.held /\ object.type = "recursive" /\ object.owner = t
    /\ object.locks < MaxLocks
    /\ object' = Updated([locks |-> object.locks + 1])
    /\ Hold(t, holds[t] + 1)
    /\ UNCHANGED <<pc, call, waking>>

\* The calls that change nothing: pthread_mutex_lock by the owner of an error
\* checking mutex (EDEADLK), pthread_mutex_trylock of a busy mutex (EBUSY).
MutexBusy(t) ==
    /\ Running(t, Mutex) /\ SpinLock
    /\ object.held
    /\ object.type # "recursive" \/ object.owner # t
    /\ UNCHANGED vars

\* A thread that locks a normal mutex twice breaks an assertion of the code
\* and is not modelled.
MutexMustWait(t) == object.held /\ object.owner # t

\* pthread_mutex_timedlock of a busy mutex with an absolute time that is out
\* of range: EINVAL, and __lock stays locked.
MutexTimedlockInvalid(t) ==
    /\ Running(t, Mutex) /\ SpinLock
    /\ MutexMustWait(t)
    /\ ReturnSpinLocked

\* pthread_mutex_lock of a mutex that another thread holds.
MutexLockBusy(t) ==
    /\ Running(t, Mutex) /\ SpinLock
    /\ MutexMustWait(t)
    /\ object' = Updated([queue |-> Enqueue(object.queue, t)])
    /\ Enqueued(t, "lock")
    /\ UNCHANGED <<waking, holds>>

\* What follows __pthread_block in pthread_mutex_lock: the mutex was handed to
\* this thread.
MutexLockResumed(t) ==
    /\ Resumed(t, "lock")
    /\ object' = Updated([owner |-> IF object.type = "normal" THEN object.owner ELSE t,
                          locks |-> IF object.type = "recursive" THEN 1 ELSE object.locks])
    /\ Hold(t, 1)
    /\ Return(t)
    /\ UNCHANGED waking

\* The last unlock: with no waiter the mutex becomes free, otherwise it stays
\* held and passes to the waiter at the head of the queue.
MutexRelease(t) ==
    /\ object' = IF object.queue = <<>>
                 THEN Updated([held |-> FALSE, owner |-> None, locks |-> 0])
                 ELSE Updated([owner |-> Head(object.queue), locks |-> 0,
                               queue |-> Tail(object.queue)])
    /\ waking' = [waking EXCEPT ![t] = First(object.queue)]

\* pthread_mutex_unlock of a recursive mutex that was locked more than once.
MutexUnlockInner(t) ==
    /\ Running(t, Mutex) /\ SpinLock
    /\ object.owner = t /\ object.locks > 1
    /\ object' = Updated([locks |-> object.locks - 1])
    /\ Hold(t, holds[t] - 1)
    /\ UNCHANGED <<pc, call, waking>>

\* pthread_mutex_unlock by the owner.  (By another thread: EPERM, or a failed
\* assertion for a normal mutex.)
MutexUnlock(t) ==
    /\ Running(t, Mutex) /\ SpinLock
    /\ object.owner = t /\ object.locks <= 1
    /\ MutexRelease(t)
    /\ Hold(t, 0)
    /\ UNCHANGED <<pc, call>>

\* pthread_mutex_transfer_np to a thread that is not waiting for anything.
MutexTransfer(t, u) ==
    /\ Running(t, Mutex) /\ Running(u, Mutex)
    /\ t # u /\ object.owner = t
    /\ object' = Updated([owner |-> u])
    /\ holds' = [holds EXCEPT ![t] = 0, ![u] = holds[t]]
    /\ UNCHANGED <<pc, call, waking>>

\* pthread_cond_wait: the thread joins the waiters while it holds the mutex.
CondWait(t) ==
    /\ Running(t, Mutex)
    /\ object.owner = t /\ holds[t] = 1
    /\ object' = Updated([waiters |-> Enqueue(object.waiters, t)])
    /\ pc' = [pc EXCEPT ![t] = "unlock"]
    /\ call' = [call EXCEPT ![t] = "cond"]
    /\ UNCHANGED <<waking, holds>>

\* pthread_cond_wait: unlocks the mutex; the next thing is __pthread_block.
CondWaitUnlock(t) ==
    /\ pc[t] = "unlock" /\ SpinLock
    /\ MutexRelease(t)
    /\ Hold(t, 0)
    /\ Enqueued(t, "cond")

\* pthread_cond_wait after __pthread_block: the cleanup handler leaves the
\* queue if the thread is still on it and locks the mutex again.
CondWaitResumed(t) ==
    /\ Resumed(t, "cond") /\ SpinLock
    /\ IF object.held
       THEN /\ object' = Updated([queue |-> Enqueue(object.queue, t)])
            /\ Enqueued(t, "lock")
            /\ UNCHANGED holds
       ELSE /\ object' = Taken(t)
            /\ Hold(t, 1)
            /\ Return(t)
    /\ UNCHANGED waking

\* pthread_cond_signal and pthread_cond_broadcast: the first waiter or all of
\* them are dequeued and then woken one after the other.  (Without a waiter they do
\* nothing.)
CondWake(t, woken, left) ==
    /\ Running(t, Mutex)
    /\ object.waiters # <<>>
    /\ object' = Updated([waiters |-> left])
    /\ waking' = [waking EXCEPT ![t] = woken]
    /\ UNCHANGED <<pc, call, holds>>

CondSignal(t) == CondWake(t, First(object.waiters), Others(object.waiters))
CondBroadcast(t) == CondWake(t, object.waiters, <<>>)

MutexNext ==
    \E t \in Threads :
        \/ MutexLockFree(t) \/ MutexLockAgain(t) \/ MutexBusy(t) \/ MutexLockBusy(t)
        \/ MutexTimedlockInvalid(t) \/ MutexLockResumed(t)
        \/ MutexUnlockInner(t) \/ MutexUnlock(t) \/ \E u \in Threads : MutexTransfer(t, u)
        \/ CondWait(t) \/ CondWaitUnlock(t) \/ CondWaitResumed(t)
        \/ CondSignal(t) \/ CondBroadcast(t)

\* The mutex has been handed to t, which has not run since.
HandedTo(t) == call[t] = "lock" /\ t \notin ToSet(object.queue)

\* At most one thread holds the mutex or is about to be given it, and it is
\* the owner; the recursion depth is the owner's number of locks.
MutexExclusion ==
    object.kind = Mutex =>
        /\ \A t \in Threads : (holds[t] > 0 \/ HandedTo(t)) <=> object.owner = t
        /\ object.held <=> object.owner # None
        /\ object.type = "recursive" /\ object.owner # None
              => object.locks = holds[object.owner]

\* The assertions of the mutex functions hold where they are evaluated.
MutexAssertions ==
    object.kind = Mutex =>
        /\ ~object.held => object.owner = None
        /\ \A t \in Threads : Resumed(t, "lock") =>
              object.owner = t /\ (object.type = "recursive" => object.locks = 0)

MutexQueues == IF object.kind = Mutex THEN {object.queue, object.waiters} ELSE {}
=============================================================================
