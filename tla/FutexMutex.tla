----------------------------- MODULE FutexMutex ------------------------------
(***************************************************************************)
(* ss_mutex of hurd/mutex.h, the lock every user-space library of the      *)
(* system is built on, over the futexes the kernel provides (RM_futex in   *)
(* viengoos/server.c).                                                     *)
(*                                                                         *)
(* Each atomic operation on the lock word is one step.  The kernel handles *)
(* a futex message with kernel_lock held, so comparing the word, queueing  *)
(* the caller and waking the head of the queue are one step each.  The     *)
(* kernel pushes waiters on the head of the object's wait queue.           *)
(***************************************************************************)
EXTENDS Naturals, Sequences

CONSTANTS
    Threads,   \* the threads that use the lock
    None,      \* not a thread
    NDEBUG     \* TRUE: built with NDEBUG; the kernel then has no EDEADLK timeout

ASSUME ThreadsAssumption == None \notin Threads
ASSUME NDEBUGAssumption == NDEBUG \in BOOLEAN

_MUTEX_UNLOCKED == 0
_MUTEX_LOCKED == 1
_MUTEX_WAITERS == 2

VARIABLES
    lock,      \* *lockp
    pc,        \* where each thread is in ss_mutex_lock and ss_mutex_unlock
    queue      \* the threads waiting on the futex, the kernel's next to wake first

vars == <<lock, pc, queue>>

(***************************************************************************)
(* "idle"      outside the critical section, not using the lock            *)
(* "exchange"  about to exchange the word with _MUTEX_WAITERS              *)
(* "wait"      about to call futex_wait (lockp, _MUTEX_WAITERS)            *)
(* "sleep"     queued by the kernel, not yet replied to                    *)
(* "cs"        ss_mutex_lock or ss_mutex_trylock has returned              *)
(* "store"     unlocking: the decrement showed that there are waiters      *)
(* "wake"      unlocking: about to call futex_wake (lockp, 1)              *)
(***************************************************************************)
PCs == {"idle", "exchange", "wait", "sleep", "cs", "store", "wake"}

Init == /\ lock = _MUTEX_UNLOCKED
        /\ pc = [t \in Threads |-> "idle"]
        /\ queue = <<>>

Goto(t, label) == pc' = [pc EXCEPT ![t] = label]

\* ss_mutex_lock: the compare and exchange, and the test of what it returned.
Lock(t) ==
    /\ pc[t] = "idle"
    /\ IF lock = _MUTEX_UNLOCKED
       THEN lock' = _MUTEX_LOCKED /\ Goto(t, "cs")
       ELSE /\ Goto(t, IF lock # _MUTEX_WAITERS THEN "exchange" ELSE "wait")
            /\ UNCHANGED lock
    /\ UNCHANGED queue

\* Mutant: a woken thread takes the word as _MUTEX_LOCKED.
Exchange_Locked(t) ==
    /\ pc[t] = "exchange"
    /\ lock' = IF lock = _MUTEX_UNLOCKED THEN _MUTEX_LOCKED ELSE _MUTEX_WAITERS
    /\ Goto(t, IF lock = _MUTEX_UNLOCKED THEN "cs" ELSE "wait")
    /\ UNCHANGED queue

\* Mutant: the loop waits whatever the exchange returned.
Exchange_Untested(t) ==
    /\ pc[t] = "exchange"
    /\ lock' = _MUTEX_WAITERS
    /\ Goto(t, "wait")
    /\ UNCHANGED queue

\* ss_mutex_lock: c = atomic_exchange_acq (lockp, _MUTEX_WAITERS), and the
\* loop's test of c.
Exchange(t) ==
    /\ pc[t] = "exchange"
    /\ lock' = _MUTEX_WAITERS
    /\ Goto(t, IF lock = _MUTEX_UNLOCKED THEN "cs" ELSE "wait")
    /\ UNCHANGED queue

\* futex_wait (lockp, _MUTEX_WAITERS): EWOULDBLOCK if the word has another
\* value, otherwise the kernel queues the thread and does not reply.
FutexWait(t) ==
    /\ pc[t] = "wait"
    /\ IF lock = _MUTEX_WAITERS
       THEN Goto(t, "sleep") /\ queue' = <<t>> \o queue
       ELSE Goto(t, "exchange") /\ UNCHANGED queue
    /\ UNCHANGED lock

\* ss_mutex_unlock: the atomic decrement and the test of the old value.
Decrement(t) ==
    /\ pc[t] = "cs"
    /\ lock' = lock - 1
    /\ Goto(t, IF lock = _MUTEX_LOCKED THEN "idle" ELSE "store")
    /\ UNCHANGED queue

\* Mutant: the lock is handed to the first waiter.
Store_HandOver(t) ==
    /\ pc[t] = "store" /\ queue # <<>>
    /\ lock' = _MUTEX_WAITERS
    /\ pc' = [pc EXCEPT ![t] = "idle", ![Head(queue)] = "cs"]
    /\ queue' = Tail(queue)

\* ss_mutex_unlock: *lockp = 0.
Store(t) ==
    /\ pc[t] = "store"
    /\ lock' = _MUTEX_UNLOCKED
    /\ Goto(t, "wake")
    /\ UNCHANGED queue

\* ss_mutex_unlock: futex_wake (lockp, 1).  The woken thread's futex_wait
\* returns and it exchanges again.
FutexWake(t) ==
    /\ pc[t] = "wake"
    /\ IF queue = <<>>
       THEN Goto(t, "idle") /\ UNCHANGED queue
       ELSE /\ pc' = [pc EXCEPT ![t] = "idle", ![Head(queue)] = "exchange"]
            /\ queue' = Tail(queue)
    /\ UNCHANGED lock

\* ss_mutex_trylock; it changes nothing when it returns false.
TryLock(t) ==
    /\ pc[t] = "idle"
    /\ lock = _MUTEX_UNLOCKED
    /\ lock' = _MUTEX_LOCKED
    /\ Goto(t, "cs")
    /\ UNCHANGED queue

\* server_loop: nothing was received for some seconds; every futex waiter is
\* sent EDEADLK.  ss_mutex_lock prints a warning and exchanges again.
DeadlockTimeout ==
    /\ ~NDEBUG
    /\ queue # <<>>
    /\ queue' = <<>>
    /\ pc' = [t \in Threads |-> IF pc[t] = "sleep" THEN "exchange" ELSE pc[t]]
    /\ UNCHANGED lock

\* What a thread does without being asked to: everything but starting to lock.
Step(t) == \/ Exchange(t) \/ FutexWait(t)
           \/ Decrement(t) \/ Store(t) \/ FutexWake(t)

Next == \/ \E t \in Threads : Lock(t) \/ TryLock(t) \/ Step(t)
        \/ DeadlockTimeout

(***************************************************************************)
(* A thread that is not blocked is eventually scheduled, and a thread that *)
(* holds the lock eventually unlocks it.  Nothing makes a thread lock, and *)
(* nothing relies on the EDEADLK timeout.                                  *)
(***************************************************************************)
Fairness == \A t \in Threads : WF_vars(Step(t))

Spec == Init /\ [][Next]_vars

FairSpec == Spec /\ Fairness
-----------------------------------------------------------------------------
\* The word is one of the three values of hurd/mutex.h; after the decrement
\* of an unlocked word it would not be.
TypeOK ==
    /\ lock \in {_MUTEX_UNLOCKED, _MUTEX_LOCKED, _MUTEX_WAITERS}
    /\ pc \in [Threads -> PCs]
    /\ queue \in Seq(Threads)

\* The threads between acquiring the lock and making the word 0.
Holds(t) == pc[t] \in {"cs", "store"}

(***************************************************************************)
(* ss_mutex_lock and ss_mutex_trylock let one thread in at a time, however *)
(* the decrement, the store and the wake of an unlocking thread interleave *)
(* with the exchanges of the others.                                       *)
(***************************************************************************)
MutualExclusion == \A t, u \in Threads : pc[t] = "cs" /\ pc[u] = "cs" => t = u

(***************************************************************************)
(* No wake-up is lost: while a thread sleeps, either the word tells the    *)
(* holder that it has to wake someone, or some thread is already on its    *)
(* way to wake the sleeper or to set the word again.                       *)
(***************************************************************************)
NoLostWakeup ==
    queue # <<>> => \/ lock = _MUTEX_WAITERS
                    \/ \E t \in Threads : pc[t] \in {"exchange", "store", "wake"}

(***************************************************************************)
(* The kernel's queue holds exactly the sleeping threads, each once.       *)
(***************************************************************************)
QueueOK ==
    /\ \A i \in 1..Len(queue) : pc[queue[i]] = "sleep"
    /\ \A i, j \in 1..Len(queue) : queue[i] = queue[j] => i = j
    /\ \A t \in Threads : pc[t] = "sleep" => \E i \in 1..Len(queue) : queue[i] = t

(***************************************************************************)
(* The mutex is an owned lock: nobody takes it from its owner and nobody   *)
(* but the owner frees it (LockAbs).  The owner gives the lock up when the *)
(* word becomes 0, not when it calls ss_mutex_unlock.                      *)
(***************************************************************************)
Owner == IF \E t \in Threads : Holds(t)
         THEN CHOOSE t \in Threads : Holds(t) ELSE None

Abs == INSTANCE LockAbs WITH owner <- Owner

ImplementsLock == Abs!Spec

(***************************************************************************)
(* The lock is never stuck: whenever a thread waits for it, some thread    *)
(* eventually gets it.  (Not the same one: the queue is LIFO and a         *)
(* running thread may overtake the one that was woken.)                    *)
(***************************************************************************)
Progress == (\E t \in Threads : pc[t] \in {"exchange", "wait", "sleep"})
               ~> (\E t \in Threads : pc[t] = "cs")
=============================================================================
