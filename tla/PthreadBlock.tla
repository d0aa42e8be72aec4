---------------------------- MODULE PthreadBlock -----------------------------
(***************************************************************************)
(* What every blocking object of libpthread is built from: the queues of   *)
(* struct __pthread (libpthread/pthread/pt-internal.h) and the pair        *)
(* __pthread_block / __pthread_wakeup (libpthread/sysdeps/viengoos).       *)
(*                                                                         *)
(* A blocking call enqueues the thread while it holds the object's spin    *)
(* lock, drops the spin lock and only then sleeps on the futex that is its *)
(* own thread id.  Whoever dequeues the thread must wake it exactly once,  *)
(* and repeats futex_wake until it returns 1, because the thread may still *)
(* be on its way to sleep.  What is done under a spin lock is one step.    *)
(*                                                                         *)
(* The object is a record with the fields kind (which of the objects the   *)
(* instance is about) and spin (TRUE: its spin lock is locked between two  *)
(* steps).  The modules that extend this one say what else it holds.       *)
(***************************************************************************)
EXTENDS Naturals, Sequences, FiniteSets, SequencesExt

CONSTANTS
    Threads,
    None        \* NULL, where a thread may be named

ASSUME NoneNotThread == None \notin Threads
ASSUME ThreadsFinite == IsFiniteSet(Threads) /\ Threads # {}

VARIABLES
    object,     \* the object the threads share
    pc,         \* where each thread is
    call,       \* the blocking call it is in
    waking,     \* waking[t]: dequeued threads that t has yet to wake
    holds       \* what the calls that returned have given each thread

vars == <<object, pc, call, waking, holds>>

\* A record with other values of some of its fields.
With(r, fields) == [f \in DOMAIN r |-> IF f \in DOMAIN fields THEN fields[f] ELSE r[f]]
Updated(fields) == With(object, fields)

\* The thread is between two calls (or two steps of a call) on an object of
\* kind k.
Running(t, k) ==
    object.kind = k /\ pc[t] = "run" /\ waking[t] = <<>>

\* __pthread_spin_lock: goes on only once the spin lock is free.
SpinLock == ~object.spin

\* __pthread_enqueue: the new thread becomes the head of the queue.
Enqueue(queue, t) == <<t>> \o queue

\* The thread at the head of a queue, if any, and the others.
First(queue) == IF queue = <<>> THEN <<>> ELSE <<Head(queue)>>
Others(queue) == IF queue = <<>> THEN <<>> ELSE Tail(queue)

\* The end of a blocking call's critical section: t is on a queue, the spin
\* lock is dropped and __pthread_block comes next.
Enqueued(t, c) ==
    /\ pc' = [pc EXCEPT ![t] = "enqueued"]
    /\ call' = [call EXCEPT ![t] = c]

\* Mutant: pthread_cond_wait sleeps before it wakes the thread that it has
\* handed the mutex to.
Block_BeforeWaking(t) ==
    /\ pc[t] = "enqueued"
    /\ pc' = [pc EXCEPT ![t] = "asleep"]
    /\ UNCHANGED <<object, call, waking, holds>>

\* __pthread_block (and __pthread_timedblock, which ignores its timeout).
Block(t) ==
    /\ pc[t] = "enqueued"
    /\ waking[t] = <<>>
    /\ pc' = [pc EXCEPT ![t] = "asleep"]
    /\ UNCHANGED <<object, call, waking, holds>>

\* Mutant: a futex_wake that finds nobody asleep is not repeated.
Wakeup_Once(t) ==
    /\ waking[t] # <<>>
    /\ LET u == Head(waking[t]) IN
       pc' = IF pc[u] = "asleep" THEN [pc EXCEPT ![u] = "resumed"] ELSE pc
    /\ waking' = [waking EXCEPT ![t] = Tail(@)]
    /\ UNCHANGED <<object, call, holds>>

\* __pthread_wakeup of the next thread of the list that t walks.
Wakeup(t) ==
    /\ waking[t] # <<>> /\ pc[t] # "asleep"
    /\ LET u == Head(waking[t]) IN
       /\ pc[u] = "asleep"
       /\ pc' = [pc EXCEPT ![u] = "resumed"]
    /\ waking' = [waking EXCEPT ![t] = Tail(@)]
    /\ UNCHANGED <<object, call, holds>>

\* The thread's blocking call c has been woken.
Resumed(t, c) == pc[t] = "resumed" /\ call[t] = c

\* A blocking call returns.
Return(t) ==
    /\ pc' = [pc EXCEPT ![t] = "run"]
    /\ call' = [call EXCEPT ![t] = "none"]

\* The call of an object that leaves its spin lock locked, because a path of
\* the function returns without unlocking it.
ReturnSpinLocked ==
    /\ object' = Updated([spin |-> TRUE])
    /\ UNCHANGED <<pc, call, waking, holds>>

Sleeping(t) == pc[t] \in {"enqueued", "asleep"}

InList(u) == {t \in Threads : u \in ToSet(waking[t])}
=============================================================================
