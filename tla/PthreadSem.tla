----------------------------- MODULE PthreadSem ------------------------------
(***************************************************************************)
(* Semaphores, barriers and pthread_once of libpthread (sysdeps/generic).  *)
(*                                                                         *)
(* A semaphore has value and queue; posted counts what was ever put in it. *)
(* A barrier has count, pending and queue; arrived counts the calls and    *)
(* serial the returns of PTHREAD_BARRIER_SERIAL_THREAD.  A once control    *)
(* has run and its lock; routines counts the calls of the init routine.    *)
(* holds[t] counts the calls of t that returned with success.              *)
(***************************************************************************)
EXTENDS PthreadBlock

CONSTANTS
    SemValues,      \* initial values of the semaphore
    BarrierCounts,  \* values of the barrier's count
    MaxCalls        \* bound on the posts, and on each thread's waits

ASSUME SemAssumption ==
    /\ SemValues \subseteq Nat
    /\ BarrierCounts \subseteq Nat \ {0}
    /\ MaxCalls \in Nat

Sem == "sem"
Barrier == "barrier"
Once == "once"

\* sem_init, pthread_barrier_init and PTHREAD_ONCE_INIT.
SemInit ==
    /\ \/ \E v \in SemValues :
              object = [kind |-> Sem, spin |-> FALSE, value |-> v, queue |-> <<>>, posted |-> v]
       \/ \E c \in BarrierCounts :
              object = [kind |-> Barrier, spin |-> FALSE, count |-> c, pending |-> c,
                        queue |-> <<>>, arrived |-> 0, serial |-> 0]
       \/ object = [kind |-> Once, spin |-> FALSE, run |-> FALSE, routines |-> 0]
    /\ holds = [t \in Threads |-> 0]

MayCall(t, k) == Running(t, k) /\ holds[t] < MaxCalls

Count(t) == holds' = [holds EXCEPT ![t] = @ + 1]

-----------------------------------------------------------------------------
\* sem_wait and sem_trywait with a positive value.  (sem_trywait of 0 returns
\* EAGAIN and changes nothing, as do sem_getvalue and sem_destroy.)
SemDown(t) ==
    /\ MayCall(t, Sem) /\ SpinLock
    /\ object.value > 0
    /\ object' = Updated([value |-> object.value - 1])
    /\ Count(t)
    /\ UNCHANGED <<pc, call, waking>>

\* sem_wait with value 0.
SemWait(t) ==
    /\ MayCall(t, Sem) /\ SpinLock
    /\ object.value = 0
    /\ object' = Updated([queue |-> Enqueue(object.queue, t)])
    /\ Enqueued(t, "sem")
    /\ UNCHANGED <<waking, holds>>

\* sem_timedwait that must wait, with an absolute time out of range: EINVAL,
\* and __lock stays locked.
SemTimedwaitInvalid(t) ==
    /\ MayCall(t, Sem) /\ SpinLock
    /\ object.value = 0
    /\ ReturnSpinLocked

\* sem_post: the value goes up only if nobody waits; otherwise the unit goes
\* to the head of the queue.
SemUp(t) ==
    /\ object' = IF object.value > 0 \/ object.queue = <<>>
                 THEN Updated([value |-> object.value + 1, posted |-> object.posted + 1])
                 ELSE Updated([queue |-> Tail(object.queue), posted |-> object.posted + 1])
    /\ waking' = [waking EXCEPT ![t] =
                     IF object.value > 0 THEN <<>> ELSE First(object.queue)]

SemPost(t) ==
    /\ Running(t, Sem) /\ SpinLock
    /\ object.posted < MaxCalls
    /\ SemUp(t)
    /\ UNCHANGED <<pc, call, holds>>

-----------------------------------------------------------------------------
\* pthread_barrier_wait by a thread that is not the last of its round.
BarrierWait(t) ==
    /\ MayCall(t, Barrier) /\ SpinLock
    /\ object.pending > 1
    /\ object' = Updated([pending |-> object.pending - 1, arrived |-> object.arrived + 1,
                          queue |-> Enqueue(object.queue, t)])
    /\ Enqueued(t, "barrier")
    /\ UNCHANGED <<waking, holds>>

\* Mutant: pending is not set again at the end of the round.
BarrierRound_NotReset == [pending |-> 1, queue |-> <<>>]

\* What the last thread of a round leaves for the next one.
BarrierRound == [pending |-> object.count, queue |-> <<>>]

\* pthread_barrier_wait by the last thread of the round.  With a count of 1
\* it returns without unlocking the barrier's spin lock.
BarrierLast(t) ==
    /\ MayCall(t, Barrier) /\ SpinLock
    /\ object.pending = 1
    /\ object' = With(Updated([arrived |-> object.arrived + 1, serial |-> object.serial + 1,
                               spin |-> object.count = 1]), BarrierRound)
    /\ waking' = [waking EXCEPT ![t] = object.queue]
    /\ Count(t)
    /\ UNCHANGED <<pc, call>>

\* The return of a sem_wait or pthread_barrier_wait that had to wait.
SemResumed(t) ==
    /\ object.kind \in {Sem, Barrier}
    /\ pc[t] = "resumed"
    /\ Count(t)
    /\ Return(t)
    /\ UNCHANGED <<object, waking>>

-----------------------------------------------------------------------------
\* pthread_once, when the first test of run finds it set.
OnceDone(t) ==
    /\ MayCall(t, Once)
    /\ object.run
    /\ Count(t)
    /\ UNCHANGED <<object, pc, call, waking>>

\* pthread_once, when it does not: the thread goes for the lock.
OnceTest(t) ==
    /\ MayCall(t, Once)
    /\ ~object.run
    /\ pc' = [pc EXCEPT ![t] = "oncelock"]
    /\ UNCHANGED <<object, call, waking, holds>>

\* pthread_once with the lock: the init routine is called if run is still 0.
OnceLock(t) ==
    /\ pc[t] = "oncelock" /\ SpinLock
    /\ IF ~object.run
       THEN /\ object' = Updated([spin |-> TRUE, routines |-> object.routines + 1])
            /\ pc' = [pc EXCEPT ![t] = "onceinit"]
            /\ UNCHANGED holds
       ELSE /\ pc' = [pc EXCEPT ![t] = "run"]
            /\ Count(t)
            /\ UNCHANGED object
    /\ UNCHANGED <<call, waking>>

\* pthread_once after the init routine.
OnceUnlock(t) ==
    /\ pc[t] = "onceinit"
    /\ object' = Updated([spin |-> FALSE, run |-> TRUE])
    /\ pc' = [pc EXCEPT ![t] = "run"]
    /\ Count(t)
    /\ UNCHANGED <<call, waking>>

SemNext ==
    \E t \in Threads :
        \/ SemDown(t) \/ SemWait(t) \/ SemTimedwaitInvalid(t) \/ SemPost(t)
        \/ BarrierWait(t) \/ BarrierLast(t) \/ SemResumed(t)
        \/ OnceDone(t) \/ OnceTest(t) \/ OnceLock(t) \/ OnceUnlock(t)

\* The calls that returned, and those that will without waiting any more.
Granted ==
    Cardinality({c \in Threads \X (1..MaxCalls) : c[2] <= holds[c[1]]})
    + Cardinality({t \in Threads : call[t] # "none" /\ t \notin ToSet(object.queue)})

\* A semaphore gives out exactly the units put in; nobody is let out of a
\* barrier before count threads have arrived, and the count-th lets them all
\* out; a once routine is called once, and has been when any caller returns.
SemExclusion ==
    /\ object.kind = Sem => object.value + Granted = object.posted
    /\ object.kind = Barrier =>
          /\ Granted = object.count * (object.arrived \div object.count)
          /\ object.serial = object.arrived \div object.count
    /\ object.kind = Once =>
          /\ object.routines <= 1
          /\ \A t \in Threads : holds[t] > 0 => object.run

\* The assertion of sem_post, and what makes pending meaningful: the threads
\* that wait are those that have arrived in this round.
SemAssertions ==
    /\ object.kind = Sem => (object.value > 0 => object.queue = <<>>)
    /\ object.kind = Barrier => object.pending + Len(object.queue) = object.count

SemQueues == IF object.kind \in {Sem, Barrier} THEN {object.queue} ELSE {}
=============================================================================
