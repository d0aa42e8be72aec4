------------------------------- MODULE Pthread -------------------------------
(***************************************************************************)
(* The synchronisation objects of libpthread, any one of them shared by    *)
(* the threads, with the sleeping and waking they have in common.          *)
(***************************************************************************)
EXTENDS PthreadMutex, PthreadRwlock, PthreadSem, PthreadLife

Init ==
    /\ MutexInit \/ RwlockInit \/ SemInit \/ LifeInit
    /\ pc = [t \in Threads |-> "run"]
    /\ call = [t \in Threads |-> "none"]
    /\ waking = [t \in Threads |-> <<>>]

Next ==
    \/ MutexNext \/ RwlockNext \/ SemNext \/ LifeNext
    \/ \E t \in Threads : Block(t) \/ Wakeup(t)

\* A thread that is inside the library and not waiting for another one goes
\* on: the kernel schedules every thread that can run.
Fairness ==
    \A t \in Threads : WF_vars(Block(t)) /\ WF_vars(Wakeup(t)) /\ WF_vars(CondWaitUnlock(t))
                       /\ WF_vars(CreateSteps(t) \/ ExitSteps(t) \/ ReapSteps(t))

Spec == Init /\ [][Next]_vars /\ Fairness

-----------------------------------------------------------------------------
\* Whatever the object, it gives the threads what its functions promise, no
\* more and no less, at every moment of a hand-over: the record that the
\* functions keep (owner, locks, readers, value, pending, run) says exactly
\* what the callers believe.
Exclusion == MutexExclusion /\ RwlockExclusion /\ SemExclusion

\* The assertions written in the functions hold wherever they are evaluated,
\* also the ones evaluated after the spin lock was dropped.
Assertions == MutexAssertions /\ RwlockAssertions /\ SemAssertions

Queues == MutexQueues \cup RwlockQueues \cup SemQueues

\* A thread that gave up the processor in a blocking call is on exactly one
\* queue or one list of threads to be woken, once, and nobody else is: it is
\* not forgotten, not woken twice and not woken in some later call.  And nobody
\* waits while what it waits for is there to be taken.
NobodyForgotten ==
    /\ \A q \in Queues : IsInjective(q)
    /\ \A t \in Threads : IsInjective(waking[t])
    /\ \A u \in Threads :
          LET on == {q \in Queues : u \in ToSet(q)} IN
          Cardinality(on) + Cardinality(InList(u))
              = IF Sleeping(u) \/ pc[u] = "unlock" THEN 1 ELSE 0
    /\ object.kind = Mutex /\ object.queue # <<>> => object.held
    /\ object.kind = Rwlock /\ object.writerqueue # <<>> => object.held
    /\ object.kind = Rwlock /\ object.readerqueue # <<>> => object.held /\ object.readers = 0

\* A dequeued thread runs again: its waker's loop ends, also when the waker is
\* a thread that still has others to wake, or is itself about to sleep.  (Not
\* so once an early return has left the mutex's spin lock locked.)
Woken ==
    \A t, u \in Threads :
        (u \in ToSet(waking[t])) ~> (u \notin ToSet(waking[t]) \/ object.spin)

\* What a thread consists of belongs to it as long as it needs it and to nobody
\* afterwards, and the total of threads counts each of them once.
LivesWell == CountedOnce /\ ResourcesOwned

\* Whoever can go on does: dequeued threads, and those who join a thread that
\* has exited.
GoesOn == Woken /\ JoinReturns
=============================================================================
