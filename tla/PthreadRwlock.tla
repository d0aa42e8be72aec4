---------------------------- MODULE PthreadRwlock ----------------------------
(***************************************************************************)
(* Readers-writer locks of libpthread (sysdeps/generic/pt-rwlock-*.c).     *)
(*                                                                         *)
(* object: held, readers, readerqueue, writerqueue.  holds[t] is what the  *)
(* calls that returned have given t: "no", "read" or "write".              *)
(***************************************************************************)
EXTENDS PthreadBlock

Rwlock == "rwlock"

RwlockInit ==
    /\ object = [kind |-> Rwlock, spin |-> FALSE, held |-> FALSE, readers |-> 0,
                 readerqueue |-> <<>>, writerqueue |-> <<>>]
    /\ holds = [t \in Threads |-> "no"]

\* A thread that holds the lock asks for nothing more: it would wait for
\* itself.
MayLock(t) == Running(t, Rwlock) /\ SpinLock /\ holds[t] = "no"

Given(t, mode) == holds' = [holds EXCEPT ![t] = mode]

\* pthread_rwlock_rdlock and pthread_rwlock_tryrdlock of a lock that is free
\* or that readers hold.
Rdlock(t) ==
    /\ MayLock(t)
    /\ ~object.held \/ object.readers > 0
    /\ object' = Updated([held |-> TRUE, readers |-> object.readers + 1])
    /\ Given(t, "read")
    /\ UNCHANGED <<pc, call, waking>>

\* pthread_rwlock_wrlock and pthread_rwlock_trywrlock of a free lock.
Wrlock(t) ==
    /\ MayLock(t)
    /\ ~object.held
    /\ object' = Updated([held |-> TRUE])
    /\ Given(t, "write")
    /\ UNCHANGED <<pc, call, waking>>

RdlockMustWait == object.held /\ object.readers = 0

\* pthread_rwlock_timedrdlock and pthread_rwlock_timedwrlock that must wait,
\* with an absolute time out of range: EINVAL, and __lock stays locked.
RwlockTimedlockInvalid(t) ==
    /\ MayLock(t)
    /\ object.held
    /\ ReturnSpinLocked

\* pthread_rwlock_rdlock of a lock that a writer holds.
RdlockBusy(t) ==
    /\ MayLock(t)
    /\ RdlockMustWait
    /\ object' = Updated([readerqueue |-> Enqueue(object.readerqueue, t)])
    /\ Enqueued(t, "read")
    /\ UNCHANGED <<waking, holds>>

\* pthread_rwlock_wrlock of a lock that is held.
WrlockBusy(t) ==
    /\ MayLock(t)
    /\ object.held
    /\ object' = Updated([writerqueue |-> Enqueue(object.writerqueue, t)])
    /\ Enqueued(t, "write")
    /\ UNCHANGED <<waking, holds>>

\* The return of a rdlock or wrlock that had to wait: whoever woke it has
\* already counted it.
RwlockResumed(t) ==
    /\ object.kind = Rwlock
    /\ pc[t] = "resumed"
    /\ Given(t, call[t])
    /\ Return(t)
    /\ UNCHANGED <<object, waking>>

\* Mutant: the readers are woken before they are counted.
RwlockWakeReaders_NotCounted(t) ==
    /\ object.readers <= 1 /\ object.writerqueue = <<>> /\ object.readerqueue # <<>>
    /\ object' = Updated([readers |-> 0, readerqueue |-> <<>>])
    /\ waking' = [waking EXCEPT ![t] = object.readerqueue]

\* pthread_rwlock_unlock with readers but no writer waiting: all of them get
\* the lock.
RwlockWakeReaders(t) ==
    /\ object.readers <= 1 /\ object.writerqueue = <<>> /\ object.readerqueue # <<>>
    /\ object' = Updated([readers |-> Len(object.readerqueue), readerqueue |-> <<>>])
    /\ waking' = [waking EXCEPT ![t] = object.readerqueue]

\* pthread_rwlock_unlock with a writer waiting: it gets the lock.
RwlockWakeWriter(t) ==
    /\ object.readers <= 1 /\ object.writerqueue # <<>>
    /\ object' = Updated([readers |-> 0, writerqueue |-> Tail(object.writerqueue)])
    /\ waking' = [waking EXCEPT ![t] = <<Head(object.writerqueue)>>]

\* pthread_rwlock_unlock with other readers, or with nobody waiting.
RwlockRelease ==
    /\ \/ object.readers > 1 /\ object' = Updated([readers |-> object.readers - 1])
       \/ /\ object.readers <= 1 /\ object.writerqueue = <<>> /\ object.readerqueue = <<>>
          /\ object' = Updated([readers |-> 0, held |-> FALSE])
    /\ UNCHANGED waking

RwlockUnlock(t) ==
    /\ Running(t, Rwlock) /\ SpinLock
    /\ holds[t] # "no"
    /\ RwlockWakeReaders(t) \/ RwlockWakeWriter(t) \/ RwlockRelease
    /\ Given(t, "no")
    /\ UNCHANGED <<pc, call>>

RwlockNext ==
    \E t \in Threads :
        \/ Rdlock(t) \/ Wrlock(t) \/ RdlockBusy(t) \/ WrlockBusy(t)
        \/ RwlockTimedlockInvalid(t) \/ RwlockResumed(t) \/ RwlockUnlock(t)

\* The threads that have the lock in this mode: the call returned, or will
\* without waiting any more.
Has(mode) ==
    {t \in Threads : \/ holds[t] = mode
                     \/ /\ call[t] = mode
                        /\ t \notin ToSet(object.readerqueue) \cup ToSet(object.writerqueue)}

\* Readers exclude a writer, a writer everybody; the reader count and __held
\* say who has the lock.
RwlockExclusion ==
    object.kind = Rwlock =>
        /\ Cardinality(Has("write")) <= 1
        /\ Has("write") # {} => Has("read") = {}
        /\ object.readers = Cardinality(Has("read"))
        /\ object.held <=> Has("read") \cup Has("write") # {}

\* The assertions of the readers-writer lock functions.
RwlockAssertions ==
    object.kind = Rwlock =>
        /\ ~object.held => /\ object.readers = 0
                           /\ object.readerqueue = <<>> /\ object.writerqueue = <<>>
        /\ object.readers > 0 => object.readerqueue = <<>>
        /\ \A t \in Threads : /\ Resumed(t, "read") => object.readers > 0
                              /\ Resumed(t, "write") => object.readers = 0

RwlockQueues ==
    IF object.kind = Rwlock THEN {object.readerqueue, object.writerqueue} ELSE {}
=============================================================================
