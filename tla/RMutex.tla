------------------------------- MODULE RMutex --------------------------------
(***************************************************************************)
(* ss_rmutex of hurd/rmutex.h: the recursive mutex, made of an ss_mutex    *)
(* (the meta-lock, here the owned lock of LockAbs that FutexMutex          *)
(* implements), an owner and a count that doubles as the futex waiters     *)
(* sleep on and whose sign says whether there may be waiters.              *)
(*                                                                         *)
(* The fields are read and written with the meta-lock held, except that    *)
(* the kernel compares the count on behalf of futex_wait.                  *)
(***************************************************************************)
EXTENDS Integers, Sequences

CONSTANTS
    Threads,      \* the threads that use the lock
    None,         \* l4_nilthread
    NDEBUG,       \* TRUE: no EDEADLK timeout in the kernel
    MaxDepth,     \* bound on how deep a thread nests the lock
    UseTryLock    \* whether the threads call ss_rmutex_trylock

ASSUME NoneAssumption == None \notin Threads
ASSUME BoundAssumption == MaxDepth \in Nat \ {0} /\ {NDEBUG, UseTryLock} \subseteq BOOLEAN

VARIABLES
    meta,         \* who holds lockp->lock
    count,        \* lockp->count
    owner,        \* lockp->owner
    pc,           \* where each thread is
    cont,         \* where it goes on after unlocking the meta-lock
    val,          \* the local copy of count in ss_rmutex_lock
    depth,        \* how many locks minus unlocks of each thread have returned
    queue         \* the waiters on &lockp->count, next to wake first

vars == <<meta, count, owner, pc, cont, val, depth, queue>>

(***************************************************************************)
(* "idle"     not in a function of rmutex.h                                *)
(* "Lock", "Unlock"  about to take the meta-lock                           *)
(* "lock", "unlock", "try"  holds the meta-lock, about to look at owner    *)
(* "release"  about to unlock the meta-lock                                *)
(* "wait", "wake"    about to call futex_wait, futex_wake                  *)
(* "sleep"    queued by the kernel                                         *)
(***************************************************************************)
PCs == {"idle", "Lock", "Unlock", "lock", "unlock", "try",
        "release", "wait", "wake", "sleep"}

Init == /\ meta = None /\ count = 0 /\ owner = None
        /\ pc = [t \in Threads |-> "idle"]
        /\ cont = [t \in Threads |-> "idle"]
        /\ val = [t \in Threads |-> 0]
        /\ depth = [t \in Threads |-> 0]
        /\ queue = <<>>

Goto(t, label) == pc' = [pc EXCEPT ![t] = label]
Release(t, label) == Goto(t, "release") /\ cont' = [cont EXCEPT ![t] = label]

\* The count one level deeper, and one level less deep; the sign is kept.
Deeper == IF count > 0 THEN count + 1 ELSE count - 1
Shallower == IF count > 0 THEN count - 1 ELSE count + 1

\* A thread decides to lock, or to unlock what it has locked.
Call(t) ==
    /\ pc[t] = "idle"
    /\ \/ depth[t] < MaxDepth /\ Goto(t, "Lock")
       \/ depth[t] > 0 /\ Goto(t, "Unlock")
    /\ UNCHANGED <<meta, count, owner, cont, val, depth, queue>>

\* ss_mutex_lock (&lockp->lock)
AcquireMeta(t) ==
    /\ meta = None
    /\ meta' = t
    /\ \/ pc[t] = "Lock" /\ Goto(t, "lock")
       \/ pc[t] = "Unlock" /\ Goto(t, "unlock")
    /\ UNCHANGED <<count, owner, cont, val, depth, queue>>

\* ss_mutex_unlock (&lockp->lock)
ReleaseMeta(t) ==
    /\ pc[t] = "release"
    /\ meta' = None
    /\ Goto(t, cont[t])
    /\ UNCHANGED <<count, owner, cont, val, depth, queue>>

\* Mutant: the nesting of a lock with waiters is counted the wrong way.
LockAgain_Sign(t) ==
    /\ owner = t
    /\ count' = count + 1
    /\ depth' = [depth EXCEPT ![t] = @ + 1]
    /\ Release(t, "idle")
    /\ UNCHANGED <<meta, owner, val, queue>>

\* The caller already owns the lock: once more.
LockAgain(t) ==
    /\ owner = t
    /\ count' = Deeper
    /\ depth' = [depth EXCEPT ![t] = @ + 1]
    /\ Release(t, "idle")
    /\ UNCHANGED <<meta, owner, val, queue>>

\* Nobody owns the lock: take it.
LockFree(t) ==
    /\ owner = None
    /\ count' = 1
    /\ owner' = t
    /\ depth' = [depth EXCEPT ![t] = @ + 1]
    /\ Release(t, "idle")
    /\ UNCHANGED <<meta, val, queue>>

\* Mutant: a waiter does not leave its mark on the count.
LockBusy_NoMark(t) ==
    /\ owner \notin {t, None}
    /\ val' = [val EXCEPT ![t] = count]
    /\ Release(t, "wait")
    /\ UNCHANGED <<meta, owner, depth, queue, count>>

\* Somebody else owns it: note that there are waiters and remember the count.
LockBusy(t) ==
    /\ owner \notin {t, None}
    /\ count' = IF count > 0 THEN -count ELSE count
    /\ val' = [val EXCEPT ![t] = count']
    /\ Release(t, "wait")
    /\ UNCHANGED <<meta, owner, depth, queue>>

\* ss_rmutex_lock, between taking and unlocking the meta-lock.
LockBody(t) == pc[t] = "lock" /\ (LockAgain(t) \/ LockFree(t) \/ LockBusy(t))

\* futex_wait (&lockp->count, count), and around the loop.
FutexWait(t) ==
    /\ pc[t] = "wait"
    /\ IF count = val[t]
       THEN Goto(t, "sleep") /\ queue' = <<t>> \o queue
       ELSE Goto(t, "Lock") /\ UNCHANGED queue
    /\ UNCHANGED <<meta, count, owner, cont, val, depth>>

\* ss_rmutex_unlock, between taking and unlocking the meta-lock.
UnlockBody(t) ==
    /\ pc[t] = "unlock"
    /\ count' = Shallower
    /\ owner' = IF count' = 0 THEN None ELSE owner
    /\ depth' = [depth EXCEPT ![t] = @ - 1]
    /\ Release(t, IF count' = 0 /\ count < 0 THEN "wake" ELSE "idle")
    /\ UNCHANGED <<meta, val, queue>>

\* futex_wake (&lockp->count, 1); the woken thread goes around its loop.
FutexWake(t) ==
    /\ pc[t] = "wake"
    /\ IF queue = <<>>
       THEN Goto(t, "idle") /\ UNCHANGED queue
       ELSE /\ pc' = [pc EXCEPT ![t] = "idle", ![Head(queue)] = "Lock"]
            /\ queue' = Tail(queue)
    /\ UNCHANGED <<meta, count, owner, cont, val, depth>>

\* ss_rmutex_trylock: ss_mutex_trylock (&lockp->lock).  When it fails,
\* ss_rmutex_trylock returns false and nothing has changed.
TryMeta(t) ==
    /\ UseTryLock
    /\ pc[t] = "idle" /\ depth[t] < MaxDepth
    /\ meta = None
    /\ meta' = t
    /\ Goto(t, "try")
    /\ UNCHANGED <<count, owner, cont, val, depth, queue>>

\* ss_rmutex_trylock, with the meta-lock.  When another thread owns the lock
\* it returns false without unlocking the meta-lock.
TryBody(t) ==
    /\ pc[t] = "try"
    /\ \/ LockAgain(t)
       \/ LockFree(t)
       \/ /\ owner \notin {t, None}
          /\ Goto(t, "idle")
          /\ UNCHANGED <<meta, count, owner, cont, val, depth, queue>>

\* server_loop: every futex waiter is sent EDEADLK.
DeadlockTimeout ==
    /\ ~NDEBUG
    /\ queue # <<>>
    /\ queue' = <<>>
    /\ pc' = [t \in Threads |-> IF pc[t] = "sleep" THEN "Lock" ELSE pc[t]]
    /\ UNCHANGED <<meta, count, owner, cont, val, depth>>

\* What a thread does once it has called a function of rmutex.h.
Step(t) == \/ AcquireMeta(t) \/ ReleaseMeta(t) \/ LockBody(t) \/ FutexWait(t)
           \/ UnlockBody(t) \/ FutexWake(t) \/ TryBody(t)

Next == \/ \E t \in Threads : Call(t) \/ TryMeta(t) \/ Step(t)
        \/ DeadlockTimeout

Spec == Init /\ [][Next]_vars

(***************************************************************************)
(* A thread that runs is scheduled; the meta-lock is not withheld from a   *)
(* thread that asks for it while it is free again and again; an owner does *)
(* not stop inside the lock, and if it comes back to its outermost level   *)
(* again and again it eventually leaves it.                                *)
(***************************************************************************)
CallUnlock(t) == Call(t) /\ pc'[t] = "Unlock"
Leave(t) == depth[t] = 1 /\ CallUnlock(t)

FairSpec ==
    /\ Spec
    /\ \A t \in Threads : /\ WF_vars(Step(t)) /\ SF_vars(AcquireMeta(t))
                          /\ WF_vars(CallUnlock(t)) /\ SF_vars(Leave(t))
-----------------------------------------------------------------------------
(***************************************************************************)
(* The count is, up to its sign, the nesting depth of the owner, and no    *)
(* other thread is inside the lock: mutual exclusion, and an inner unlock  *)
(* never frees the lock, even when waiters turned the count negative       *)
(* between the owner's calls.  The assertions of rmutex.h hold: a lock is  *)
(* without owner exactly when the count is 0, and only the owner unlocks.  *)
(***************************************************************************)
RecursionBalanced ==
    /\ \A t \in Threads : depth[t] = IF owner = t THEN (IF count < 0 THEN -count ELSE count)
                                     ELSE 0
    /\ owner = None <=> count = 0
    /\ \A t \in Threads : pc[t] = "unlock" => owner = t

(***************************************************************************)
(* While threads wait, the owner knows of them: the comment of             *)
(* ss_rmutex_lock says "Negative means there may be waiters", so when      *)
(* every thread is outside rmutex.h or asleep, and one is asleep, the      *)
(* count is negative and the last unlock will wake the sleeper.            *)
(***************************************************************************)
NegativeMeansWaiters ==
    queue # <<>> /\ (\A t \in Threads : pc[t] \in {"idle", "sleep"}) => count < 0

(***************************************************************************)
(* With two threads, a thread that sleeps in ss_rmutex_lock is woken, or a *)
(* failed ss_rmutex_trylock has kept the meta-lock: no wake-up is lost     *)
(* between the unlock of the meta-lock and the futex_wait, nor while the   *)
(* owner nests and unnests the lock.                                       *)
(***************************************************************************)
Kept == meta # None /\ pc[meta] \in {"idle", "Lock", "Unlock"}

SleeperWoken == \A t \in Threads : pc[t] = "sleep" ~> pc[t] # "sleep" \/ Kept
=============================================================================
