----------------------------- MODULE KernelMutex -----------------------------
(***************************************************************************)
(* The mutex of the kernel itself (viengoos/mutex.h, hurd/lock.h), which   *)
(* protects all kernel data as kernel_lock.  It is one word: the id of the *)
(* thread that tried to take it last, or nil.  A thread that does not get  *)
(* the lock waits for a message; one that releases it sends the message to *)
(* the thread it finds in the word.  L4 sends are synchronous: the sender  *)
(* waits until the target receives.                                        *)
(***************************************************************************)
CONSTANTS
    Tasks,     \* the kernel threads: the server loop and the ager
    Nil        \* l4_nilthread

ASSUME NilAssumption == Nil \notin Tasks

VARIABLES
    klock,     \* the word
    kpc,       \* where each thread is
    target     \* the thread each sender sends to

mutexVars == <<klock, kpc, target>>

KPCs == {"idle", "exchange", "receive", "cs", "send", "aborted"}

MutexInit ==
    /\ klock = Nil
    /\ kpc = [t \in Tasks |-> "idle"]
    /\ target = [t \in Tasks |-> Nil]

\* A thread calls ss_mutex_lock.
KLock(t) ==
    /\ kpc[t] = "idle"
    /\ kpc' = [kpc EXCEPT ![t] = "exchange"]
    /\ UNCHANGED <<klock, target>>

\* Mutant: a compare and exchange that does not leave the waiter's id.
KExchange_NoTrace(t) ==
    /\ kpc[t] = "exchange"
    /\ klock' = IF klock = Nil THEN t ELSE klock
    /\ kpc' = [kpc EXCEPT ![t] = IF klock = Nil THEN "cs" ELSE "receive"]
    /\ UNCHANGED target

\* ss_mutex_lock: the atomic exchange, the test of the owner it returns and
\* the assertion that the caller is not the owner.
KExchange(t) ==
    /\ kpc[t] = "exchange"
    /\ klock' = t
    /\ kpc' = [kpc EXCEPT ![t] = IF klock = Nil THEN "cs"
                                 ELSE IF klock = t THEN "aborted" ELSE "receive"]
    /\ UNCHANGED target

\* Mutant: the lock goes straight to the waiter.
KUnlock_HandOver(t) ==
    /\ kpc[t] = "cs"
    /\ IF klock = t THEN klock' = Nil /\ kpc' = [kpc EXCEPT ![t] = "idle"]
       ELSE /\ kpc[klock] = "receive"
            /\ klock' = klock /\ kpc' = [kpc EXCEPT ![t] = "idle", ![klock] = "cs"]
    /\ UNCHANGED target

\* ss_mutex_unlock: the atomic exchange, the test for a waiter and the
\* assertion that the lock is held.
KUnlock(t) ==
    /\ kpc[t] = "cs"
    /\ klock' = Nil
    /\ kpc' = [kpc EXCEPT ![t] = IF klock = t THEN "idle"
                                 ELSE IF klock = Nil THEN "aborted" ELSE "send"]
    /\ target' = [target EXCEPT ![t] = IF klock \in {t, Nil} THEN Nil ELSE klock]

\* __ss_lock_wakeup meets __ss_lock_wait: the waiter exchanges again.
Wakeup(t) ==
    /\ kpc[t] = "send" /\ kpc[target[t]] = "receive"
    /\ kpc' = [kpc EXCEPT ![t] = "idle", ![target[t]] = "exchange"]
    /\ target' = [target EXCEPT ![t] = Nil]
    /\ UNCHANGED klock

\* ss_mutex_trylock; it changes nothing when it returns false.
KTryLock(t) ==
    /\ kpc[t] = "idle" /\ klock = Nil
    /\ klock' = t
    /\ kpc' = [kpc EXCEPT ![t] = "cs"]
    /\ UNCHANGED target

KStep(t) == KExchange(t) \/ KUnlock(t) \/ Wakeup(t)

MutexNext == \E t \in Tasks : KLock(t) \/ KTryLock(t) \/ KStep(t)

MutexSpec == MutexInit /\ [][MutexNext]_mutexVars
-----------------------------------------------------------------------------
\* The lock word of viengoos/mutex.h is a thread or nil.
MutexTypeOK ==
    /\ klock \in Tasks \cup {Nil}
    /\ kpc \in [Tasks -> KPCs]
    /\ target \in [Tasks -> Tasks \cup {Nil}]

\* However exchanges, unlocks and wake-ups interleave, one thread at a time
\* is in the kernel.
KMutualExclusion == \A t, u \in Tasks : kpc[t] = "cs" /\ kpc[u] = "cs" => t = u

(***************************************************************************)
(* The assertions of ss_mutex_lock and ss_mutex_unlock hold: nobody finds  *)
(* himself as the owner, and nobody unlocks a free lock.                   *)
(***************************************************************************)
NoAssertionFails == \A t \in Tasks : kpc[t] # "aborted"

(***************************************************************************)
(* The comment "No waiter" in ss_mutex_unlock: a thread that waits for the *)
(* message is named by the lock, or someone is about to send it.           *)
(***************************************************************************)
WaiterKnown ==
    \A t \in Tasks : kpc[t] = "receive" =>
        klock = t \/ \E u \in Tasks : kpc[u] = "send" /\ target[u] = t

\* The mutex is an owned lock (LockAbs): the owner frees it in KUnlock.
KOwner == IF \E t \in Tasks : kpc[t] = "cs" THEN CHOOSE t \in Tasks : kpc[t] = "cs" ELSE Nil

KAbs == INSTANCE LockAbs WITH Threads <- Tasks, None <- Nil, owner <- KOwner

ImplementsKernelLock == KAbs!Spec
=============================================================================
