------------------------------- MODULE LockAbs -------------------------------
(***************************************************************************)
(* What a mutual exclusion lock promises: it is owned by at most one       *)
(* thread, only a free lock is taken and only its owner gives it back.     *)
(* The mutexes of hurd/mutex.h and viengoos/mutex.h both implement it.     *)
(***************************************************************************)
CONSTANTS
    Threads,   \* the threads that use the lock
    None       \* the lock is free

VARIABLE owner

TypeOK == owner \in Threads \cup {None}

Init == owner = None

Acquire(t) == owner = None /\ owner' = t

Release(t) == owner = t /\ owner' = None

Next == \E t \in Threads : Acquire(t) \/ Release(t)

Spec == Init /\ [][Next]_owner
=============================================================================
