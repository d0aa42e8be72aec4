-------------------------------- MODULE Locks --------------------------------
(***************************************************************************)
(* The two mutexes of the system, each with what uses it: the mutex of the *)
(* user-space libraries (FutexMutex) and kernel_lock between the kernel's  *)
(* two threads (KernelThreads).  They share no state; a behaviour is one   *)
(* of either, the other staying where it starts.                           *)
(***************************************************************************)
EXTENDS FutexMutex, KernelThreads

VARIABLE part  \* "user" or "kernel"

lockVars == <<vars, mutexVars, agerVars, part>>

\* While the user mutex is looked at, the ager sleeps and nobody is in the
\* kernel.
LocksInit ==
    /\ Init /\ MutexInit /\ frame = 0 /\ period = 0
    /\ part \in {"user", "kernel"}
    /\ phase = IF part = "kernel" THEN "batch" ELSE "sleep"

User(A) == part = "user" /\ A /\ UNCHANGED <<mutexVars, agerVars, part>>

Kernel(A) == part = "kernel" /\ A /\ UNCHANGED <<vars, part>>

LocksNext == User(Next) \/ Kernel(KernelNext)

\* The fairness of FutexMutex!FairSpec and of KernelThreads!KernelSpec.
LocksSpec ==
    /\ LocksInit /\ [][LocksNext]_lockVars
    /\ \A t \in Threads : WF_lockVars(User(Step(t)))
    /\ WF_lockVars(Kernel(ServerStep)) /\ WF_lockVars(Kernel(AgerStep))
=============================================================================
