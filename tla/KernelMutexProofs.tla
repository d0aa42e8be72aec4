-------------------------- MODULE KernelMutexProofs --------------------------
(***************************************************************************)
(* The kernel's mutex excludes, keeps its assertions and is an owned lock, *)
(* for any set of threads; it does not forget a waiter when there are two, *)
(* as in the kernel.                                                       *)
(***************************************************************************)
EXTENDS KernelMutex, TLAPS

(***************************************************************************)
(* The inductive invariant.  The word is nil exactly when nobody is in the *)
(* critical section, since only the unlocking thread clears it.  A thread  *)
(* named by the word is in the critical section or waits for a message, so *)
(* none that is about to exchange finds itself.                            *)
(***************************************************************************)
Inv ==
    /\ MutexTypeOK
    /\ KMutualExclusion
    /\ NoAssertionFails
    /\ klock = Nil <=> \A t \in Tasks : kpc[t] # "cs"
    /\ klock # Nil => kpc[klock] \in {"cs", "receive"}
    /\ \A t \in Tasks : kpc[t] = "send" => target[t] \in Tasks
    /\ \A t, u \in Tasks : kpc[t] = "send" /\ kpc[u] = "send" /\ target[t] = target[u] => t = u
    /\ \A t \in Tasks : kpc[t] = "send" => kpc[target[t]] = "receive" /\ klock # target[t]

\* The invariant holds.
THEOREM Invariance == MutexSpec => []Inv
<1>1. MutexInit => Inv
  BY NilAssumption DEF MutexInit, Inv, MutexTypeOK, KPCs, KMutualExclusion, NoAssertionFails
<1>2. Inv /\ [MutexNext]_mutexVars => Inv'
  <2> SUFFICES ASSUME Inv, [MutexNext]_mutexVars PROVE Inv'
    OBVIOUS
  <2> USE NilAssumption DEF Inv, MutexTypeOK, KPCs, KMutualExclusion, NoAssertionFails
  <2>1. ASSUME NEW t \in Tasks, KLock(t) PROVE Inv'
    BY <2>1 DEF KLock
  <2>2. ASSUME NEW t \in Tasks, KTryLock(t) PROVE Inv'
    BY <2>2 DEF KTryLock
  <2>3. ASSUME NEW t \in Tasks, KExchange(t) PROVE Inv'
    <3>1. CASE klock = Nil
      BY <2>3, <3>1 DEF KExchange
    <3>2. CASE klock # Nil
      BY <2>3, <3>2 DEF KExchange
    <3> QED BY <3>1, <3>2
  <2>4. ASSUME NEW t \in Tasks, KUnlock(t) PROVE Inv'
    <3>1. CASE klock = t
      BY <2>4, <3>1 DEF KUnlock
    <3>2. CASE klock # t
      BY <2>4, <3>2 DEF KUnlock
    <3> QED BY <3>1, <3>2
  <2>5. ASSUME NEW t \in Tasks, Wakeup(t) PROVE Inv'
    BY <2>5 DEF Wakeup
  <2>6. CASE UNCHANGED mutexVars
    BY <2>6 DEF mutexVars
  <2> QED BY <2>1, <2>2, <2>3, <2>4, <2>5, <2>6 DEF MutexNext, KStep
<1> QED BY <1>1, <1>2, PTL DEF MutexSpec

\* One thread at a time is in the kernel, and neither assertion of the lock
\* fails, for any number of kernel threads.
THEOREM Safety == MutexSpec => [](KMutualExclusion /\ NoAssertionFails)
<1>1. Inv => KMutualExclusion /\ NoAssertionFails
  BY DEF Inv
<1> QED BY <1>1, Invariance, PTL

\* The mutex implements an owned lock: the exchange that finds nil acquires,
\* the exchange of ss_mutex_unlock releases, everything else stutters.
THEOREM Refinement == MutexSpec => ImplementsKernelLock
<1>1. MutexInit => KAbs!Init
  BY DEF MutexInit, KAbs!Init, KOwner
<1>2. Inv /\ Inv' /\ [MutexNext]_mutexVars => [KAbs!Next]_KOwner
  <2> SUFFICES ASSUME Inv, Inv', [MutexNext]_mutexVars PROVE [KAbs!Next]_KOwner
    OBVIOUS
  <2>0. /\ kpc \in [Tasks -> KPCs] /\ KMutualExclusion /\ KMutualExclusion'
        /\ klock = Nil <=> \A t \in Tasks : kpc[t] # "cs"
        /\ \A t \in Tasks : kpc[t] = "send" => target[t] \in Tasks
    BY DEF Inv, MutexTypeOK
  <2>1. ASSUME NEW t \in Tasks, kpc[t] = "cs" PROVE KOwner = t
    BY <2>0, <2>1 DEF KOwner, KMutualExclusion
  <2>2. ASSUME NEW t \in Tasks, kpc'[t] = "cs" PROVE KOwner' = t
    BY <2>0, <2>2 DEF KOwner, KMutualExclusion
  <2>3. ASSUME \A t \in Tasks : kpc[t] # "cs" PROVE KOwner = Nil
    BY <2>3 DEF KOwner
  <2>4. ASSUME \A t \in Tasks : kpc'[t] # "cs" PROVE KOwner' = Nil
    BY <2>4 DEF KOwner
  <2>5. ASSUME \A t \in Tasks : kpc'[t] = "cs" <=> kpc[t] = "cs" PROVE KOwner' = KOwner
    <3>1. CASE \E t \in Tasks : kpc[t] = "cs"
      BY <2>1, <2>2, <2>5, <3>1
    <3>2. CASE \A t \in Tasks : kpc[t] # "cs"
      BY <2>3, <2>4, <2>5, <3>2
    <3> QED BY <3>1, <3>2
  <2>6. ASSUME NEW t \in Tasks, KLock(t) PROVE KOwner' = KOwner
    BY <2>0, <2>5, <2>6 DEF KLock
  <2>7. ASSUME NEW t \in Tasks, KTryLock(t) PROVE KAbs!Acquire(t)
    <3>1. kpc'[t] = "cs" /\ \A u \in Tasks : kpc[u] # "cs"
      BY <2>0, <2>7 DEF KTryLock
    <3> QED BY <2>2, <2>3, <3>1 DEF KAbs!Acquire
  <2>8. ASSUME NEW t \in Tasks, KExchange(t) PROVE KAbs!Acquire(t) \/ KOwner' = KOwner
    <3>1. CASE klock = Nil
      <4>1. kpc'[t] = "cs" /\ \A u \in Tasks : kpc[u] # "cs"
        BY <2>0, <2>8, <3>1 DEF KExchange
      <4> QED BY <2>2, <2>3, <4>1 DEF KAbs!Acquire
    <3>2. CASE klock # Nil
      BY <2>0, <2>5, <2>8, <3>2 DEF KExchange
    <3> QED BY <3>1, <3>2
  <2>9. ASSUME NEW t \in Tasks, KUnlock(t) PROVE KAbs!Release(t)
    <3>1. kpc[t] = "cs" /\ \A u \in Tasks : kpc'[u] # "cs"
      BY <2>0, <2>9 DEF KUnlock, KMutualExclusion
    <3> QED BY <2>1, <2>4, <3>1 DEF KAbs!Release
  <2>10. ASSUME NEW t \in Tasks, Wakeup(t) PROVE KOwner' = KOwner
    <3>1. kpc[t] = "send" /\ target[t] \in Tasks /\ kpc[target[t]] = "receive"
      BY <2>0, <2>10 DEF Wakeup
    <3> QED BY <2>0, <2>5, <2>10, <3>1 DEF Wakeup
  <2>11. CASE UNCHANGED mutexVars
    BY <2>5, <2>11 DEF mutexVars
  <2> QED BY <2>6, <2>7, <2>8, <2>9, <2>10, <2>11 DEF MutexNext, KStep, KAbs!Next
<1> QED BY <1>1, <1>2, Invariance, PTL DEF MutexSpec, ImplementsKernelLock, KAbs!Spec

(***************************************************************************)
(* With two threads, as the kernel has them, the one that waits is always  *)
(* named by the word or about to be sent the message: the comment "No      *)
(* waiter" in ss_mutex_unlock is right.  A third thread would overwrite    *)
(* the word and the first waiter would sleep forever.                      *)
(***************************************************************************)
THEOREM NobodyForgotten ==
  ASSUME \A t, u, v \in Tasks : t = u \/ u = v \/ t = v
  PROVE  MutexSpec => []WaiterKnown
<1>1. MutexInit => WaiterKnown
  BY DEF MutexInit, WaiterKnown
<1>2. Inv /\ WaiterKnown /\ [MutexNext]_mutexVars => WaiterKnown'
  <2> SUFFICES ASSUME Inv, WaiterKnown, [MutexNext]_mutexVars PROVE WaiterKnown'
    OBVIOUS
  <2>0. /\ kpc \in [Tasks -> KPCs] /\ target \in [Tasks -> Tasks \cup {Nil}]
        /\ klock \in Tasks \cup {Nil}
        /\ klock = Nil <=> \A t \in Tasks : kpc[t] # "cs"
        /\ klock # Nil => kpc[klock] \in {"cs", "receive"}
        /\ \A t \in Tasks : kpc[t] = "send" =>
              target[t] \in Tasks /\ kpc[target[t]] = "receive" /\ klock # target[t]
    BY DEF Inv, MutexTypeOK
  <2>1. ASSUME NEW t \in Tasks, KLock(t) PROVE WaiterKnown'
    BY <2>0, <2>1 DEF KLock, WaiterKnown
  <2>2. ASSUME NEW t \in Tasks, KTryLock(t) PROVE WaiterKnown'
    BY <2>0, <2>2, NilAssumption DEF KTryLock, WaiterKnown
  <2>3. ASSUME NEW t \in Tasks, KExchange(t) PROVE WaiterKnown'
    BY <2>0, <2>3, NilAssumption DEF KExchange, WaiterKnown
  <2>4. ASSUME NEW t \in Tasks, KUnlock(t) PROVE WaiterKnown'
    BY <2>0, <2>4, NilAssumption DEF KUnlock, WaiterKnown
  <2>5. ASSUME NEW t \in Tasks, Wakeup(t) PROVE WaiterKnown'
    BY <2>0, <2>5 DEF Wakeup, WaiterKnown
  <2>6. CASE UNCHANGED mutexVars
    BY <2>6 DEF mutexVars, WaiterKnown
  <2> QED BY <2>1, <2>2, <2>3, <2>4, <2>5, <2>6 DEF MutexNext, KStep
<1> QED BY <1>1, <1>2, Invariance, PTL DEF MutexSpec
=============================================================================
