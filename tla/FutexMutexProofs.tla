-------------------------- MODULE FutexMutexProofs ---------------------------
(***************************************************************************)
(* Theorems about the user mutex, for any set of threads and both builds.  *)
(***************************************************************************)
EXTENDS FutexMutex, SequenceTheorems, TLAPS

(***************************************************************************)
(* The inductive invariant.  The word is 0 exactly when nobody holds the   *)
(* lock, and there is one holder at most; the rest says that the kernel    *)
(* wakes only threads that sleep.                                          *)
(***************************************************************************)
WordOK == /\ \A t, u \in Threads : Holds(t) /\ Holds(u) => t = u
          /\ lock = _MUTEX_UNLOCKED <=> \A t \in Threads : ~Holds(t)

IInv == TypeOK /\ WordOK /\ QueueOK /\ NoLostWakeup

(***************************************************************************)
(* A sequence without repetitions, and with an element pushed or popped.   *)
(***************************************************************************)
IsSet(q) == \A i, j \in 1..Len(q) : q[i] = q[j] => i = j

LEMMA PushSet ==
  ASSUME NEW S, NEW q \in Seq(S), NEW e \in S, IsSet(q),
         \A i \in 1..Len(q) : q[i] # e
  PROVE  /\ <<e>> \o q \in Seq(S)
         /\ Len(<<e>> \o q) = Len(q) + 1
         /\ (<<e>> \o q)[1] = e
         /\ \A i \in 1..Len(q) : (<<e>> \o q)[i + 1] = q[i]
         /\ \A i \in 2..(Len(q) + 1) : i - 1 \in 1..Len(q) /\ (<<e>> \o q)[i] = q[i - 1]
         /\ IsSet(<<e>> \o q)
<1> DEFINE r == <<e>> \o q
<1>1. r \in Seq(S) /\ Len(r) = Len(q) + 1 /\ r[1] = e /\ Len(q) \in Nat
  OBVIOUS
<1>2. \A i \in 2..(Len(q) + 1) : i - 1 \in 1..Len(q) /\ r[i] = q[i - 1]
  OBVIOUS
<1>3. \A i \in 1..Len(q) : r[i + 1] = q[i]
  OBVIOUS
<1> HIDE DEF r
<1>4. ASSUME NEW i \in 1..Len(r), NEW j \in 1..Len(r), r[i] = r[j] PROVE i = j
  <2>1. CASE i = 1 /\ j = 1
    BY <2>1
  <2>2. CASE i = 1 /\ j # 1
    BY <1>1, <1>2, <1>4, <2>2
  <2>3. CASE i # 1 /\ j = 1
    BY <1>1, <1>2, <1>4, <2>3
  <2>4. CASE i # 1 /\ j # 1
    <3>1. i - 1 \in 1..Len(q) /\ j - 1 \in 1..Len(q) /\ q[i - 1] = q[j - 1]
      BY <1>1, <1>2, <1>4, <2>4
    <3>2. i - 1 = j - 1
      BY <3>1 DEF IsSet
    <3> QED BY <3>2
  <2> QED BY <2>1, <2>2, <2>3, <2>4
<1> QED BY <1>1, <1>2, <1>3, <1>4 DEF IsSet, r

LEMMA PopSet ==
  ASSUME NEW S, NEW q \in Seq(S), q # <<>>, IsSet(q)
  PROVE  /\ Tail(q) \in Seq(S)
         /\ Len(Tail(q)) = Len(q) - 1
         /\ Head(q) = q[1] /\ 1 \in 1..Len(q) /\ Head(q) \in S
         /\ \A i \in 1..(Len(q) - 1) : /\ Tail(q)[i] = q[i + 1] /\ i + 1 \in 1..Len(q)
                                        /\ Tail(q)[i] # Head(q)
         /\ \A i \in 2..Len(q) : i - 1 \in 1..Len(Tail(q)) /\ Tail(q)[i - 1] = q[i]
         /\ IsSet(Tail(q))
<1>1. /\ Tail(q) \in Seq(S) /\ Len(Tail(q)) = Len(q) - 1 /\ Len(q) \in Nat
      /\ Head(q) = q[1] /\ 1 \in 1..Len(q) /\ Head(q) \in S
  OBVIOUS
<1>2. \A i \in 1..(Len(q) - 1) : Tail(q)[i] = q[i + 1] /\ i + 1 \in 1..Len(q) /\ i + 1 # 1
  OBVIOUS
<1>3. \A i \in 1..(Len(q) - 1) : Tail(q)[i] # Head(q)
  BY <1>1, <1>2 DEF IsSet
<1>4. \A i \in 2..Len(q) : i - 1 \in 1..Len(Tail(q)) /\ Tail(q)[i - 1] = q[i]
  BY <1>1, <1>2
<1>5. ASSUME NEW i \in 1..Len(Tail(q)), NEW j \in 1..Len(Tail(q)), Tail(q)[i] = Tail(q)[j]
      PROVE i = j
  <2>1. i + 1 \in 1..Len(q) /\ j + 1 \in 1..Len(q) /\ q[i + 1] = q[j + 1]
    BY <1>1, <1>2, <1>5
  <2>2. i + 1 = j + 1
    BY <2>1 DEF IsSet
  <2> QED BY <2>2
<1> QED BY <1>1, <1>2, <1>3, <1>4, <1>5 DEF IsSet

LEMMA InitIInv == Init => IInv
  BY EmptySeq DEF Init, IInv, TypeOK, WordOK, QueueOK, NoLostWakeup, Holds, PCs,
     _MUTEX_UNLOCKED, _MUTEX_LOCKED, _MUTEX_WAITERS

LEMMA NextIInv == IInv /\ [Next]_vars => IInv'
<1> SUFFICES ASSUME IInv, [Next]_vars PROVE IInv'
    OBVIOUS
<1> USE DEF IInv, TypeOK, WordOK, QueueOK, NoLostWakeup, Holds, PCs, Goto,
            _MUTEX_UNLOCKED, _MUTEX_LOCKED, _MUTEX_WAITERS
<1>1. ASSUME NEW t \in Threads, Lock(t) PROVE IInv'
  BY <1>1 DEF Lock
<1>2. ASSUME NEW t \in Threads, TryLock(t) PROVE IInv'
  BY <1>2 DEF TryLock
<1>3. ASSUME NEW t \in Threads, Exchange(t) PROVE IInv'
  BY <1>3 DEF Exchange
<1>4. ASSUME NEW t \in Threads, FutexWait(t) PROVE IInv'
  <2>1. CASE lock = _MUTEX_WAITERS
    <3>1. /\ queue' = <<t>> \o queue /\ pc' = [pc EXCEPT ![t] = "sleep"]
          /\ lock' = lock /\ pc[t] = "wait"
      BY <1>4, <2>1 DEF FutexWait
    <3>4. \A i \in 1..Len(queue) : queue[i] \in Threads /\ queue[i] # t
      BY <3>1
    <3>2. /\ queue' \in Seq(Threads) /\ Len(queue') = Len(queue) + 1 /\ queue'[1] = t
          /\ \A i \in 1..Len(queue) : queue'[i + 1] = queue[i]
          /\ \A i \in 2..Len(queue') : i - 1 \in 1..Len(queue) /\ queue'[i] = queue[i - 1]
          /\ IsSet(queue')
      BY <3>1, <3>4, PushSet DEF IsSet
    <3>5. \A i \in 1..Len(queue') : pc'[queue'[i]] = "sleep"
      BY <3>1, <3>2, <3>4
    <3>6. \A i, j \in 1..Len(queue') : queue'[i] = queue'[j] => i = j
      BY <3>2 DEF IsSet
    <3>7. \A u \in Threads : pc'[u] = "sleep" => \E i \in 1..Len(queue') : queue'[i] = u
      <4> SUFFICES ASSUME NEW u \in Threads, pc'[u] = "sleep"
                   PROVE  \E i \in 1..Len(queue') : queue'[i] = u
        OBVIOUS
      <4>1. CASE u = t
        BY <3>2, <4>1
      <4>2. CASE u # t
        <5>1. PICK i \in 1..Len(queue) : queue[i] = u
          BY <3>1, <4>2
        <5>2. i + 1 \in 1..Len(queue') /\ queue'[i + 1] = u
          BY <5>1, <3>2
        <5> QED BY <5>2
      <4> QED BY <4>1, <4>2
    <3> QED BY <2>1, <3>1, <3>2, <3>5, <3>6, <3>7
  <2>2. CASE lock # _MUTEX_WAITERS
    BY <1>4, <2>2 DEF FutexWait
  <2> QED BY <2>1, <2>2
<1>5. ASSUME NEW t \in Threads, Decrement(t) PROVE IInv'
  BY <1>5 DEF Decrement
<1>6. ASSUME NEW t \in Threads, Store(t) PROVE IInv'
  BY <1>6 DEF Store
<1>7. ASSUME NEW t \in Threads, FutexWake(t) PROVE IInv'
  <2>1. CASE queue = <<>>
    BY <1>7, <2>1 DEF FutexWake
  <2>2. CASE queue # <<>>
    <3> DEFINE h == Head(queue)
    <3>1. /\ queue' = Tail(queue) /\ lock' = lock /\ pc[t] = "wake"
          /\ pc' = [pc EXCEPT ![t] = "idle", ![h] = "exchange"]
      BY <1>7, <2>2 DEF FutexWake
    <3>2. /\ h = queue[1] /\ h \in Threads /\ pc[h] = "sleep" /\ h # t
          /\ queue' \in Seq(Threads) /\ Len(queue') = Len(queue) - 1
          /\ \A i \in 1..Len(queue') : /\ queue'[i] = queue[i + 1] /\ queue'[i] # h
                                        /\ i + 1 \in 1..Len(queue)
          /\ \A i \in 2..Len(queue) : i - 1 \in 1..Len(queue') /\ queue'[i - 1] = queue[i]
          /\ IsSet(queue')
      BY <2>2, <3>1, PopSet DEF IsSet
    <3>3. \A i \in 1..Len(queue') : queue'[i] \in Threads /\ queue'[i] # t
      BY <3>1, <3>2
    <3>4. \A i \in 1..Len(queue') : pc'[queue'[i]] = "sleep"
      BY <3>1, <3>2, <3>3
    <3>5. \A i, j \in 1..Len(queue') : queue'[i] = queue'[j] => i = j
      BY <3>2 DEF IsSet
    <3>6. \A u \in Threads : pc'[u] = "sleep" => \E i \in 1..Len(queue') : queue'[i] = u
      <4> SUFFICES ASSUME NEW u \in Threads, pc'[u] = "sleep"
                   PROVE  \E i \in 1..Len(queue') : queue'[i] = u
        OBVIOUS
      <4>1. u # h /\ pc[u] = "sleep"
        BY <3>1, <3>2
      <4>2. PICK i \in 1..Len(queue) : queue[i] = u
        BY <4>1
      <4>3. i \in 2..Len(queue)
        BY <3>2, <4>1, <4>2
      <4> QED BY <4>2, <4>3, <3>2
    <3>7. /\ pc' \in [Threads -> PCs] /\ pc'[h] = "exchange"
          /\ \A u \in Threads : Holds(u)' <=> Holds(u)
      BY <3>1, <3>2
    <3> HIDE DEF h
    <3> QED BY <3>1, <3>2, <3>4, <3>5, <3>6, <3>7
  <2> QED BY <2>1, <2>2
<1>8. CASE DeadlockTimeout
  <2>1. queue' = <<>> /\ lock' = lock /\ queue' \in Seq(Threads) /\ Len(queue') = 0
    BY <1>8, EmptySeq DEF DeadlockTimeout
  <2>2. /\ pc' \in [Threads -> PCs]
        /\ \A u \in Threads : pc'[u] # "sleep" /\ (Holds(u)' <=> Holds(u))
    BY <1>8 DEF DeadlockTimeout
  <2> QED BY <2>1, <2>2
<1>9. CASE UNCHANGED vars
  BY <1>9 DEF vars
<1> QED BY <1>1, <1>2, <1>3, <1>4, <1>5, <1>6, <1>7, <1>8, <1>9 DEF Next, Step

(***************************************************************************)
(* Every state of the mutex satisfies the inductive invariant.             *)
(***************************************************************************)
THEOREM Invariance == Spec => []IInv
  BY InitIInv, NextIInv, PTL DEF Spec

(***************************************************************************)
(* ss_mutex_lock and ss_mutex_trylock give the lock to one thread at a     *)
(* time, for any number of threads.                                        *)
(***************************************************************************)
THEOREM MutualExclusionHolds == Spec => []MutualExclusion
<1>1. IInv => MutualExclusion
  BY DEF IInv, WordOK, Holds, MutualExclusion
<1> QED BY Invariance, <1>1, PTL

(***************************************************************************)
(* No interleaving of lock, unlock and the kernel's futex operations       *)
(* forgets a sleeping thread.                                              *)
(***************************************************************************)
THEOREM NoLostWakeupHolds == Spec => []NoLostWakeup
<1>1. IInv => NoLostWakeup
  BY DEF IInv
<1> QED BY Invariance, <1>1, PTL

(***************************************************************************)
(* A holder named: Owner is the thread that holds the lock.                *)
(***************************************************************************)
LEMMA OwnerIs ==
  ASSUME WordOK
  PROVE  /\ \A t \in Threads : Holds(t) => Owner = t
         /\ (\A t \in Threads : ~Holds(t)) => Owner = None
  BY DEF WordOK, Owner

LEMMA OwnerIsPrime ==
  ASSUME WordOK'
  PROVE  /\ \A t \in Threads : Holds(t)' => Owner' = t
         /\ (\A t \in Threads : ~Holds(t)') => Owner' = None
  BY DEF WordOK, Owner

(***************************************************************************)
(* The mutex implements the owned lock of LockAbs: taking the word is      *)
(* Acquire, making it 0 is Release, every other step leaves the owner.     *)
(***************************************************************************)
THEOREM Refinement == Spec => ImplementsLock
<1>1. Init => Abs!Init
  BY DEF Init, Abs!Init, Owner, Holds
<1>2. IInv /\ IInv' /\ [Next]_vars => [Abs!Next]_Owner
  <2> SUFFICES ASSUME IInv, IInv', [Next]_vars PROVE Abs!Next \/ Owner' = Owner
    BY DEF Abs!Next
  <2>0. ASSUME \A u \in Threads : Holds(u)' <=> Holds(u) PROVE Owner' = Owner
    BY <2>0 DEF Owner
  <2>1. ASSUME NEW t \in Threads, \A u \in Threads : ~Holds(u), Holds(t)'
        PROVE Abs!Next
    BY <2>1, OwnerIs, OwnerIsPrime DEF IInv, Abs!Next, Abs!Acquire
  <2>2. ASSUME NEW t \in Threads, Holds(t), \A u \in Threads : ~Holds(u)'
        PROVE Abs!Next
    BY <2>2, OwnerIs, OwnerIsPrime DEF IInv, Abs!Next, Abs!Release
  <2>3. ASSUME NEW t \in Threads, Lock(t) \/ TryLock(t) \/ Exchange(t)
        PROVE Abs!Next \/ Owner' = Owner
    <3>1. CASE lock = _MUTEX_UNLOCKED
      BY <2>1, <2>3, <3>1 DEF IInv, TypeOK, WordOK, Holds, Lock, TryLock, Exchange, Goto, _MUTEX_UNLOCKED
    <3>2. CASE lock # _MUTEX_UNLOCKED
      BY <2>0, <2>3, <3>2 DEF IInv, TypeOK, Holds, Lock, TryLock, Exchange, Goto
    <3> QED BY <3>1, <3>2
  <2>4. ASSUME NEW t \in Threads, FutexWait(t) PROVE Owner' = Owner
    BY <2>0, <2>4 DEF IInv, TypeOK, Holds, FutexWait, Goto
  <2>5. ASSUME NEW t \in Threads, Decrement(t) PROVE Abs!Next \/ Owner' = Owner
    <3>1. CASE lock = _MUTEX_LOCKED
      BY <2>2, <2>5, <3>1 DEF IInv, TypeOK, WordOK, Holds, Decrement, Goto
    <3>2. CASE lock # _MUTEX_LOCKED
      BY <2>0, <2>5, <3>2 DEF IInv, TypeOK, Holds, Decrement, Goto
    <3> QED BY <3>1, <3>2
  <2>6. ASSUME NEW t \in Threads, Store(t) PROVE Abs!Next
    BY <2>2, <2>6 DEF IInv, TypeOK, WordOK, Holds, Store, Goto
  <2>7. ASSUME NEW t \in Threads, FutexWake(t) PROVE Owner' = Owner
    <3>1. queue # <<>> => Head(queue) \in Threads /\ pc[Head(queue)] = "sleep"
      BY DEF IInv, TypeOK, QueueOK
    <3> QED BY <2>0, <2>7, <3>1 DEF IInv, TypeOK, Holds, FutexWake, Goto
  <2>8. ASSUME DeadlockTimeout PROVE Owner' = Owner
    BY <2>0, <2>8 DEF IInv, TypeOK, Holds, DeadlockTimeout
  <2>9. ASSUME UNCHANGED vars PROVE Owner' = Owner
    BY <2>0, <2>9 DEF vars, Holds
  <2> QED BY <2>3, <2>4, <2>5, <2>6, <2>7, <2>8, <2>9 DEF Next, Step
<1> QED BY Invariance, <1>1, <1>2, PTL DEF Spec, ImplementsLock, Abs!Spec
=============================================================================
