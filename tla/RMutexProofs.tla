---------------------------- MODULE RMutexProofs -----------------------------
(***************************************************************************)
(* Theorems about the recursive mutex, for any set of threads, any bound   *)
(* on the depth and both builds.                                           *)
(***************************************************************************)
EXTENDS RMutex, TLAPS

TypeOK ==
    /\ meta \in Threads \cup {None}
    /\ count \in Int
    /\ owner \in Threads \cup {None}
    /\ pc \in [Threads -> PCs]
    /\ cont \in [Threads -> {"idle", "wait", "wake"}]
    /\ val \in [Threads -> Int]
    /\ depth \in [Threads -> Nat]
    /\ queue \in Seq(Threads)

(***************************************************************************)
(* Who looks at the fields has the meta-lock.  A failed trylock leaves the *)
(* meta-lock with a thread that does not look, so the converse is false.   *)
(***************************************************************************)
Inside == {"lock", "unlock", "try", "release"}
MetaOK == \A t \in Threads : pc[t] \in Inside => meta = t

(***************************************************************************)
(* Only a thread that is inside the lock is about to unlock it.            *)
(***************************************************************************)
UnlockerOK == \A t \in Threads : pc[t] \in {"Unlock", "unlock"} => depth[t] > 0

IInv == TypeOK /\ MetaOK /\ UnlockerOK /\ RecursionBalanced

\* The futex word apart, the recursive mutex is a lock with an owner.
Lock == INSTANCE LockAbs

-----------------------------------------------------------------------------
(***************************************************************************)
(* What a thread does to the fields with the meta-lock held keeps the      *)
(* count, the owner and the depths in step.                                *)
(***************************************************************************)
LEMMA LockAgainKeeps ==
  ASSUME IInv, NEW t \in Threads, pc[t] \in {"lock", "try"}, LockAgain(t)
  PROVE  IInv'
<1>1. TypeOK'
  BY DEF IInv, TypeOK, PCs, LockAgain, Release, Goto, Deeper
<1>2. MetaOK' /\ UnlockerOK'
  BY DEF IInv, TypeOK, MetaOK, UnlockerOK, Inside, LockAgain, Release, Goto
<1>3. owner = t /\ count # 0 /\ count \in Int /\ owner' = owner
  BY NoneAssumption DEF IInv, TypeOK, RecursionBalanced, LockAgain
<1>4. count' # 0 /\ (IF count' < 0 THEN -count' ELSE count')
                      = (IF count < 0 THEN -count ELSE count) + 1
  BY <1>3 DEF LockAgain, Deeper
<1>5. \A u \in Threads : depth'[u] = IF u = t THEN depth[u] + 1 ELSE depth[u]
  BY DEF IInv, TypeOK, LockAgain
<1>6. \A u \in Threads : pc'[u] = "unlock" => pc[u] = "unlock"
  BY DEF IInv, TypeOK, LockAgain, Release, Goto
<1>7. RecursionBalanced'
  BY <1>3, <1>4, <1>5, <1>6, NoneAssumption DEF IInv, RecursionBalanced
<1> QED BY <1>1, <1>2, <1>7 DEF IInv

LEMMA LockFreeKeeps ==
  ASSUME IInv, NEW t \in Threads, pc[t] \in {"lock", "try"}, LockFree(t)
  PROVE  IInv'
<1>1. TypeOK'
  BY DEF IInv, TypeOK, PCs, LockFree, Release, Goto
<1>2. MetaOK' /\ UnlockerOK'
  BY DEF IInv, TypeOK, MetaOK, UnlockerOK, Inside, LockFree, Release, Goto
<1>3. owner = None /\ count' = 1 /\ owner' = t
  BY DEF LockFree
<1>4. \A u \in Threads : depth[u] = 0 /\ pc[u] # "unlock"
  BY <1>3, NoneAssumption DEF IInv, RecursionBalanced
<1>5. \A u \in Threads : depth'[u] = IF u = t THEN 1 ELSE 0
  BY <1>4 DEF IInv, TypeOK, LockFree
<1>6. \A u \in Threads : pc'[u] # "unlock"
  BY <1>4 DEF IInv, TypeOK, LockFree, Release, Goto
<1>7. RecursionBalanced'
  BY <1>3, <1>5, <1>6, NoneAssumption DEF RecursionBalanced
<1> QED BY <1>1, <1>2, <1>7 DEF IInv

LEMMA LockBusyKeeps ==
  ASSUME IInv, NEW t \in Threads, pc[t] = "lock", LockBusy(t)
  PROVE  IInv'
<1>1. TypeOK'
  BY DEF IInv, TypeOK, PCs, LockBusy, Release, Goto
<1>2. MetaOK' /\ UnlockerOK'
  BY DEF IInv, TypeOK, MetaOK, UnlockerOK, Inside, LockBusy, Release, Goto
<1>3. /\ (IF count' < 0 THEN -count' ELSE count') = IF count < 0 THEN -count ELSE count
      /\ count' = 0 <=> count = 0
      /\ owner' = owner /\ depth' = depth
  BY DEF IInv, TypeOK, LockBusy
<1>4. \A u \in Threads : pc'[u] = "unlock" => pc[u] = "unlock"
  BY DEF IInv, TypeOK, LockBusy, Release, Goto
<1>5. RecursionBalanced'
  BY <1>3, <1>4 DEF IInv, RecursionBalanced
<1> QED BY <1>1, <1>2, <1>5 DEF IInv

LEMMA UnlockBodyKeeps ==
  ASSUME IInv, NEW t \in Threads, UnlockBody(t)
  PROVE  IInv'
<1>1. /\ owner = t /\ count # 0 /\ count \in Int
      /\ depth[t] = IF count < 0 THEN -count ELSE count
  BY NoneAssumption DEF IInv, TypeOK, RecursionBalanced, UnlockBody
<1>2. (IF count' < 0 THEN -count' ELSE count') = depth[t] - 1 /\ count' \in Int
  BY <1>1 DEF UnlockBody, Shallower
<1>3. \A u \in Threads : depth'[u] = IF u = t THEN depth[u] - 1 ELSE depth[u]
  BY DEF IInv, TypeOK, UnlockBody
<1>4. owner' = IF count' = 0 THEN None ELSE t
  BY <1>1 DEF UnlockBody
<1>5. \A u \in Threads : pc'[u] # "unlock"
  BY DEF IInv, TypeOK, MetaOK, Inside, UnlockBody, Release, Goto
<1>6. RecursionBalanced'
  <2>1. \A u \in Threads : u # t => depth'[u] = 0
    BY <1>1, <1>3 DEF IInv, RecursionBalanced
  <2>2. owner' = None <=> count' = 0
    BY <1>4, NoneAssumption
  <2>3. depth'[t] = IF count' < 0 THEN -count' ELSE count'
    BY <1>2, <1>3
  <2>4. count' = 0 => depth'[t] = 0
    BY <2>3
  <2>5. ASSUME NEW u \in Threads
        PROVE  depth'[u] = IF owner' = u THEN (IF count' < 0 THEN -count' ELSE count') ELSE 0
    <3>1. CASE u = t
      BY <1>4, <2>3, <2>4, <3>1
    <3>2. CASE u # t
      BY <1>4, <2>1, <3>2, NoneAssumption
    <3> QED BY <3>1, <3>2
  <2> QED BY <1>5, <2>2, <2>5 DEF RecursionBalanced
<1>7. TypeOK'
  <2>1. depth' \in [Threads -> Nat]
    BY <1>1 DEF IInv, TypeOK, UnlockBody
  <2>2. pc' \in [Threads -> PCs] /\ cont' \in [Threads -> {"idle", "wait", "wake"}]
    BY DEF IInv, TypeOK, PCs, UnlockBody, Release, Goto
  <2> QED BY <1>2, <1>4, <2>1, <2>2 DEF IInv, TypeOK, UnlockBody
<1>8. MetaOK'
  BY DEF IInv, TypeOK, MetaOK, Inside, UnlockBody, Release, Goto
<1>9. UnlockerOK'
  BY <1>1, <1>3, <1>5, NoneAssumption
     DEF IInv, TypeOK, UnlockerOK, MetaOK, Inside, RecursionBalanced, UnlockBody, Release, Goto
<1> QED BY <1>6, <1>7, <1>8, <1>9 DEF IInv

(***************************************************************************)
(* The steps that leave the count, the owner and the depths alone.         *)
(***************************************************************************)
Outside == UNCHANGED <<count, owner, depth>>

LEMMA OutsideKeeps ==
  ASSUME IInv, Outside, TypeOK', MetaOK',
         \A u \in Threads : pc'[u] \in {"Unlock", "unlock"} => depth[u] > 0
  PROVE  IInv'
<1>1. UnlockerOK'
  BY DEF UnlockerOK, Outside
<1>2. RecursionBalanced'
  BY NoneAssumption DEF IInv, TypeOK, RecursionBalanced, Outside
<1> QED BY <1>1, <1>2 DEF IInv

LEMMA Inductive == IInv /\ [Next]_vars => IInv'
<1> SUFFICES ASSUME IInv, [Next]_vars PROVE IInv'
  OBVIOUS
<1>1. ASSUME NEW t \in Threads, Call(t) PROVE IInv'
  <2>1. TypeOK' /\ MetaOK' /\ Outside
    BY <1>1 DEF IInv, TypeOK, MetaOK, Inside, PCs, Call, Goto, Outside
  <2>2. \A u \in Threads : pc'[u] \in {"Unlock", "unlock"} => depth[u] > 0
    BY <1>1 DEF IInv, TypeOK, UnlockerOK, Call, Goto
  <2> QED BY <2>1, <2>2, OutsideKeeps
<1>2. ASSUME NEW t \in Threads, TryMeta(t) PROVE IInv'
  <2>1. TypeOK' /\ MetaOK' /\ Outside
    BY <1>2, NoneAssumption DEF IInv, TypeOK, MetaOK, Inside, PCs, TryMeta, Goto, Outside
  <2>2. \A u \in Threads : pc'[u] \in {"Unlock", "unlock"} => depth[u] > 0
    BY <1>2 DEF IInv, TypeOK, UnlockerOK, TryMeta, Goto
  <2> QED BY <2>1, <2>2, OutsideKeeps
<1>3. ASSUME NEW t \in Threads, AcquireMeta(t) PROVE IInv'
  <2>1. TypeOK' /\ MetaOK' /\ Outside
    BY <1>3, NoneAssumption DEF IInv, TypeOK, MetaOK, Inside, PCs, AcquireMeta, Goto, Outside
  <2>2. \A u \in Threads : pc'[u] \in {"Unlock", "unlock"} => depth[u] > 0
    BY <1>3 DEF IInv, TypeOK, UnlockerOK, AcquireMeta, Goto
  <2> QED BY <2>1, <2>2, OutsideKeeps
<1>4. ASSUME NEW t \in Threads, ReleaseMeta(t) PROVE IInv'
  <2>1. TypeOK' /\ MetaOK' /\ Outside
    BY <1>4, NoneAssumption DEF IInv, TypeOK, MetaOK, Inside, PCs, ReleaseMeta, Goto, Outside
  <2>2. \A u \in Threads : pc'[u] \in {"Unlock", "unlock"} => depth[u] > 0
    BY <1>4 DEF IInv, TypeOK, UnlockerOK, ReleaseMeta, Goto
  <2> QED BY <2>1, <2>2, OutsideKeeps
<1>5. ASSUME NEW t \in Threads, LockBody(t) PROVE IInv'
  BY <1>5, LockAgainKeeps, LockFreeKeeps, LockBusyKeeps DEF LockBody
<1>6. ASSUME NEW t \in Threads, FutexWait(t) PROVE IInv'
  <2> DEFINE q == <<t>> \o queue
  <2>1. q \in Seq(Threads) /\ queue' \in {q, queue}
    BY <1>6 DEF IInv, TypeOK, FutexWait
  <2> HIDE DEF q
  <2>2. queue' \in Seq(Threads)
    BY <2>1 DEF IInv, TypeOK
  <2>3. /\ pc' \in {[pc EXCEPT ![t] = "sleep"], [pc EXCEPT ![t] = "Lock"]}
        /\ UNCHANGED <<meta, count, owner, cont, val, depth>>
    BY <1>6 DEF FutexWait, Goto
  <2>4. TypeOK' /\ MetaOK' /\ Outside
    BY <2>2, <2>3 DEF IInv, TypeOK, MetaOK, Inside, PCs, Outside
  <2>5. \A u \in Threads : pc'[u] \in {"Unlock", "unlock"} => depth[u] > 0
    BY <2>3 DEF IInv, TypeOK, UnlockerOK
  <2> QED BY <2>4, <2>5, OutsideKeeps
<1>7. ASSUME NEW t \in Threads, UnlockBody(t) PROVE IInv'
  BY <1>7, UnlockBodyKeeps
<1>8. ASSUME NEW t \in Threads, FutexWake(t) PROVE IInv'
  <2>1. queue # <<>> => Head(queue) \in Threads /\ Tail(queue) \in Seq(Threads)
    BY DEF IInv, TypeOK
  <2>2. TypeOK' /\ MetaOK' /\ Outside
    BY <1>8, <2>1 DEF IInv, TypeOK, MetaOK, Inside, PCs, FutexWake, Goto, Outside
  <2>3. \A u \in Threads : pc'[u] \in {"Unlock", "unlock"} => depth[u] > 0
    BY <1>8, <2>1 DEF IInv, TypeOK, UnlockerOK, FutexWake, Goto
  <2> QED BY <2>2, <2>3, OutsideKeeps
<1>9. ASSUME NEW t \in Threads, TryBody(t) PROVE IInv'
  <2>1. CASE owner \notin {t, None} /\ Goto(t, "idle")
             /\ UNCHANGED <<meta, count, owner, cont, val, depth, queue>>
    <3>1. TypeOK' /\ MetaOK' /\ Outside
      BY <2>1 DEF IInv, TypeOK, MetaOK, Inside, PCs, Goto, Outside
    <3>2. \A u \in Threads : pc'[u] \in {"Unlock", "unlock"} => depth[u] > 0
      BY <2>1 DEF IInv, TypeOK, UnlockerOK, Goto
    <3> QED BY <3>1, <3>2, OutsideKeeps
  <2> QED BY <1>9, <2>1, LockAgainKeeps, LockFreeKeeps DEF TryBody
<1>10. CASE DeadlockTimeout
  <2>1. TypeOK' /\ MetaOK' /\ Outside
    BY <1>10 DEF IInv, TypeOK, MetaOK, Inside, PCs, DeadlockTimeout, Outside
  <2>2. \A u \in Threads : pc'[u] \in {"Unlock", "unlock"} => depth[u] > 0
    BY <1>10 DEF IInv, TypeOK, UnlockerOK, DeadlockTimeout
  <2> QED BY <2>1, <2>2, OutsideKeeps
<1>11. CASE UNCHANGED vars
  BY <1>11 DEF vars, IInv, TypeOK, MetaOK, UnlockerOK, RecursionBalanced
<1> QED BY <1>1, <1>2, <1>3, <1>4, <1>5, <1>6, <1>7, <1>8, <1>9, <1>10, <1>11 DEF Next, Step

LEMMA Initially == Init => IInv
<1> SUFFICES ASSUME Init PROVE IInv
  OBVIOUS
<1>1. TypeOK
  BY DEF Init, TypeOK, PCs
<1>2. MetaOK /\ UnlockerOK
  BY DEF Init, MetaOK, UnlockerOK, Inside
<1>3. RecursionBalanced
  BY NoneAssumption DEF Init, RecursionBalanced
<1> QED BY <1>1, <1>2, <1>3 DEF IInv

LEMMA Invariant == Spec => []IInv
<1> QED BY Initially, Inductive, PTL DEF Spec

(***************************************************************************)
(* The count of the recursive mutex is the depth of its owner, whatever    *)
(* waiters do to its sign, nobody else is inside, and the assertions of    *)
(* rmutex.h hold: for any number of threads and any depth.                 *)
(***************************************************************************)
THEOREM Balanced == Spec => []RecursionBalanced
<1>1. IInv => RecursionBalanced
  BY DEF IInv
<1> QED BY <1>1, Invariant, PTL

(***************************************************************************)
(* The recursive mutex implements a lock with an owner: it passes from one *)
(* owner to the next only through being free, and only the owner frees it. *)
(***************************************************************************)
THEOREM Refinement == Spec => Lock!Spec
<1>1. Init => Lock!Init
  BY DEF Init, Lock!Init
<1>2. IInv /\ [Next]_vars => [Lock!Next]_owner
  <2> SUFFICES ASSUME IInv, Next PROVE [Lock!Next]_owner
    BY DEF vars
  <2>1. ASSUME NEW t \in Threads, LockFree(t) PROVE Lock!Acquire(t)
    BY <2>1 DEF LockFree, Lock!Acquire
  <2>2. ASSUME NEW t \in Threads, UnlockBody(t) PROVE Lock!Release(t) \/ owner' = owner
    BY <2>2 DEF IInv, RecursionBalanced, UnlockBody, Lock!Release
  <2> QED
    BY <2>1, <2>2 DEF Next, Step, Call, TryMeta, AcquireMeta, ReleaseMeta, LockBody, TryBody,
       LockAgain, LockBusy, FutexWait, FutexWake, DeadlockTimeout, Lock!Next
<1> QED BY <1>1, <1>2, Invariant, PTL DEF Spec, Lock!Spec
=============================================================================
