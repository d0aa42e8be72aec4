---------------------------- MODULE PthreadProofs ----------------------------
(***************************************************************************)
(* Theorems about the synchronisation objects of libpthread and about the  *)
(* life of its threads, for any finite set of threads and any values of    *)
(* the other constants.                                                    *)
(***************************************************************************)
EXTENDS Pthread, FiniteSetTheorems, SequenceTheorems, WellFoundedInduction, TLAPS

-----------------------------------------------------------------------------
(***************************************************************************)
(* The life of threads.                                                    *)
(***************************************************************************)

(***************************************************************************)
(* Where a thread is: it works on no block, it waits to join, it sets a    *)
(* block up, or it takes one apart.                                        *)
(***************************************************************************)
Idle == {"run", "exit", "halt", "halted"}
Ending == {"withdraw", "free", "terminate"}
LifePlaces ==
    Idle \cup Ending
    \cup {"halt new", "slot", "setup", "count", "publish", "start", "join", "halt old", "reap"}

Tcbs ==
    [state : {"NONE", "NEW", "JOINABLE", "DETACHED", "EXITED", "TERMINATED"},
     id : Nat, stack : BOOLEAN, kernel : BOOLEAN]

LifeObject ==
    [kind : {Life}, spin : {FALSE}, tcb : [Threads -> Tcbs], running : SUBSET Threads,
     threads : Seq(Threads \cup {None}), num : Nat, free : Seq(Threads), total : Nat,
     exited : BOOLEAN, unclaimed : SUBSET Threads, of : [Threads -> Threads \cup {None}]]

\* Nobody sleeps, and nobody has anybody to wake.
AllAwake ==
    /\ call = [t \in Threads |-> "none"]
    /\ waking = [t \in Threads |-> <<>>]

LifeTypeOK == object \in LifeObject /\ pc \in [Threads -> LifePlaces] /\ AllAwake

(***************************************************************************)
(* The invariant, as a relation between the parts of the object: B the     *)
(* control blocks, R the threads that run, T the thread ID table and n its *)
(* fill, F the blocks on the free list, U the threads not yet joined or    *)
(* detached, O the blocks that threads work on, P where the threads are.   *)
(***************************************************************************)

\* The thread has a block that is its to join, to set up or to take apart.
Claim(R, P, t) == t \in R /\ P[t] \notin Idle

\* A block has one claimant at a time, which finds no thread running on it
\* except where it stops the thread next.
ClaimFits(R, F, U, t, o, p) ==
    /\ o \in Threads /\ o \notin U
    /\ p # "terminate" => o \notin F
    /\ o = t => p \in Ending
    /\ o # t /\ p \notin {"halt new", "join", "halt old"} => o \notin R

ClaimsOK(R, F, U, O, P) ==
    /\ \A t, v \in Threads : Claim(R, P, t) /\ Claim(R, P, v) /\ O[t] = O[v] => t = v
    /\ \A t \in Threads : Claim(R, P, t) => ClaimFits(R, F, U, t, O[t], P[t])

\* The state of a block tells where its thread, and the claimant, may be.
RunnerFits(b, p) ==
    /\ b.state \in {"JOINABLE", "DETACHED", "EXITED", "TERMINATED"}
    /\ p # "halted"
    /\ p = "halt" <=> b.state \in {"EXITED", "TERMINATED"}
    /\ b.stack /\ b.kernel

BlockFits(b, p) ==
    /\ p = "halt new" => b.state = "TERMINATED"
    /\ p = "slot" => b.state = "NEW"
    /\ p = "setup" => b.state \in {"NEW", "TERMINATED"}
    /\ p \in {"count", "publish", "start"} =>
          b.state \in {"JOINABLE", "DETACHED"} /\ b.stack /\ b.kernel
    /\ p = "join" => b.state \in {"JOINABLE", "EXITED"}
    /\ p \in {"halt old", "reap"} => b.state = "EXITED"
    /\ p \in Ending => b.state \in {"JOINABLE", "DETACHED", "EXITED"}
    /\ b.id = 0 <=> p = "slot"

StatesOK(B, R, O, P) ==
    /\ \A u \in R : RunnerFits(B[u], P[u])
    /\ \A t \in Threads : Claim(R, P, t) => BlockFits(B[O[t]], P[t])

ListsOK(B, R, F, U, O, P) ==
    /\ \A u \in U : B[u].state \in {"JOINABLE", "EXITED"}
    /\ \A u \in F : \/ B[u].state = "TERMINATED"
                    \/ \E t \in Threads : Claim(R, P, t) /\ P[t] = "terminate" /\ O[t] = u

\* IDs are distinct, and there where a block has one.
IdsOK(B, n) ==
    /\ \A u \in Threads : B[u].id <= n /\ (B[u].id = 0 => B[u].state \in {"NONE", "NEW"})
    /\ \A u, v \in Threads : u # v /\ B[u].id = B[v].id => B[u].id = 0

\* The thread ID table: entries are right, there where they are needed, and
\* gone before the block is freed.
Listed(u, o, p) == p # "halt" /\ ~(p \in {"free", "terminate"} /\ o = u)

EntryFits(e, o, p) ==
    /\ p = "start" => e = o
    /\ p \in {"free", "terminate"} => e = None

TableOK(B, R, T, n, F, O, P) ==
    /\ n <= Len(T) /\ n > 0
    /\ \A i \in 1..Len(T) : T[i] \in Threads => B[T[i]].id = i
    /\ \A u \in R : Listed(u, O[u], P[u]) => T[B[u].id] = u
    /\ \A t \in Threads : Claim(R, P, t) => EntryFits(T[B[O[t]].id], O[t], P[t])
    /\ \A u \in F : B[u].id > 0 /\ T[B[u].id] = None

PartsOK(B, R, T, n, F, U, O, P) ==
    /\ B \in [Threads -> Tcbs] /\ R \subseteq Threads /\ T \in Seq(Threads \cup {None}) /\ n \in Nat
    /\ F \subseteq Threads /\ U \subseteq Threads /\ O \in [Threads -> Threads \cup {None}]
    /\ P \in [Threads -> LifePlaces]

LifeParts(B, R, T, n, F, U, O, P) ==
    /\ PartsOK(B, R, T, n, F, U, O, P)
    /\ ClaimsOK(R, F, U, O, P) /\ StatesOK(B, R, O, P)
    /\ ListsOK(B, R, F, U, O, P) /\ IdsOK(B, n) /\ TableOK(B, R, T, n, F, O, P)

\* v is counted in __pthread_total: it lives, or is about to be started.
Alive(R, O, P, v) ==
    /\ v \in R /\ P[v] \notin {"exit", "halt"}
    /\ ~(v \in R /\ P[v] \notin {"run", "exit", "halt", "halted", "join"} /\ O[v] = v)

Making(R, P, v) == v \in R /\ P[v] \in {"publish", "start"}

Tallied(R, O, P, v) == Alive(R, O, P, v) \/ \E t \in R : Making(R, P, t) /\ O[t] = v

Tally(R, O, P) == {v \in Threads : Tallied(R, O, P, v)}

TallyOK(R, O, P, total, exited) == total = IF exited THEN 0 ELSE Cardinality(Tally(R, O, P))

LifeInv ==
    /\ LifeTypeOK
    /\ LifeParts(object.tcb, object.running, object.threads, object.num, ToSet(object.free),
                 object.unclaimed, object.of, pc)
    /\ IsInjective(object.free)
    /\ TallyOK(object.running, object.of, pc, object.total, object.exited)

-----------------------------------------------------------------------------
LifeIs(o, tcb, running, threads, num, free, total, exited, unclaimed, of) ==
    /\ o \in LifeObject /\ o.tcb = tcb /\ o.running = running /\ o.threads = threads
    /\ o.num = num /\ o.free = free /\ o.total = total /\ o.exited = exited
    /\ o.unclaimed = unclaimed /\ o.of = of

LEMMA LifeFields ==
  ASSUME object \in LifeObject
  PROVE  /\ object.kind = Life /\ object.tcb \in [Threads -> Tcbs]
         /\ object.running \in SUBSET Threads /\ object.threads \in Seq(Threads \cup {None})
         /\ object.num \in Nat /\ object.free \in Seq(Threads) /\ object.total \in Nat
         /\ object.exited \in BOOLEAN /\ object.unclaimed \in SUBSET Threads
         /\ object.of \in [Threads -> Threads \cup {None}]
BY DEF LifeObject

LEMMA SetTcb ==
  ASSUME NEW o \in LifeObject, NEW x \in [Threads -> Tcbs]
  PROVE  LifeIs(With(o, [tcb |-> x]), x, o.running, o.threads, o.num, o.free, o.total,
                o.exited, o.unclaimed, o.of)
BY DEF LifeObject, LifeIs, With

LEMMA SetRunning ==
  ASSUME NEW o \in LifeObject, NEW x \in SUBSET Threads
  PROVE  LifeIs(With(o, [running |-> x]), o.tcb, x, o.threads, o.num, o.free, o.total,
                o.exited, o.unclaimed, o.of)
BY DEF LifeObject, LifeIs, With

LEMMA SetThreads ==
  ASSUME NEW o \in LifeObject, NEW x \in Seq(Threads \cup {None})
  PROVE  LifeIs(With(o, [threads |-> x]), o.tcb, o.running, x, o.num, o.free, o.total,
                o.exited, o.unclaimed, o.of)
BY DEF LifeObject, LifeIs, With

LEMMA SetFree ==
  ASSUME NEW o \in LifeObject, NEW x \in Seq(Threads)
  PROVE  LifeIs(With(o, [free |-> x]), o.tcb, o.running, o.threads, o.num, x, o.total,
                o.exited, o.unclaimed, o.of)
BY DEF LifeObject, LifeIs, With

LEMMA SetTotal ==
  ASSUME NEW o \in LifeObject, NEW x \in Nat
  PROVE  LifeIs(With(o, [total |-> x]), o.tcb, o.running, o.threads, o.num, o.free,
                x, o.exited, o.unclaimed, o.of)
BY DEF LifeObject, LifeIs, With

LEMMA SetUnclaimed ==
  ASSUME NEW o \in LifeObject, NEW x \in SUBSET Threads
  PROVE  LifeIs(With(o, [unclaimed |-> x]), o.tcb, o.running, o.threads, o.num, o.free,
                o.total, o.exited, x, o.of)
BY DEF LifeObject, LifeIs, With

LEMMA SetOf ==
  ASSUME NEW o \in LifeObject, NEW x \in [Threads -> Threads \cup {None}]
  PROVE  LifeIs(With(o, [of |-> x]), o.tcb, o.running, o.threads, o.num, o.free,
                o.total, o.exited, o.unclaimed, x)
BY DEF LifeObject, LifeIs, With

LEMMA SetTable ==
  ASSUME NEW o \in LifeObject, NEW x \in Nat, NEW y \in Seq(Threads \cup {None})
  PROVE  LifeIs(With(o, [num |-> x, threads |-> y]), o.tcb, o.running, y, x, o.free, o.total, o.exited,
                o.unclaimed, o.of)
BY DEF LifeObject, LifeIs, With

LEMMA SetStarted ==
  ASSUME NEW o \in LifeObject, NEW x \in SUBSET Threads, NEW y \in SUBSET Threads
  PROVE  LifeIs(With(o, [running |-> x, unclaimed |-> y]), o.tcb, x, o.threads, o.num, o.free, o.total,
                o.exited, y, o.of)
BY DEF LifeObject, LifeIs, With

LEMMA SetExit ==
  ASSUME NEW o \in LifeObject, NEW x \in Nat, NEW y \in BOOLEAN
  PROVE  LifeIs(With(o, [total |-> x, exited |-> y]), o.tcb, o.running, o.threads, o.num, o.free,
                x, y, o.unclaimed, o.of)
BY DEF LifeObject, LifeIs, With

LEMMA Smallest ==
  ASSUME NEW S \in SUBSET Nat, S # {}
  PROVE  \E x \in S : \A y \in S : x <= y
<1>1. PICK x \in S : \A y \in S : ~(<<y, x>> \in OpToRel(<, Nat))
  BY NatLessThanWellFounded, WFMin, Zenon
<1>2. ASSUME NEW y \in S PROVE x <= y
  <2>1. x \in Nat /\ y \in Nat
    OBVIOUS
  <2>2. y < x => <<y, x>> \in OpToRel(<, Nat)
    BY <2>1 DEF OpToRel
  <2>3. ~(y < x)
    BY <1>1, <2>2, Zenon
  <2> QED BY <2>1, <2>3
<1> QED BY <1>2

LEMMA Positive == \A k \in Nat : k > 0 => k # 0
OBVIOUS

LEMMA Concatenation ==
  ASSUME NEW S, NEW a \in Seq(S), NEW b \in Seq(S)
  PROVE  a \o b \in Seq(S) /\ Len(a \o b) = Len(a) + Len(b)
OBVIOUS

LEMMA Removing ==
  ASSUME NEW S, NEW q, q \in Seq(S), IsInjective(q), NEW i \in 1..Len(q)
  PROVE  RemoveAt(q, i) \in Seq(S) /\ IsInjective(RemoveAt(q, i))
        /\ ToSet(RemoveAt(q, i)) = ToSet(q) \ {q[i]}
<1> DEFINE a == SubSeq(q, 1, i - 1)
           b == SubSeq(q, i + 1, Len(q))
           r == a \o b
<1>1. a \in Seq(S) /\ Len(a) = i - 1 /\ \A j \in 1..(i - 1) : a[j] = q[j]
  OBVIOUS
<1>2. b \in Seq(S) /\ Len(b) = Len(q) - i /\ \A j \in 1..(Len(q) - i) : b[j] = q[i + j]
  OBVIOUS
<1> HIDE DEF a, b
<1>3. r \in Seq(S) /\ Len(r) = Len(q) - 1
  <2>1. r \in Seq(S) /\ Len(r) = Len(a) + Len(b)
    BY <1>1, <1>2, Concatenation
  <2>2. Len(a) + Len(b) = Len(q) - 1
    BY <1>1, <1>2
  <2> QED BY <2>1, <2>2
<1>4. ASSUME NEW j \in 1..Len(r) PROVE r[j] = IF j < i THEN q[j] ELSE q[j + 1]
  <2>1. CASE j < i
    BY <1>1, <1>2, <1>3, <2>1
  <2>2. CASE j >= i
    <3>1. r[j] = b[j - (i - 1)] 
      BY <1>1, <1>2, <1>3, <2>2
    <3>2. b[j - (i - 1)] = q[i + (j - (i - 1))] /\ i + (j - (i - 1)) = j + 1
      BY <1>1, <1>2, <1>3, <2>2
    <3> QED BY <3>1, <3>2, <2>2
  <2> QED BY <2>1, <2>2, <1>3
<1> HIDE DEF r
<1>5. \A j, k \in 1..Len(q) : q[j] = q[k] => j = k
  BY DEF IsInjective
<1>6. IsInjective(r)
  <2> SUFFICES ASSUME NEW j \in 1..Len(r), NEW k \in 1..Len(r), r[j] = r[k] PROVE j = k
    BY <1>3 DEF IsInjective
  <2> QED BY <1>3, <1>4, <1>5
<1>7. ToSet(r) \subseteq ToSet(q) \ {q[i]}
  <2> SUFFICES ASSUME NEW j \in 1..Len(r) PROVE r[j] \in ToSet(q) \ {q[i]}
    BY <1>3 DEF ToSet
  <2>1. \E k \in 1..Len(q) : r[j] = q[k] /\ k # i
    <3>1. CASE j < i
      BY <1>3, <1>4, <3>1
    <3>2. CASE j >= i
      <4>1. j + 1 \in 1..Len(q) /\ r[j] = q[j + 1] /\ j + 1 # i
        BY <1>3, <1>4, <3>2
      <4> QED BY <4>1
    <3> QED BY <3>1, <3>2
  <2> QED BY <1>5, <2>1 DEF ToSet
<1>8. ToSet(q) \ {q[i]} \subseteq ToSet(r)
  <2> SUFFICES ASSUME NEW k \in 1..Len(q), q[k] # q[i] PROVE \E j \in 1..Len(r) : r[j] = q[k]
    BY <1>3 DEF ToSet
  <2>1. CASE k < i
    BY <1>3, <1>4, <2>1
  <2>2. CASE k > i
    <3>1. k - 1 \in 1..Len(r) /\ r[k - 1] = q[k]
      BY <1>3, <1>4, <2>2
    <3> QED BY <3>1
  <2> QED BY <2>1, <2>2
<1> QED BY <1>3, <1>6, <1>7, <1>8 DEF r, a, b, RemoveAt

LEMMA Prepending ==
  ASSUME NEW S, NEW q, q \in Seq(S), IsInjective(q), NEW u \in S, u \notin ToSet(q)
  PROVE  Enqueue(q, u) \in Seq(S) /\ IsInjective(Enqueue(q, u))
        /\ ToSet(Enqueue(q, u)) = ToSet(q) \cup {u}
<1> DEFINE r == <<u>> \o q
<1>1. r \in Seq(S) /\ Len(r) = Len(q) + 1 /\ r[1] = u /\ \A i \in 1..Len(q) : r[i + 1] = q[i]
  OBVIOUS
<1>2. Len(q) \in Nat
  OBVIOUS
<1> HIDE DEF r
<1>3. \A i \in 1..Len(r) : i = 1 \/ (i - 1 \in 1..Len(q) /\ r[i] = q[i - 1])
  <2> SUFFICES ASSUME NEW i \in 1..Len(r), i # 1 PROVE i - 1 \in 1..Len(q) /\ r[i] = q[i - 1]
    OBVIOUS
  <2>1. i - 1 \in 1..Len(q) /\ (i - 1) + 1 = i
    BY <1>1, <1>2
  <2> QED BY <1>1, <2>1
<1>4. \A i \in 1..Len(q) : q[i] # u
  BY DEF ToSet
<1>5. \A i, j \in 1..Len(q) : q[i] = q[j] => i = j
  BY DEF IsInjective
<1>6. IsInjective(r)
  <2> SUFFICES ASSUME NEW i \in 1..Len(r), NEW j \in 1..Len(r), r[i] = r[j] PROVE i = j
    BY <1>1 DEF IsInjective
  <2> QED BY <1>1, <1>2, <1>3, <1>4, <1>5
<1>7. ToSet(r) = ToSet(q) \cup {u}
  <2>1. \A i \in 1..Len(q) : i + 1 \in 1..Len(r)
    BY <1>1, <1>2
  <2>2. 1 \in 1..Len(r)
    BY <1>1, <1>2
  <2>3. ToSet(r) = {r[i] : i \in 1..Len(r)} /\ ToSet(q) = {q[i] : i \in 1..Len(q)}
    BY <1>1 DEF ToSet
  <2> QED BY <1>1, <1>3, <2>1, <2>2, <2>3
<1> QED BY <1>1, <1>6, <1>7 DEF r, Enqueue

LEMMA ReusableIs ==
  ASSUME object \in LifeObject, Reusable # 0
  PROVE  Reusable \in 1..Len(object.free) /\ object.tcb[object.free[Reusable]].state = "TERMINATED"
<1> DEFINE I == {i \in 1..Len(object.free) : object.tcb[object.free[i]].state = "TERMINATED"}
<1>1. Reusable = IF I # {} THEN Min(I) ELSE 0
  BY DEF Reusable, SelectInSeq
<1> HIDE DEF I
<1>2. I # {} /\ Reusable = Min(I)
  BY <1>1
<1>3. I \in SUBSET Nat
  BY DEF I
<1>4. Min(I) \in I
  BY <1>2, <1>3, Smallest DEF Min
<1> QED BY <1>2, <1>4 DEF I

-----------------------------------------------------------------------------
(***************************************************************************)
(* What the functions do to the parts.                                     *)
(***************************************************************************)
Put(f, g, t, x) == g[t] = x /\ \A v \in Threads : v # t => g[v] = f[v]

LEMMA Types ==
  ASSUME NEW B, NEW R, NEW T, NEW n, NEW F, NEW U, NEW O, NEW P, PartsOK(B, R, T, n, F, U, O, P)
  PROVE  /\ \A u \in Threads : B[u] \in Tcbs /\ B[u].id \in Nat /\ P[u] \in LifePlaces
                               /\ O[u] \in Threads \cup {None}
         /\ R \subseteq Threads /\ F \subseteq Threads /\ U \subseteq Threads
         /\ Len(T) \in Nat /\ n \in Nat
BY DEF PartsOK, Tcbs

\* The claims of the threads other than t are as before, and so is what they
\* rely on; t's claim, if it has one, is in order and its own.
OthersKept(R, R1, F, F1, U, U1, O, O1, P, P1, t) ==
    \A v \in Threads : v # t /\ Claim(R1, P1, v) =>
        /\ Claim(R, P, v) /\ P1[v] = P[v] /\ O1[v] = O[v]
        /\ O[v] \in U1 => O[v] \in U
        /\ O[v] \in F1 => O[v] \in F
        /\ O[v] \in R1 => O[v] \in R

OwnClaim(R, R1, F1, U1, O, O1, P, P1, t) ==
    Claim(R1, P1, t) =>
        /\ ClaimFits(R1, F1, U1, t, O1[t], P1[t])
        /\ \A v \in Threads : v # t /\ Claim(R, P, v) => O[v] # O1[t]

LEMMA ClaimsStep ==
  ASSUME NEW R, NEW R1, NEW F, NEW F1, NEW U, NEW U1, NEW O, NEW O1, NEW P, NEW P1, NEW t \in Threads,
         ClaimsOK(R, F, U, O, P),
         OthersKept(R, R1, F, F1, U, U1, O, O1, P, P1, t), OwnClaim(R, R1, F1, U1, O, O1, P, P1, t)
  PROVE  ClaimsOK(R1, F1, U1, O1, P1)
<1>1. ASSUME NEW v \in Threads, v # t, Claim(R1, P1, v) PROVE ClaimFits(R1, F1, U1, v, O1[v], P1[v])
  <2>1. ClaimFits(R, F, U, v, O[v], P[v]) /\ P1[v] = P[v] /\ O1[v] = O[v]
    BY <1>1 DEF ClaimsOK, OthersKept
  <2>2. /\ O[v] \in U1 => O[v] \in U
        /\ O[v] \in F1 => O[v] \in F
        /\ O[v] \in R1 => O[v] \in R
    BY <1>1 DEF OthersKept
  <2> QED BY <2>1, <2>2 DEF ClaimFits
<1>2. ASSUME NEW v \in Threads, NEW x \in Threads, Claim(R1, P1, v), Claim(R1, P1, x), O1[v] = O1[x]
      PROVE  v = x
  BY <1>2 DEF ClaimsOK, OthersKept, OwnClaim
<1> QED BY <1>1, <1>2 DEF ClaimsOK, OwnClaim

\* Nothing changes in the table.
TableKept(B, B1, R1, T, F, F1, O1, P1, t) ==
    /\ \A u \in Threads : B1[u].id = B[u].id
    /\ \A v \in R1 : Listed(v, O1[v], P1[v]) => T[B[v].id] = v
    /\ Claim(R1, P1, t) => EntryFits(T[B[O1[t]].id], O1[t], P1[t])
    /\ \A u \in F1 : u \in F \/ (B[u].id > 0 /\ T[B[u].id] = None)

LEMMA TableStep ==
  ASSUME NEW B, NEW B1, NEW R, NEW R1, NEW T, NEW n, NEW F, NEW F1, NEW U, NEW U1, NEW O, NEW O1,
         NEW P, NEW P1, NEW t \in Threads,
         PartsOK(B1, R1, T, n, F1, U1, O1, P1), ClaimsOK(R, F, U, O, P), TableOK(B, R, T, n, F, O, P),
         OthersKept(R, R1, F, F1, U, U1, O, O1, P, P1, t), OwnClaim(R, R1, F1, U1, O, O1, P, P1, t),
         TableKept(B, B1, R1, T, F, F1, O1, P1, t)
  PROVE  TableOK(B1, R1, T, n, F1, O1, P1)
<1>1. R1 \subseteq Threads /\ F1 \subseteq Threads
  BY DEF PartsOK
<1>2. \A i \in 1..Len(T) : T[i] \in Threads => B1[T[i]].id = i
  BY DEF TableOK, TableKept
<1>3. \A v \in R1 : Listed(v, O1[v], P1[v]) => T[B1[v].id] = v
  BY <1>1 DEF TableKept
<1>4. ASSUME NEW v \in Threads, Claim(R1, P1, v) PROVE EntryFits(T[B1[O1[v]].id], O1[v], P1[v])
  <2>1. CASE v = t
    <3>1. O1[t] \in Threads
      BY <1>4, <2>1 DEF OwnClaim, ClaimFits
    <3> QED BY <1>4, <2>1, <3>1 DEF TableKept
  <2>2. CASE v # t
    <3>1. Claim(R, P, v) /\ P1[v] = P[v] /\ O1[v] = O[v]
      BY <1>4, <2>2 DEF OthersKept
    <3>2. O[v] \in Threads /\ EntryFits(T[B[O[v]].id], O[v], P[v])
      BY <3>1 DEF ClaimsOK, ClaimFits, TableOK
    <3> QED BY <3>1, <3>2 DEF TableKept
  <2> QED BY <2>1, <2>2
<1>5. \A u \in F1 : B1[u].id > 0 /\ T[B1[u].id] = None
  BY <1>1 DEF TableOK, TableKept
<1> QED BY <1>2, <1>3, <1>4, <1>5 DEF TableOK

\* What is on the free list stays there.
ListsKept(B, B1, R, R1, F, F1, U, U1, O, O1, P, P1) ==
    /\ \A u \in U1 : (u \in U /\ B1[u] = B[u]) \/ B1[u].state \in {"JOINABLE", "EXITED"}
    /\ \A u \in F1 : u \in F /\ (B[u].state = "TERMINATED" => B1[u].state = "TERMINATED")
    /\ \A v \in Threads : Claim(R, P, v) /\ P[v] = "terminate" /\ O[v] \in F1 =>
          \/ Claim(R1, P1, v) /\ P1[v] = "terminate" /\ O1[v] = O[v]
          \/ B1[O[v]].state = "TERMINATED"

LEMMA ListsStep ==
  ASSUME NEW B, NEW B1, NEW R, NEW R1, NEW F, NEW F1, NEW U, NEW U1, NEW O, NEW O1, NEW P, NEW P1,
         ListsOK(B, R, F, U, O, P), ListsKept(B, B1, R, R1, F, F1, U, U1, O, O1, P, P1)
  PROVE  ListsOK(B1, R1, F1, U1, O1, P1)
<1>1. ASSUME NEW u \in F1, B1[u].state # "TERMINATED"
      PROVE  \E v \in Threads : Claim(R1, P1, v) /\ P1[v] = "terminate" /\ O1[v] = u
  <2>1. PICK v \in Threads : Claim(R, P, v) /\ P[v] = "terminate" /\ O[v] = u
    BY <1>1 DEF ListsOK, ListsKept
  <2> QED BY <1>1, <2>1 DEF ListsKept
<1> QED BY <1>1 DEF ListsOK, ListsKept

\* One entry of the table is replaced.
Replaced(T, T1, k, e) ==
    Len(T1) = Len(T) /\ T1[k] = e /\ \A i \in 1..Len(T) : i # k => T1[i] = T[i]

\* Entry m is free in a table that is as before or enlarged.
Enlarged(T, T1, m) ==
    /\ m <= Len(T1) /\ Len(T) <= Len(T1) /\ T1[m] = None
    /\ \A i \in 1..Len(T) : i # m => T1[i] = T[i]
    /\ \A i \in 1..Len(T1) : T1[i] \in Threads => i \in 1..Len(T)

\* t may join u, or clean up after it.
MayClaim(b, u, t, p) == (p = "join" /\ u # t) \/ (p = "halt old" /\ b.state = "EXITED")

\* The block has what a thread needs, or pthread_create gives it up.
SetUpFor(b, p) ==
    /\ b.state \in {"JOINABLE", "DETACHED"}
    /\ (p = "count" /\ b.stack /\ b.kernel) \/ p = "withdraw"

TallyKept(R, R1, O, O1, P, P1) ==
    /\ R \subseteq Threads /\ R1 \subseteq Threads
    /\ \A v \in Threads : Alive(R1, O1, P1, v) <=> Alive(R, O, P, v)
    /\ \A v \in Threads : Making(R1, P1, v) <=> Making(R, P, v)
    /\ \A v \in Threads : Making(R, P, v) => O1[v] = O[v]

SameTally(R, R1, O, O1, P, P1) == Tally(R1, O1, P1) = Tally(R, O, P)

LEMMA TallyStep ==
  ASSUME NEW R, NEW R1, NEW O, NEW O1, NEW P, NEW P1, TallyKept(R, R1, O, O1, P, P1)
  PROVE  SameTally(R, R1, O, O1, P, P1)
<1>1. ASSUME NEW v \in Threads
      PROVE  (\E t \in R1 : Making(R1, P1, t) /\ O1[t] = v) <=> (\E t \in R : Making(R, P, t) /\ O[t] = v)
  <2>1. ASSUME NEW t \in R1, Making(R1, P1, t), O1[t] = v
        PROVE  \E w \in R : Making(R, P, w) /\ O[w] = v
    <3>1. t \in R /\ Making(R, P, t) /\ O[t] = v
      BY <2>1 DEF TallyKept, Making
    <3> QED BY <3>1
  <2>2. ASSUME NEW t \in R, Making(R, P, t), O[t] = v
        PROVE  \E w \in R1 : Making(R1, P1, w) /\ O1[w] = v
    <3>1. t \in R1 /\ Making(R1, P1, t) /\ O1[t] = v
      BY <2>2 DEF TallyKept, Making
    <3> QED BY <3>1
  <2> QED BY <2>1, <2>2
<1>2. \A v \in Threads : Tallied(R1, O1, P1, v) <=> Tallied(R, O, P, v)
  BY <1>1 DEF TallyKept, Tallied
<1> QED BY <1>2 DEF Tally, SameTally

\* A block's thread and its claimant fit the new state, the others are as before.
LEMMA StatesStep ==
  ASSUME NEW B, NEW B1, NEW R, NEW R1, NEW F, NEW F1, NEW U, NEW U1, NEW O, NEW O1, NEW P, NEW P1,
         NEW t \in Threads, StatesOK(B, R, O, P), OthersKept(R, R1, F, F1, U, U1, O, O1, P, P1, t),
         \A v \in R1 : (v \in R /\ B1[v] = B[v] /\ P1[v] = P[v]) \/ RunnerFits(B1[v], P1[v]),
         \A v \in Threads : v # t /\ Claim(R1, P1, v) => B1[O[v]] = B[O[v]] \/ BlockFits(B1[O[v]], P[v]),
         Claim(R1, P1, t) => BlockFits(B1[O1[t]], P1[t])
  PROVE  StatesOK(B1, R1, O1, P1)
<1>1. \A v \in R1 : RunnerFits(B1[v], P1[v])
  BY DEF StatesOK
<1>2. ASSUME NEW v \in Threads, Claim(R1, P1, v) PROVE BlockFits(B1[O1[v]], P1[v])
  BY <1>2 DEF StatesOK, OthersKept
<1> QED BY <1>1, <1>2 DEF StatesOK

TypeFacts(B, R, T, n, F, U, O, P) ==
    /\ \A u \in Threads : B[u] \in Tcbs /\ B[u].id \in Nat /\ P[u] \in LifePlaces
                          /\ O[u] \in Threads \cup {None}
    /\ R \subseteq Threads /\ F \subseteq Threads /\ U \subseteq Threads
    /\ Len(T) \in Nat /\ n \in Nat

ClaimFacts(B, R, T, F, U, O, P) ==
    \A v \in Threads : Claim(R, P, v) =>
        /\ O[v] \in Threads /\ ClaimFits(R, F, U, v, O[v], P[v])
        /\ BlockFits(B[O[v]], P[v]) /\ EntryFits(T[B[O[v]].id], O[v], P[v])
        /\ \A w \in Threads : Claim(R, P, w) /\ O[v] = O[w] => v = w

RunnerFacts(B, R, T, O, P) ==
    \A v \in R : RunnerFits(B[v], P[v]) /\ (Listed(v, O[v], P[v]) => T[B[v].id] = v)

LEMMA PartsFacts ==
  ASSUME NEW B, NEW R, NEW T, NEW n, NEW F, NEW U, NEW O, NEW P, LifeParts(B, R, T, n, F, U, O, P)
  PROVE  /\ PartsOK(B, R, T, n, F, U, O, P) /\ ClaimsOK(R, F, U, O, P) /\ StatesOK(B, R, O, P)
         /\ ListsOK(B, R, F, U, O, P) /\ IdsOK(B, n) /\ TableOK(B, R, T, n, F, O, P)
         /\ TypeFacts(B, R, T, n, F, U, O, P) /\ ClaimFacts(B, R, T, F, U, O, P)
         /\ RunnerFacts(B, R, T, O, P)
<1>1. /\ PartsOK(B, R, T, n, F, U, O, P) /\ ClaimsOK(R, F, U, O, P) /\ StatesOK(B, R, O, P)
      /\ ListsOK(B, R, F, U, O, P) /\ IdsOK(B, n) /\ TableOK(B, R, T, n, F, O, P)
  BY DEF LifeParts
<1>2. TypeFacts(B, R, T, n, F, U, O, P)
  BY <1>1, Types DEF TypeFacts
<1>3. ClaimFacts(B, R, T, F, U, O, P)
  BY <1>1 DEF ClaimFacts, ClaimsOK, ClaimFits, StatesOK, TableOK
<1>4. RunnerFacts(B, R, T, O, P)
  BY <1>1 DEF RunnerFacts, StatesOK, TableOK
<1> QED BY <1>1, <1>2, <1>3, <1>4

\* __pthread_alloc takes a terminated block off the free list.
LEMMA RecycleParts ==
  ASSUME NEW B, NEW R, NEW T, NEW n, NEW F, NEW U, NEW O, NEW P, LifeParts(B, R, T, n, F, U, O, P),
         NEW t \in R, P[t] = "run",
         NEW u \in F, B[u].state = "TERMINATED",
         NEW O1 \in [Threads -> Threads \cup {None}], Put(O, O1, t, u),
         NEW P1 \in [Threads -> LifePlaces], Put(P, P1, t, "halt new")
  PROVE  /\ LifeParts(B, R, T, n, F \ {u}, U, O1, P1)
         /\ SameTally(R, R, O, O1, P, P1)
<1>1. /\ PartsOK(B, R, T, n, F, U, O, P) /\ ClaimsOK(R, F, U, O, P) /\ StatesOK(B, R, O, P)
      /\ ListsOK(B, R, F, U, O, P) /\ IdsOK(B, n) /\ TableOK(B, R, T, n, F, O, P)
      /\ TypeFacts(B, R, T, n, F, U, O, P) /\ ClaimFacts(B, R, T, F, U, O, P)
      /\ RunnerFacts(B, R, T, O, P)
  BY PartsFacts
<1>2. t \in Threads /\ u \in Threads
  BY <1>1 DEF TypeFacts, Put
<1>3. \A v \in Threads : Claim(R, P, v) => O[v] # u
  BY <1>1 DEF TypeFacts, ClaimFacts, ClaimFits, BlockFits, Ending
<1>4. u # t /\ u \notin U
  BY <1>2, <1>3, <1>1 DEF TypeFacts, RunnerFacts, RunnerFits, ListsOK
<1>5. B[u].id # 0
  <2>1. B[u].id > 0
    BY <1>1 DEF TableOK
  <2>2. B[u].id \in Nat
    BY <1>1, <1>2 DEF TypeFacts
  <2> QED BY <2>1, <2>2, Positive, Zenon
<1>6. Claim(R, P1, t) /\ ~Claim(R, P, t) /\ \A v \in Threads : v # t =>
        (Claim(R, P1, v) <=> Claim(R, P, v))
  BY <1>2, <1>3, <1>4, <1>5 DEF Claim, Put, Idle
<1>7. PartsOK(B, R, T, n, F \ {u}, U, O1, P1)
  BY <1>2, <1>3, <1>4, <1>5, <1>6, <1>1 DEF TypeFacts, PartsOK
<1>8. OthersKept(R, R, F, F \ {u}, U, U, O, O1, P, P1, t)
  BY <1>2, <1>3, <1>4, <1>5, <1>6 DEF OthersKept, Put
<1>9. OwnClaim(R, R, F \ {u}, U, O, O1, P, P1, t)
  BY <1>2, <1>3, <1>4, <1>5, <1>6, <1>1 DEF TypeFacts, ClaimFacts, OwnClaim, ClaimFits, Put, Ending
<1>10. ClaimsOK(R, F \ {u}, U, O1, P1)
  BY <1>2, <1>8, <1>9, <1>1, ClaimsStep
<1>11. \A v \in R : (v \in R /\ B[v] = B[v] /\ P1[v] = P[v]) \/ RunnerFits(B[v], P1[v])
  BY <1>2, <1>3, <1>4, <1>5, <1>6, <1>1 DEF TypeFacts, RunnerFacts, RunnerFits, Put
<1>12. Claim(R, P1, t) => BlockFits(B[O1[t]], P1[t])
  BY <1>2, <1>3, <1>4, <1>5, <1>6 DEF BlockFits, Put, Ending
<1>13. StatesOK(B, R, O1, P1)
  BY <1>2, <1>8, <1>11, <1>12, <1>1, StatesStep
<1>14. ListsKept(B, B, R, R, F, F \ {u}, U, U, O, O1, P, P1)
  BY <1>2, <1>3, <1>4, <1>5, <1>6, <1>1 DEF TypeFacts, ListsKept, Put, Claim, Idle
<1>15. ListsOK(B, R, F \ {u}, U, O1, P1)
  BY <1>14, <1>1, ListsStep
<1>16. \A v \in R : Listed(v, O1[v], P1[v]) => T[B[v].id] = v
  BY <1>2, <1>3, <1>4, <1>5, <1>6, <1>1 DEF TypeFacts, RunnerFacts, Listed, Put
<1>17. Claim(R, P1, t) => EntryFits(T[B[O1[t]].id], O1[t], P1[t])
  BY <1>2, <1>3, <1>4, <1>5, <1>6, <1>1 DEF TypeFacts, ClaimFacts, EntryFits, Put
<1>18. TableKept(B, B, R, T, F, F \ {u}, O1, P1, t)
  BY <1>2, <1>3, <1>4, <1>5, <1>6, <1>16, <1>17, <1>1 DEF TypeFacts, TableKept, Put
<1>19. TableOK(B, R, T, n, F \ {u}, O1, P1)
  BY <1>2, <1>7, <1>8, <1>9, <1>18, <1>1, TableStep
<1>20. \A v \in Threads : Alive(R, O1, P1, v) <=> Alive(R, O, P, v)
  BY <1>2, <1>3, <1>4, <1>5, <1>6, <1>1 DEF TypeFacts, RunnerFacts, RunnerFits, ClaimFacts, ClaimFits,
    Alive, Put, Claim, Idle, Ending
<1>21. \A v \in Threads : (Making(R, P1, v) <=> Making(R, P, v)) /\ (Making(R, P, v) => O1[v] = O[v])
  BY <1>2, <1>3, <1>4, <1>5, <1>6, <1>1 DEF TypeFacts, RunnerFacts, RunnerFits, Making, Put
<1>22. TallyKept(R, R, O, O1, P, P1)
  BY <1>20, <1>21, <1>2, <1>3, <1>4, <1>5, <1>6, <1>1 DEF TallyKept, TypeFacts
<1>23. SameTally(R, R, O, O1, P, P1)
  BY <1>22, TallyStep, Zenon
<1> QED BY <1>23, <1>7, <1>10, <1>13, <1>15, <1>19, <1>1 DEF TypeFacts, LifeParts

\* A step that changes nothing but where the thread is.
LEMMA MoveParts ==
  ASSUME NEW B, NEW R, NEW T, NEW n, NEW F, NEW U, NEW O, NEW P, LifeParts(B, R, T, n, F, U, O, P),
         NEW t \in R, NEW p,
         \/ P[t] = "run" /\ p = "exit"
         \/ P[t] = "count" /\ p = "publish"
         \/ P[t] = "join" /\ p = "halt old" /\ B[O[t]].state = "EXITED",
         NEW P1 \in [Threads -> LifePlaces], Put(P, P1, t, p)
  PROVE  LifeParts(B, R, T, n, F, U, O, P1)
<1>1. /\ PartsOK(B, R, T, n, F, U, O, P) /\ ClaimsOK(R, F, U, O, P) /\ StatesOK(B, R, O, P)
      /\ ListsOK(B, R, F, U, O, P) /\ IdsOK(B, n) /\ TableOK(B, R, T, n, F, O, P)
      /\ TypeFacts(B, R, T, n, F, U, O, P) /\ ClaimFacts(B, R, T, F, U, O, P)
      /\ RunnerFacts(B, R, T, O, P)
  BY PartsFacts
<1>2. t \in Threads
  BY <1>1 DEF TypeFacts, Put
<1>3. (Claim(R, P1, t) => Claim(R, P, t)) /\ \A v \in Threads : v # t =>
        (Claim(R, P1, v) <=> Claim(R, P, v))
  BY <1>2 DEF Claim, Put, Idle
<1>4. Claim(R, P, t) => \A v \in Threads : v # t /\ Claim(R, P, v) => O[v] # O[t]
  BY <1>2, <1>3, <1>1 DEF TypeFacts, ClaimFacts
<1>5. p # "slot" /\ P[t] # "slot" /\ P[t] # "terminate"
  OBVIOUS
<1>6. PartsOK(B, R, T, n, F, U, O, P1)
  BY <1>2, <1>3, <1>4, <1>5, <1>1 DEF TypeFacts, PartsOK
<1>7. OthersKept(R, R, F, F, U, U, O, O, P, P1, t)
  BY <1>2, <1>3, <1>4, <1>5 DEF OthersKept, Put
<1>8. OwnClaim(R, R, F, U, O, O, P, P1, t)
  BY <1>2, <1>3, <1>4, <1>5, <1>1 DEF TypeFacts, ClaimFacts, OwnClaim, ClaimFits, Put, Ending
<1>9. ClaimsOK(R, F, U, O, P1)
  BY <1>2, <1>7, <1>8, <1>1, ClaimsStep
<1>10. \A v \in R : (v \in R /\ B[v] = B[v] /\ P1[v] = P[v]) \/ RunnerFits(B[v], P1[v])
  BY <1>2, <1>3, <1>4, <1>5, <1>1 DEF TypeFacts, RunnerFacts, RunnerFits, Put
<1>11. Claim(R, P1, t) => BlockFits(B[O[t]], P1[t])
  BY <1>2, <1>3, <1>4, <1>5, <1>1 DEF TypeFacts, ClaimFacts, BlockFits, Put, Ending
<1>12. StatesOK(B, R, O, P1)
  BY <1>2, <1>7, <1>10, <1>11, <1>1, StatesStep
<1>13. ListsKept(B, B, R, R, F, F, U, U, O, O, P, P1)
  BY <1>2, <1>3, <1>4, <1>5, <1>1 DEF TypeFacts, ListsKept, Put, Claim, Idle
<1>14. ListsOK(B, R, F, U, O, P1)
  BY <1>13, <1>1, ListsStep
<1>15. \A v \in R : Listed(v, O[v], P1[v]) => T[B[v].id] = v
  BY <1>2, <1>3, <1>4, <1>5, <1>1 DEF TypeFacts, RunnerFacts, Listed, Put
<1>16. Claim(R, P1, t) => EntryFits(T[B[O[t]].id], O[t], P1[t])
  BY <1>2, <1>3, <1>4, <1>5, <1>1 DEF TypeFacts, ClaimFacts, EntryFits, Put
<1>17. TableKept(B, B, R, T, F, F, O, P1, t)
  BY <1>2, <1>3, <1>4, <1>5, <1>15, <1>16, <1>1 DEF TypeFacts, TableKept, Put
<1>18. TableOK(B, R, T, n, F, O, P1)
  BY <1>2, <1>6, <1>7, <1>8, <1>17, <1>1, TableStep
<1> QED BY <1>6, <1>9, <1>12, <1>14, <1>18, <1>1 DEF TypeFacts, LifeParts

\* The thread of the block that t works on is stopped.
LEMMA StopParts ==
  ASSUME NEW B, NEW R, NEW T, NEW n, NEW F, NEW U, NEW O, NEW P, LifeParts(B, R, T, n, F, U, O, P),
         NEW t \in R, NEW p, NEW u, O[t] = u,
         \/ P[t] = "halt new" /\ p = "setup"
         \/ P[t] = "halt old" /\ p = "reap",
         NEW P1 \in [Threads -> LifePlaces], Put(P, P1, t, p)
  PROVE  /\ LifeParts(B, R \ {u}, T, n, F, U, O, P1)
         /\ SameTally(R, R \ {u}, O, O, P, P1)
<1>1. /\ PartsOK(B, R, T, n, F, U, O, P) /\ ClaimsOK(R, F, U, O, P) /\ StatesOK(B, R, O, P)
      /\ ListsOK(B, R, F, U, O, P) /\ IdsOK(B, n) /\ TableOK(B, R, T, n, F, O, P)
      /\ TypeFacts(B, R, T, n, F, U, O, P) /\ ClaimFacts(B, R, T, F, U, O, P)
      /\ RunnerFacts(B, R, T, O, P)
  BY PartsFacts
<1>2. t \in Threads /\ Claim(R, P, t) /\ u \in Threads
  BY <1>1 DEF TypeFacts, ClaimFacts, Claim, Idle
<1>3. u # t /\ u \notin U /\ u \notin F
  BY <1>2, <1>1 DEF TypeFacts, ClaimFacts, ClaimFits, Ending
<1>4. u \in R => P[u] = "halt"
  BY <1>2, <1>3, <1>1 DEF TypeFacts, ClaimFacts, BlockFits, RunnerFacts, RunnerFits
<1>5. ~Claim(R, P, u)
  BY <1>2, <1>3, <1>4, <1>1 DEF TypeFacts, ClaimFacts, BlockFits, RunnerFacts, RunnerFits, Claim, Idle
<1>6. Claim(R \ {u}, P1, t) /\ \A v \in Threads : v # t => (Claim(R \ {u}, P1, v) <=> Claim(R, P, v))
  BY <1>2, <1>3, <1>4, <1>5 DEF Claim, Put, Idle
<1>7. \A v \in Threads : v # t /\ Claim(R, P, v) => O[v] # O[t]
  BY <1>2, <1>3, <1>4, <1>5, <1>6, <1>1 DEF TypeFacts, ClaimFacts
<1>8. PartsOK(B, R \ {u}, T, n, F, U, O, P1)
  BY <1>2, <1>3, <1>4, <1>5, <1>6, <1>7, <1>1 DEF TypeFacts, PartsOK
<1>9. OthersKept(R, R \ {u}, F, F, U, U, O, O, P, P1, t)
  BY <1>2, <1>3, <1>4, <1>5, <1>6, <1>7 DEF OthersKept, Put
<1>10. OwnClaim(R, R \ {u}, F, U, O, O, P, P1, t)
  BY <1>2, <1>3, <1>4, <1>5, <1>6, <1>7, <1>1 DEF TypeFacts, ClaimFacts, OwnClaim, ClaimFits, Put, Ending
<1>11. ClaimsOK(R \ {u}, F, U, O, P1)
  BY <1>2, <1>9, <1>10, <1>1, ClaimsStep
<1>12. \A v \in R \ {u} : (v \in R /\ B[v] = B[v] /\ P1[v] = P[v]) \/ RunnerFits(B[v], P1[v])
  BY <1>2, <1>3, <1>4, <1>5, <1>6, <1>7, <1>1 DEF TypeFacts, RunnerFacts, RunnerFits, Put
<1>13. Claim(R \ {u}, P1, t) => BlockFits(B[O[t]], P1[t])
  BY <1>2, <1>3, <1>4, <1>5, <1>6, <1>7, <1>1 DEF TypeFacts, ClaimFacts, BlockFits, Put, Ending
<1>14. StatesOK(B, R \ {u}, O, P1)
  BY <1>2, <1>9, <1>12, <1>13, <1>1, StatesStep
<1>15. ListsKept(B, B, R, R \ {u}, F, F, U, U, O, O, P, P1)
  BY <1>2, <1>3, <1>4, <1>5, <1>6, <1>7, <1>1 DEF TypeFacts, ListsKept, Put
<1>16. ListsOK(B, R \ {u}, F, U, O, P1)
  BY <1>15, <1>1, ListsStep
<1>17. \A v \in R \ {u} : Listed(v, O[v], P1[v]) => T[B[v].id] = v
  BY <1>2, <1>3, <1>4, <1>5, <1>6, <1>7, <1>1 DEF TypeFacts, RunnerFacts, Listed, Put
<1>18. Claim(R \ {u}, P1, t) => EntryFits(T[B[O[t]].id], O[t], P1[t])
  BY <1>2, <1>3, <1>4, <1>5, <1>6, <1>7, <1>1 DEF TypeFacts, ClaimFacts, EntryFits, Put
<1>19. TableKept(B, B, R \ {u}, T, F, F, O, P1, t)
  BY <1>2, <1>3, <1>4, <1>5, <1>6, <1>7, <1>17, <1>18, <1>1 DEF TypeFacts, TableKept, Put
<1>20. TableOK(B, R \ {u}, T, n, F, O, P1)
  BY <1>2, <1>8, <1>9, <1>10, <1>19, <1>1, TableStep
<1>21. \A v \in Threads : Alive(R \ {u}, O, P1, v) <=> Alive(R, O, P, v)
  <2>1. ASSUME NEW v \in Threads, v # t, v # u PROVE Alive(R \ {u}, O, P1, v) <=> Alive(R, O, P, v)
    BY <2>1 DEF Alive, Put
  <2>2. Alive(R \ {u}, O, P1, t) <=> Alive(R, O, P, t)
    BY <1>2, <1>3, <1>4, <1>5, <1>6, <1>7 DEF Alive, Put
  <2>3. Alive(R \ {u}, O, P1, u) <=> Alive(R, O, P, u)
    BY <1>2, <1>3, <1>4, <1>5, <1>6, <1>7 DEF Alive
  <2> QED BY <2>1, <2>2, <2>3
<1>22. \A v \in Threads : (Making(R \ {u}, P1, v) <=> Making(R, P, v)) /\ (Making(R, P, v) => O[v] = O[v])
  BY <1>2, <1>3, <1>4, <1>5, <1>6, <1>7, <1>1 DEF TypeFacts, RunnerFacts, RunnerFits, Making, Put
<1>23. TallyKept(R, R \ {u}, O, O, P, P1)
  BY <1>21, <1>22, <1>2, <1>3, <1>4, <1>5, <1>6, <1>7, <1>1 DEF TallyKept, TypeFacts
<1>24. SameTally(R, R \ {u}, O, O, P, P1)
  BY <1>23, TallyStep, Zenon
<1> QED BY <1>24, <1>8, <1>11, <1>14, <1>16, <1>20, <1>1 DEF TypeFacts, LifeParts

\* The thread stops itself.
LEMMA HaltParts ==
  ASSUME NEW B, NEW R, NEW T, NEW n, NEW F, NEW U, NEW O, NEW P, LifeParts(B, R, T, n, F, U, O, P),
         NEW t \in R, P[t] = "halt",
         NEW P1 \in [Threads -> LifePlaces], Put(P, P1, t, "halted")
  PROVE  /\ LifeParts(B, R \ {t}, T, n, F, U, O, P1)
         /\ SameTally(R, R \ {t}, O, O, P, P1)
<1>1. /\ PartsOK(B, R, T, n, F, U, O, P) /\ ClaimsOK(R, F, U, O, P) /\ StatesOK(B, R, O, P)
      /\ ListsOK(B, R, F, U, O, P) /\ IdsOK(B, n) /\ TableOK(B, R, T, n, F, O, P)
      /\ TypeFacts(B, R, T, n, F, U, O, P) /\ ClaimFacts(B, R, T, F, U, O, P)
      /\ RunnerFacts(B, R, T, O, P)
  BY PartsFacts
<1>2. t \in Threads
  BY <1>1 DEF TypeFacts, Put
<1>3. ~Claim(R \ {t}, P1, t) /\ ~Claim(R, P, t) /\ \A v \in Threads : v # t =>
        (Claim(R \ {t}, P1, v) <=> Claim(R, P, v))
  BY <1>2 DEF Claim, Put, Idle
<1>4. PartsOK(B, R \ {t}, T, n, F, U, O, P1)
  BY <1>2, <1>3, <1>1 DEF TypeFacts, PartsOK
<1>5. OthersKept(R, R \ {t}, F, F, U, U, O, O, P, P1, t)
  BY <1>2, <1>3 DEF OthersKept, Put
<1>6. OwnClaim(R, R \ {t}, F, U, O, O, P, P1, t)
  BY <1>2, <1>3, <1>1 DEF TypeFacts, ClaimFacts, OwnClaim, ClaimFits, Put, Ending
<1>7. ClaimsOK(R \ {t}, F, U, O, P1)
  BY <1>2, <1>5, <1>6, <1>1, ClaimsStep
<1>8. \A v \in R \ {t} : (v \in R /\ B[v] = B[v] /\ P1[v] = P[v]) \/ RunnerFits(B[v], P1[v])
  BY <1>2, <1>3, <1>1 DEF TypeFacts, RunnerFacts, RunnerFits, Put
<1>9. Claim(R \ {t}, P1, t) => BlockFits(B[O[t]], P1[t])
  BY <1>2, <1>3, <1>1 DEF TypeFacts, ClaimFacts, BlockFits, Put, Ending
<1>10. StatesOK(B, R \ {t}, O, P1)
  BY <1>2, <1>5, <1>8, <1>9, <1>1, StatesStep
<1>11. ListsKept(B, B, R, R \ {t}, F, F, U, U, O, O, P, P1)
  BY <1>2, <1>3, <1>1 DEF TypeFacts, ListsKept, Put
<1>12. ListsOK(B, R \ {t}, F, U, O, P1)
  BY <1>11, <1>1, ListsStep
<1>13. \A v \in R \ {t} : Listed(v, O[v], P1[v]) => T[B[v].id] = v
  BY <1>2, <1>3, <1>1 DEF TypeFacts, RunnerFacts, Listed, Put
<1>14. Claim(R \ {t}, P1, t) => EntryFits(T[B[O[t]].id], O[t], P1[t])
  BY <1>2, <1>3, <1>1 DEF TypeFacts, ClaimFacts, EntryFits, Put
<1>15. TableKept(B, B, R \ {t}, T, F, F, O, P1, t)
  BY <1>2, <1>3, <1>13, <1>14, <1>1 DEF TypeFacts, TableKept, Put
<1>16. TableOK(B, R \ {t}, T, n, F, O, P1)
  BY <1>2, <1>4, <1>5, <1>6, <1>15, <1>1, TableStep
<1>17. \A v \in Threads : Alive(R \ {t}, O, P1, v) <=> Alive(R, O, P, v)
  BY <1>2, <1>3, <1>1 DEF TypeFacts, RunnerFacts, RunnerFits, ClaimFacts, ClaimFits, Alive, Put, Claim,
    Idle, Ending
<1>18. \A v \in Threads : (Making(R \ {t}, P1, v) <=> Making(R, P, v)) /\ (Making(R, P, v) => O[v] = O[v])
  BY <1>2, <1>3, <1>1 DEF TypeFacts, RunnerFacts, RunnerFits, Making, Put
<1>19. TallyKept(R, R \ {t}, O, O, P, P1)
  BY <1>17, <1>18, <1>2, <1>3, <1>1 DEF TallyKept, TypeFacts
<1>20. SameTally(R, R \ {t}, O, O, P, P1)
  BY <1>19, TallyStep, Zenon
<1> QED BY <1>20, <1>4, <1>7, <1>10, <1>12, <1>16, <1>1 DEF TypeFacts, LifeParts

\* __pthread_alloc allocates a block.
LEMMA NewParts ==
  ASSUME NEW B, NEW R, NEW T, NEW n, NEW F, NEW U, NEW O, NEW P, LifeParts(B, R, T, n, F, U, O, P),
         NEW t \in R, P[t] = "run",
         NEW u \in Threads, B[u].state = "NONE", B[u].id = 0,
         NEW B1 \in [Threads -> Tcbs], \A v \in Threads : v # u => B1[v] = B[v], B1[u].id = B[u].id,
         B1[u].state = "NEW",
         NEW O1 \in [Threads -> Threads \cup {None}], Put(O, O1, t, u),
         NEW P1 \in [Threads -> LifePlaces], Put(P, P1, t, "slot")
  PROVE  /\ LifeParts(B1, R, T, n, F, U, O1, P1)
         /\ SameTally(R, R, O, O1, P, P1)
<1>1. /\ PartsOK(B, R, T, n, F, U, O, P) /\ ClaimsOK(R, F, U, O, P) /\ StatesOK(B, R, O, P)
      /\ ListsOK(B, R, F, U, O, P) /\ IdsOK(B, n) /\ TableOK(B, R, T, n, F, O, P)
      /\ TypeFacts(B, R, T, n, F, U, O, P) /\ ClaimFacts(B, R, T, F, U, O, P)
      /\ RunnerFacts(B, R, T, O, P)
  BY PartsFacts
<1>2. t \in Threads /\ u # t
  BY <1>1 DEF TypeFacts, RunnerFacts, RunnerFits
<1>3. u \notin R /\ u \notin U
  BY <1>1 DEF TypeFacts, RunnerFacts, RunnerFits, ListsOK
<1>4. \A v \in Threads : Claim(R, P, v) => O[v] # u
  BY <1>1 DEF TypeFacts, ClaimFacts, BlockFits, Claim, Idle, LifePlaces, Ending
<1>5. u \notin F
  BY <1>2, <1>3, <1>4, <1>1 DEF TypeFacts, ListsOK
<1>6. Claim(R, P1, t) /\ ~Claim(R, P, t) /\ \A v \in Threads : v # t =>
        (Claim(R, P1, v) <=> Claim(R, P, v))
  BY <1>2 DEF Claim, Put, Idle
<1>7. PartsOK(B1, R, T, n, F, U, O1, P1)
  BY <1>2, <1>3, <1>4, <1>5, <1>6, <1>1 DEF TypeFacts, PartsOK
<1>8. OthersKept(R, R, F, F, U, U, O, O1, P, P1, t)
  BY <1>2, <1>3, <1>4, <1>5, <1>6 DEF OthersKept, Put
<1>9. OwnClaim(R, R, F, U, O, O1, P, P1, t)
  BY <1>2, <1>3, <1>4, <1>5, <1>6, <1>1 DEF TypeFacts, ClaimFacts, OwnClaim, ClaimFits, Put, Ending
<1>10. ClaimsOK(R, F, U, O1, P1)
  BY <1>2, <1>8, <1>9, <1>1, ClaimsStep
<1>11. \A v \in R : (v \in R /\ B1[v] = B[v] /\ P1[v] = P[v]) \/ RunnerFits(B1[v], P1[v])
  BY <1>2, <1>3, <1>4, <1>5, <1>6, <1>1 DEF TypeFacts, RunnerFacts, RunnerFits, Put
<1>12. \A v \in Threads : v # t /\ Claim(R, P1, v) => B1[O[v]] = B[O[v]] \/ BlockFits(B1[O[v]], P[v])
  BY <1>2, <1>3, <1>4, <1>5, <1>6, <1>1 DEF TypeFacts, ClaimFacts, BlockFits, Put
<1>13. Claim(R, P1, t) => BlockFits(B1[O1[t]], P1[t])
  BY <1>2, <1>3, <1>4, <1>5, <1>6 DEF BlockFits, Put, Ending
<1>14. StatesOK(B1, R, O1, P1)
  BY <1>2, <1>8, <1>11, <1>12, <1>13, <1>1, StatesStep
<1>15. ListsKept(B, B1, R, R, F, F, U, U, O, O1, P, P1)
  BY <1>2, <1>3, <1>4, <1>5, <1>6, <1>1 DEF TypeFacts, ListsKept, Put, Claim, Idle
<1>16. ListsOK(B1, R, F, U, O1, P1)
  BY <1>15, <1>1, ListsStep
<1>17. IdsOK(B1, n)
  BY <1>2, <1>3, <1>4, <1>5, <1>6, <1>1 DEF TypeFacts, IdsOK, Put
<1>18. \A v \in R : Listed(v, O1[v], P1[v]) => T[B[v].id] = v
  BY <1>2, <1>3, <1>4, <1>5, <1>6, <1>1 DEF TypeFacts, RunnerFacts, Listed, Put
<1>19. Claim(R, P1, t) => EntryFits(T[B[O1[t]].id], O1[t], P1[t])
  BY <1>2, <1>3, <1>4, <1>5, <1>6, <1>1 DEF TypeFacts, ClaimFacts, EntryFits, Put
<1>20. TableKept(B, B1, R, T, F, F, O1, P1, t)
  BY <1>2, <1>3, <1>4, <1>5, <1>6, <1>18, <1>19, <1>1 DEF TypeFacts, TableKept, Put
<1>21. TableOK(B1, R, T, n, F, O1, P1)
  BY <1>2, <1>7, <1>8, <1>9, <1>20, <1>1, TableStep
<1>22. \A v \in Threads : Alive(R, O1, P1, v) <=> Alive(R, O, P, v)
  BY <1>2, <1>3, <1>4, <1>5, <1>6, <1>1 DEF TypeFacts, RunnerFacts, RunnerFits, ClaimFacts, ClaimFits,
    Alive, Put, Claim, Idle, Ending
<1>23. \A v \in Threads : (Making(R, P1, v) <=> Making(R, P, v)) /\ (Making(R, P, v) => O1[v] = O[v])
  BY <1>2, <1>3, <1>4, <1>5, <1>6, <1>1 DEF TypeFacts, RunnerFacts, RunnerFits, Making, Put
<1>24. TallyKept(R, R, O, O1, P, P1)
  BY <1>22, <1>23, <1>2, <1>3, <1>4, <1>5, <1>6, <1>1 DEF TallyKept, TypeFacts
<1>25. SameTally(R, R, O, O1, P, P1)
  BY <1>24, TallyStep, Zenon
<1> QED BY <1>25, <1>7, <1>10, <1>14, <1>16, <1>17, <1>21 DEF LifeParts

\* pthread_create sets the block up, or gives it up.
LEMMA SetupParts ==
  ASSUME NEW B, NEW R, NEW T, NEW n, NEW F, NEW U, NEW O, NEW P, LifeParts(B, R, T, n, F, U, O, P),
         NEW t \in R, P[t] = "setup", NEW p, NEW u, O[t] = u,
         NEW B1 \in [Threads -> Tcbs], \A v \in Threads : v # u => B1[v] = B[v], B1[u].id = B[u].id,
         SetUpFor(B1[u], p),
         NEW P1 \in [Threads -> LifePlaces], Put(P, P1, t, p)
  PROVE  /\ LifeParts(B1, R, T, n, F, U, O, P1)
         /\ SameTally(R, R, O, O, P, P1)
<1>1. /\ PartsOK(B, R, T, n, F, U, O, P) /\ ClaimsOK(R, F, U, O, P) /\ StatesOK(B, R, O, P)
      /\ ListsOK(B, R, F, U, O, P) /\ IdsOK(B, n) /\ TableOK(B, R, T, n, F, O, P)
      /\ TypeFacts(B, R, T, n, F, U, O, P) /\ ClaimFacts(B, R, T, F, U, O, P)
      /\ RunnerFacts(B, R, T, O, P)
  BY PartsFacts
<1>2. t \in Threads /\ Claim(R, P, t) /\ u \in Threads
  BY <1>1 DEF TypeFacts, ClaimFacts, Claim, Idle
<1>3. u # t /\ u \notin U /\ u \notin F /\ u \notin R /\ B[u].id # 0
  BY <1>2, <1>1 DEF TypeFacts, ClaimFacts, ClaimFits, BlockFits, Ending
<1>4. Claim(R, P1, t) /\ \A v \in Threads : v # t => (Claim(R, P1, v) <=> Claim(R, P, v))
  BY <1>2, <1>3 DEF Claim, Put, Idle, SetUpFor
<1>5. \A v \in Threads : v # t /\ Claim(R, P, v) => O[v] # O[t]
  BY <1>2, <1>3, <1>4, <1>1 DEF TypeFacts, ClaimFacts
<1>6. p \in {"count", "withdraw"} /\ B1[u].state \in {"JOINABLE", "DETACHED"}
  BY DEF SetUpFor
<1>7. PartsOK(B1, R, T, n, F, U, O, P1)
  BY <1>2, <1>3, <1>4, <1>5, <1>6, <1>1 DEF TypeFacts, PartsOK
<1>8. OthersKept(R, R, F, F, U, U, O, O, P, P1, t)
  BY <1>2, <1>3, <1>4, <1>5, <1>6 DEF OthersKept, Put
<1>9. OwnClaim(R, R, F, U, O, O, P, P1, t)
  BY <1>2, <1>3, <1>4, <1>5, <1>6, <1>1 DEF TypeFacts, ClaimFacts, OwnClaim, ClaimFits, Put, Ending
<1>10. ClaimsOK(R, F, U, O, P1)
  BY <1>2, <1>8, <1>9, <1>1, ClaimsStep
<1>11. \A v \in R : (v \in R /\ B1[v] = B[v] /\ P1[v] = P[v]) \/ RunnerFits(B1[v], P1[v])
  BY <1>2, <1>3, <1>4, <1>5, <1>6, <1>1 DEF TypeFacts, RunnerFacts, RunnerFits, Put
<1>12. \A v \in Threads : v # t /\ Claim(R, P1, v) => B1[O[v]] = B[O[v]] \/ BlockFits(B1[O[v]], P[v])
  BY <1>2, <1>3, <1>4, <1>5, <1>6, <1>1 DEF TypeFacts, ClaimFacts, BlockFits, Put
<1>13. Claim(R, P1, t) => BlockFits(B1[O[t]], P1[t])
  BY <1>2, <1>3, <1>4, <1>5, <1>6 DEF BlockFits, Put, Ending, SetUpFor
<1>14. StatesOK(B1, R, O, P1)
  BY <1>2, <1>8, <1>11, <1>12, <1>13, <1>1, StatesStep
<1>15. ListsKept(B, B1, R, R, F, F, U, U, O, O, P, P1)
  BY <1>2, <1>3, <1>4, <1>5, <1>6, <1>1 DEF TypeFacts, ListsKept, Put, Claim, Idle
<1>16. ListsOK(B1, R, F, U, O, P1)
  BY <1>15, <1>1, ListsStep
<1>17. IdsOK(B1, n)
  BY <1>2, <1>3, <1>4, <1>5, <1>6, <1>1 DEF TypeFacts, IdsOK, Put
<1>18. \A v \in R : Listed(v, O[v], P1[v]) => T[B[v].id] = v
  BY <1>2, <1>3, <1>4, <1>5, <1>6, <1>1 DEF TypeFacts, RunnerFacts, Listed, Put
<1>19. Claim(R, P1, t) => EntryFits(T[B[O[t]].id], O[t], P1[t])
  BY <1>2, <1>3, <1>4, <1>5, <1>6, <1>1 DEF TypeFacts, ClaimFacts, EntryFits, Put
<1>20. TableKept(B, B1, R, T, F, F, O, P1, t)
  BY <1>2, <1>3, <1>4, <1>5, <1>6, <1>18, <1>19, <1>1 DEF TypeFacts, TableKept, Put
<1>21. TableOK(B1, R, T, n, F, O, P1)
  BY <1>2, <1>7, <1>8, <1>9, <1>20, <1>1, TableStep
<1>22. \A v \in Threads : Alive(R, O, P1, v) <=> Alive(R, O, P, v)
  BY <1>2, <1>3, <1>4, <1>5, <1>6, <1>1 DEF TypeFacts, RunnerFacts, RunnerFits, ClaimFacts, ClaimFits,
    Alive, Put, Claim, Idle, Ending
<1>23. \A v \in Threads : (Making(R, P1, v) <=> Making(R, P, v)) /\ (Making(R, P, v) => O[v] = O[v])
  BY <1>2, <1>3, <1>4, <1>5, <1>6, <1>1 DEF TypeFacts, RunnerFacts, RunnerFits, Making, Put
<1>24. TallyKept(R, R, O, O, P, P1)
  BY <1>22, <1>23, <1>2, <1>3, <1>4, <1>5, <1>6, <1>1 DEF TallyKept, TypeFacts
<1>25. SameTally(R, R, O, O, P, P1)
  BY <1>24, TallyStep, Zenon
<1> QED BY <1>25, <1>7, <1>10, <1>14, <1>16, <1>17, <1>21 DEF LifeParts

\* pthread_join and pthread_detach release the stack and the kernel resources.
LEMMA ReapParts ==
  ASSUME NEW B, NEW R, NEW T, NEW n, NEW F, NEW U, NEW O, NEW P, LifeParts(B, R, T, n, F, U, O, P),
         NEW t \in R, P[t] = "reap", NEW u, O[t] = u,
         NEW B1 \in [Threads -> Tcbs], \A v \in Threads : v # u => B1[v] = B[v], B1[u].id = B[u].id,
         B1[u].state = B[u].state,
         NEW P1 \in [Threads -> LifePlaces], Put(P, P1, t, "withdraw")
  PROVE  /\ LifeParts(B1, R, T, n, F, U, O, P1)
         /\ SameTally(R, R, O, O, P, P1)
<1>1. /\ PartsOK(B, R, T, n, F, U, O, P) /\ ClaimsOK(R, F, U, O, P) /\ StatesOK(B, R, O, P)
      /\ ListsOK(B, R, F, U, O, P) /\ IdsOK(B, n) /\ TableOK(B, R, T, n, F, O, P)
      /\ TypeFacts(B, R, T, n, F, U, O, P) /\ ClaimFacts(B, R, T, F, U, O, P)
      /\ RunnerFacts(B, R, T, O, P)
  BY PartsFacts
<1>2. t \in Threads /\ Claim(R, P, t) /\ u \in Threads
  BY <1>1 DEF TypeFacts, ClaimFacts, Claim, Idle
<1>3. u # t /\ u \notin U /\ u \notin F /\ u \notin R /\ B[u].id # 0 /\ B[u].state = "EXITED"
  BY <1>2, <1>1 DEF TypeFacts, ClaimFacts, ClaimFits, BlockFits, Ending
<1>4. Claim(R, P1, t) /\ \A v \in Threads : v # t => (Claim(R, P1, v) <=> Claim(R, P, v))
  BY <1>2, <1>3 DEF Claim, Put, Idle
<1>5. \A v \in Threads : v # t /\ Claim(R, P, v) => O[v] # O[t]
  BY <1>2, <1>3, <1>4, <1>1 DEF TypeFacts, ClaimFacts
<1>6. PartsOK(B1, R, T, n, F, U, O, P1)
  BY <1>2, <1>3, <1>4, <1>5, <1>1 DEF TypeFacts, PartsOK
<1>7. OthersKept(R, R, F, F, U, U, O, O, P, P1, t)
  BY <1>2, <1>3, <1>4, <1>5 DEF OthersKept, Put
<1>8. OwnClaim(R, R, F, U, O, O, P, P1, t)
  BY <1>2, <1>3, <1>4, <1>5, <1>1 DEF TypeFacts, ClaimFacts, OwnClaim, ClaimFits, Put, Ending
<1>9. ClaimsOK(R, F, U, O, P1)
  BY <1>2, <1>7, <1>8, <1>1, ClaimsStep
<1>10. \A v \in R : (v \in R /\ B1[v] = B[v] /\ P1[v] = P[v]) \/ RunnerFits(B1[v], P1[v])
  BY <1>2, <1>3, <1>4, <1>5, <1>1 DEF TypeFacts, RunnerFacts, RunnerFits, Put
<1>11. \A v \in Threads : v # t /\ Claim(R, P1, v) => B1[O[v]] = B[O[v]] \/ BlockFits(B1[O[v]], P[v])
  BY <1>2, <1>3, <1>4, <1>5, <1>1 DEF TypeFacts, ClaimFacts, BlockFits, Put
<1>12. Claim(R, P1, t) => BlockFits(B1[O[t]], P1[t])
  BY <1>2, <1>3, <1>4, <1>5 DEF BlockFits, Put, Ending
<1>13. StatesOK(B1, R, O, P1)
  BY <1>2, <1>7, <1>10, <1>11, <1>12, <1>1, StatesStep
<1>14. ListsKept(B, B1, R, R, F, F, U, U, O, O, P, P1)
  BY <1>2, <1>3, <1>4, <1>5, <1>1 DEF TypeFacts, ListsKept, Put, Claim, Idle
<1>15. ListsOK(B1, R, F, U, O, P1)
  BY <1>14, <1>1, ListsStep
<1>16. IdsOK(B1, n)
  BY <1>2, <1>3, <1>4, <1>5, <1>1 DEF TypeFacts, IdsOK, Put
<1>17. \A v \in R : Listed(v, O[v], P1[v]) => T[B[v].id] = v
  BY <1>2, <1>3, <1>4, <1>5, <1>1 DEF TypeFacts, RunnerFacts, Listed, Put
<1>18. Claim(R, P1, t) => EntryFits(T[B[O[t]].id], O[t], P1[t])
  BY <1>2, <1>3, <1>4, <1>5, <1>1 DEF TypeFacts, ClaimFacts, EntryFits, Put
<1>19. TableKept(B, B1, R, T, F, F, O, P1, t)
  BY <1>2, <1>3, <1>4, <1>5, <1>17, <1>18, <1>1 DEF TypeFacts, TableKept, Put
<1>20. TableOK(B1, R, T, n, F, O, P1)
  BY <1>2, <1>6, <1>7, <1>8, <1>19, <1>1, TableStep
<1>21. \A v \in Threads : Alive(R, O, P1, v) <=> Alive(R, O, P, v)
  BY <1>2, <1>3, <1>4, <1>5, <1>1 DEF TypeFacts, RunnerFacts, RunnerFits, ClaimFacts, ClaimFits, Alive,
    Put, Claim, Idle, Ending
<1>22. \A v \in Threads : (Making(R, P1, v) <=> Making(R, P, v)) /\ (Making(R, P, v) => O[v] = O[v])
  BY <1>2, <1>3, <1>4, <1>5, <1>1 DEF TypeFacts, RunnerFacts, RunnerFits, Making, Put
<1>23. TallyKept(R, R, O, O, P, P1)
  BY <1>21, <1>22, <1>2, <1>3, <1>4, <1>5, <1>1 DEF TallyKept, TypeFacts
<1>24. SameTally(R, R, O, O, P, P1)
  BY <1>23, TallyStep, Zenon
<1> QED BY <1>24, <1>6, <1>9, <1>13, <1>15, <1>16, <1>20 DEF LifeParts

\* A detached thread that exits works on its own block.
LEMMA ExitDetachedParts ==
  ASSUME NEW B, NEW R, NEW T, NEW n, NEW F, NEW U, NEW O, NEW P, LifeParts(B, R, T, n, F, U, O, P),
         NEW t \in R, P[t] = "exit", B[t].state = "DETACHED",
         NEW O1 \in [Threads -> Threads \cup {None}], Put(O, O1, t, t),
         NEW P1 \in [Threads -> LifePlaces], Put(P, P1, t, "withdraw")
  PROVE  /\ LifeParts(B, R, T, n, F, U, O1, P1)
         /\ SameTally(R, R, O, O1, P, P1)
<1>1. /\ PartsOK(B, R, T, n, F, U, O, P) /\ ClaimsOK(R, F, U, O, P) /\ StatesOK(B, R, O, P)
      /\ ListsOK(B, R, F, U, O, P) /\ IdsOK(B, n) /\ TableOK(B, R, T, n, F, O, P)
      /\ TypeFacts(B, R, T, n, F, U, O, P) /\ ClaimFacts(B, R, T, F, U, O, P)
      /\ RunnerFacts(B, R, T, O, P)
  BY PartsFacts
<1>2. t \in Threads /\ ~Claim(R, P, t)
  BY <1>1 DEF TypeFacts, Claim, Idle
<1>3. B[t].id # 0 /\ t \notin U
  BY <1>2, <1>1 DEF TypeFacts, IdsOK, ListsOK
<1>4. \A v \in Threads : Claim(R, P, v) => O[v] # t
  BY <1>2, <1>3, <1>1 DEF TypeFacts, ClaimFacts, ClaimFits, BlockFits
<1>5. t \notin F
  BY <1>2, <1>3, <1>4, <1>1 DEF TypeFacts, ListsOK
<1>6. Claim(R, P1, t) /\ \A v \in Threads : v # t => (Claim(R, P1, v) <=> Claim(R, P, v))
  BY <1>2, <1>3, <1>4, <1>5 DEF Claim, Put, Idle
<1>7. PartsOK(B, R, T, n, F, U, O1, P1)
  BY <1>2, <1>3, <1>4, <1>5, <1>6, <1>1 DEF TypeFacts, PartsOK
<1>8. OthersKept(R, R, F, F, U, U, O, O1, P, P1, t)
  BY <1>2, <1>3, <1>4, <1>5, <1>6 DEF OthersKept, Put
<1>9. OwnClaim(R, R, F, U, O, O1, P, P1, t)
  BY <1>2, <1>3, <1>4, <1>5, <1>6, <1>1 DEF TypeFacts, ClaimFacts, OwnClaim, ClaimFits, Put, Ending
<1>10. ClaimsOK(R, F, U, O1, P1)
  BY <1>2, <1>8, <1>9, <1>1, ClaimsStep
<1>11. \A v \in R : (v \in R /\ B[v] = B[v] /\ P1[v] = P[v]) \/ RunnerFits(B[v], P1[v])
  BY <1>2, <1>3, <1>4, <1>5, <1>6, <1>1 DEF TypeFacts, RunnerFacts, RunnerFits, Put
<1>12. Claim(R, P1, t) => BlockFits(B[O1[t]], P1[t])
  BY <1>2, <1>3, <1>4, <1>5, <1>6 DEF BlockFits, Put, Ending
<1>13. StatesOK(B, R, O1, P1)
  BY <1>2, <1>8, <1>11, <1>12, <1>1, StatesStep
<1>14. ListsKept(B, B, R, R, F, F, U, U, O, O1, P, P1)
  BY <1>2, <1>3, <1>4, <1>5, <1>6, <1>1 DEF TypeFacts, ListsKept, Put, Claim, Idle
<1>15. ListsOK(B, R, F, U, O1, P1)
  BY <1>14, <1>1, ListsStep
<1>16. \A v \in R : Listed(v, O1[v], P1[v]) => T[B[v].id] = v
  BY <1>2, <1>3, <1>4, <1>5, <1>6, <1>1 DEF TypeFacts, RunnerFacts, Listed, Put
<1>17. Claim(R, P1, t) => EntryFits(T[B[O1[t]].id], O1[t], P1[t])
  BY <1>2, <1>3, <1>4, <1>5, <1>6, <1>1 DEF TypeFacts, ClaimFacts, EntryFits, Put
<1>18. TableKept(B, B, R, T, F, F, O1, P1, t)
  BY <1>2, <1>3, <1>4, <1>5, <1>6, <1>16, <1>17, <1>1 DEF TypeFacts, TableKept, Put
<1>19. TableOK(B, R, T, n, F, O1, P1)
  BY <1>2, <1>7, <1>8, <1>9, <1>18, <1>1, TableStep
<1>20. \A v \in Threads : Alive(R, O1, P1, v) <=> Alive(R, O, P, v)
  BY <1>2, <1>3, <1>4, <1>5, <1>6, <1>1 DEF TypeFacts, RunnerFacts, RunnerFits, ClaimFacts, ClaimFits,
    Alive, Put, Claim, Idle, Ending
<1>21. \A v \in Threads : (Making(R, P1, v) <=> Making(R, P, v)) /\ (Making(R, P, v) => O1[v] = O[v])
  BY <1>2, <1>3, <1>4, <1>5, <1>6, <1>1 DEF TypeFacts, RunnerFacts, RunnerFits, Making, Put
<1>22. TallyKept(R, R, O, O1, P, P1)
  BY <1>20, <1>21, <1>2, <1>3, <1>4, <1>5, <1>6, <1>1 DEF TallyKept, TypeFacts
<1>23. SameTally(R, R, O, O1, P, P1)
  BY <1>22, TallyStep, Zenon
<1> QED BY <1>23, <1>7, <1>10, <1>13, <1>15, <1>19, <1>1 DEF TypeFacts, LifeParts

\* A joinable thread that exits lets the thread that joins it go on.
LEMMA ExitJoinableParts ==
  ASSUME NEW B, NEW R, NEW T, NEW n, NEW F, NEW U, NEW O, NEW P, LifeParts(B, R, T, n, F, U, O, P),
         NEW t \in R, P[t] = "exit", B[t].state = "JOINABLE",
         NEW B1 \in [Threads -> Tcbs], \A v \in Threads : v # t => B1[v] = B[v], B1[t].id = B[t].id,
         B1[t].state = "EXITED", B1[t].stack = B[t].stack, B1[t].kernel = B[t].kernel,
         NEW P1 \in [Threads -> LifePlaces], Put(P, P1, t, "halt")
  PROVE  /\ LifeParts(B1, R, T, n, F, U, O, P1)
         /\ SameTally(R, R, O, O, P, P1)
<1>1. /\ PartsOK(B, R, T, n, F, U, O, P) /\ ClaimsOK(R, F, U, O, P) /\ StatesOK(B, R, O, P)
      /\ ListsOK(B, R, F, U, O, P) /\ IdsOK(B, n) /\ TableOK(B, R, T, n, F, O, P)
      /\ TypeFacts(B, R, T, n, F, U, O, P) /\ ClaimFacts(B, R, T, F, U, O, P)
      /\ RunnerFacts(B, R, T, O, P)
  BY PartsFacts
<1>2. t \in Threads /\ ~Claim(R, P, t)
  BY <1>1 DEF TypeFacts, Claim, Idle
<1>3. B[t].id # 0
  BY <1>2, <1>1 DEF TypeFacts, IdsOK
<1>4. \A v \in Threads : Claim(R, P, v) /\ O[v] = t => P[v] = "join"
  <2> SUFFICES ASSUME NEW v \in Threads, Claim(R, P, v), O[v] = t PROVE P[v] = "join"
    OBVIOUS
  <2>1. ClaimFits(R, F, U, v, t, P[v]) /\ BlockFits(B[t], P[v]) /\ v # t
    BY <1>1, <1>2, Zenon DEF ClaimFacts
  <2>2. P[v] \in {"halt new", "join", "halt old"}
    BY <2>1 DEF ClaimFits
  <2>3. P[v] # "halt new" /\ P[v] # "halt old"
    BY <2>1 DEF BlockFits
  <2> QED BY <2>2, <2>3
<1>5. t \notin F
  BY <1>2, <1>3, <1>4, <1>1 DEF TypeFacts, ListsOK
<1>6. BlockFits(B1[t], "join")
  BY <1>2, <1>3, <1>4, <1>5 DEF BlockFits, Ending
<1>7. ~Claim(R, P1, t) /\ \A v \in Threads : v # t => (Claim(R, P1, v) <=> Claim(R, P, v))
  BY <1>2, <1>3, <1>4, <1>5, <1>6 DEF Claim, Put, Idle
<1>8. PartsOK(B1, R, T, n, F, U, O, P1)
  BY <1>2, <1>3, <1>4, <1>5, <1>6, <1>7, <1>1 DEF TypeFacts, PartsOK
<1>9. OthersKept(R, R, F, F, U, U, O, O, P, P1, t)
  BY <1>2, <1>3, <1>4, <1>5, <1>6, <1>7 DEF OthersKept, Put
<1>10. OwnClaim(R, R, F, U, O, O, P, P1, t)
  BY <1>2, <1>3, <1>4, <1>5, <1>6, <1>7, <1>1 DEF TypeFacts, ClaimFacts, OwnClaim, ClaimFits, Put, Ending
<1>11. ClaimsOK(R, F, U, O, P1)
  BY <1>2, <1>9, <1>10, <1>1, ClaimsStep
<1>12. \A v \in R : (v \in R /\ B1[v] = B[v] /\ P1[v] = P[v]) \/ RunnerFits(B1[v], P1[v])
  BY <1>2, <1>3, <1>4, <1>5, <1>6, <1>7, <1>1 DEF TypeFacts, RunnerFacts, RunnerFits, Put
<1>13. \A v \in Threads : v # t /\ Claim(R, P1, v) => B1[O[v]] = B[O[v]] \/ BlockFits(B1[O[v]], P[v])
  BY <1>2, <1>3, <1>4, <1>5, <1>6, <1>7, <1>1 DEF TypeFacts, ClaimFacts
<1>14. Claim(R, P1, t) => BlockFits(B1[O[t]], P1[t])
  BY <1>2, <1>3, <1>4, <1>5, <1>6, <1>7, <1>1 DEF TypeFacts, ClaimFacts, BlockFits, Put, Ending
<1>15. StatesOK(B1, R, O, P1)
  BY <1>2, <1>9, <1>12, <1>13, <1>14, <1>1, StatesStep
<1>16. ListsKept(B, B1, R, R, F, F, U, U, O, O, P, P1)
  BY <1>2, <1>3, <1>4, <1>5, <1>6, <1>7, <1>1 DEF TypeFacts, ListsKept, Put, Claim, Idle
<1>17. ListsOK(B1, R, F, U, O, P1)
  BY <1>16, <1>1, ListsStep
<1>18. IdsOK(B1, n)
  BY <1>2, <1>3, <1>4, <1>5, <1>6, <1>7, <1>1 DEF TypeFacts, IdsOK, Put
<1>19. \A v \in R : Listed(v, O[v], P1[v]) => T[B[v].id] = v
  BY <1>2, <1>3, <1>4, <1>5, <1>6, <1>7, <1>1 DEF TypeFacts, RunnerFacts, Listed, Put
<1>20. Claim(R, P1, t) => EntryFits(T[B[O[t]].id], O[t], P1[t])
  BY <1>2, <1>3, <1>4, <1>5, <1>6, <1>7, <1>1 DEF TypeFacts, ClaimFacts, EntryFits, Put
<1>21. TableKept(B, B1, R, T, F, F, O, P1, t)
  BY <1>2, <1>3, <1>4, <1>5, <1>6, <1>7, <1>19, <1>20, <1>1 DEF TypeFacts, TableKept, Put
<1>22. TableOK(B1, R, T, n, F, O, P1)
  BY <1>2, <1>8, <1>9, <1>10, <1>21, <1>1, TableStep
<1>23. \A v \in Threads : Alive(R, O, P1, v) <=> Alive(R, O, P, v)
  BY <1>2, <1>3, <1>4, <1>5, <1>6, <1>7, <1>1
    DEF TypeFacts, RunnerFacts, RunnerFits, ClaimFacts, ClaimFits, Alive, Put, Claim, Idle, Ending
<1>24. \A v \in Threads : (Making(R, P1, v) <=> Making(R, P, v)) /\ (Making(R, P, v) => O[v] = O[v])
  BY <1>2, <1>3, <1>4, <1>5, <1>6, <1>7, <1>1 DEF TypeFacts, RunnerFacts, RunnerFits, Making, Put
<1>25. TallyKept(R, R, O, O, P, P1)
  BY <1>23, <1>24, <1>2, <1>3, <1>4, <1>5, <1>6, <1>7, <1>1 DEF TallyKept, TypeFacts
<1>26. SameTally(R, R, O, O, P, P1)
  BY <1>25, TallyStep, Zenon
<1> QED BY <1>26, <1>8, <1>11, <1>15, <1>17, <1>18, <1>22 DEF LifeParts

\* __pthread_dealloc puts the block on the free list.
LEMMA FreeParts ==
  ASSUME NEW B, NEW R, NEW T, NEW n, NEW F, NEW U, NEW O, NEW P, LifeParts(B, R, T, n, F, U, O, P),
         NEW t \in R, P[t] = "free", NEW u, O[t] = u,
         NEW P1 \in [Threads -> LifePlaces], Put(P, P1, t, "terminate")
  PROVE  /\ LifeParts(B, R, T, n, F \cup {u}, U, O, P1)
         /\ SameTally(R, R, O, O, P, P1)
<1>1. /\ PartsOK(B, R, T, n, F, U, O, P) /\ ClaimsOK(R, F, U, O, P) /\ StatesOK(B, R, O, P)
      /\ ListsOK(B, R, F, U, O, P) /\ IdsOK(B, n) /\ TableOK(B, R, T, n, F, O, P)
      /\ TypeFacts(B, R, T, n, F, U, O, P) /\ ClaimFacts(B, R, T, F, U, O, P)
      /\ RunnerFacts(B, R, T, O, P)
  BY PartsFacts
<1>2. t \in Threads /\ Claim(R, P, t) /\ u \in Threads
  BY <1>1 DEF TypeFacts, ClaimFacts, Claim, Idle
<1>3. u \notin U /\ (u # t => u \notin R)
  BY <1>2, <1>1 DEF TypeFacts, ClaimFacts, ClaimFits
<1>4. B[u].id # 0 /\ B[u].state \in {"JOINABLE", "DETACHED", "EXITED"} /\ T[B[u].id] = None
  BY <1>2, <1>3, <1>1 DEF TypeFacts, ClaimFacts, BlockFits, EntryFits, Ending
<1>5. Claim(R, P1, t) /\ \A v \in Threads : v # t => (Claim(R, P1, v) <=> Claim(R, P, v))
  BY <1>2, <1>3, <1>4 DEF Claim, Put, Idle
<1>6. \A v \in Threads : v # t /\ Claim(R, P, v) => O[v] # O[t]
  BY <1>2, <1>3, <1>4, <1>5, <1>1 DEF TypeFacts, ClaimFacts
<1>7. PartsOK(B, R, T, n, F \cup {u}, U, O, P1)
  BY <1>2, <1>3, <1>4, <1>5, <1>6, <1>1 DEF TypeFacts, PartsOK
<1>8. OthersKept(R, R, F, F \cup {u}, U, U, O, O, P, P1, t)
  BY <1>2, <1>3, <1>4, <1>5, <1>6 DEF OthersKept, Put
<1>9. OwnClaim(R, R, F \cup {u}, U, O, O, P, P1, t)
  BY <1>2, <1>3, <1>4, <1>5, <1>6, <1>1 DEF TypeFacts, ClaimFacts, OwnClaim, ClaimFits, Put, Ending
<1>10. ClaimsOK(R, F \cup {u}, U, O, P1)
  BY <1>2, <1>8, <1>9, <1>1, ClaimsStep
<1>11. \A v \in R : (v \in R /\ B[v] = B[v] /\ P1[v] = P[v]) \/ RunnerFits(B[v], P1[v])
  BY <1>2, <1>3, <1>4, <1>5, <1>6, <1>1 DEF TypeFacts, RunnerFacts, RunnerFits, Put
<1>12. Claim(R, P1, t) => BlockFits(B[O[t]], P1[t])
  BY <1>2, <1>3, <1>4, <1>5, <1>6, <1>1 DEF TypeFacts, ClaimFacts, BlockFits, Put, Ending
<1>13. StatesOK(B, R, O, P1)
  BY <1>2, <1>8, <1>11, <1>12, <1>1, StatesStep
<1>14. ListsOK(B, R, F \cup {u}, U, O, P1)
  <2>1. ASSUME NEW w \in F PROVE B[w].state = "TERMINATED" \/ \E v \in Threads : Claim(R, P1, v)
               /\ P1[v] = "terminate" /\ O[v] = w
    <3>1. CASE \E v \in Threads : Claim(R, P, v) /\ P[v] = "terminate" /\ O[v] = w
      BY <1>2, <1>3, <1>4, <1>5, <1>6, <3>1 DEF Put
    <3> QED BY <3>1, <1>1 DEF ListsOK
  <2> QED BY <1>2, <1>3, <1>4, <1>5, <1>6, <2>1, <1>1 DEF ListsOK, Put
<1>15. \A v \in R : Listed(v, O[v], P1[v]) => T[B[v].id] = v
  BY <1>2, <1>3, <1>4, <1>5, <1>6, <1>1 DEF TypeFacts, RunnerFacts, Listed, Put
<1>16. Claim(R, P1, t) => EntryFits(T[B[O[t]].id], O[t], P1[t])
  BY <1>2, <1>3, <1>4, <1>5, <1>6, <1>1 DEF TypeFacts, ClaimFacts, EntryFits, Put
<1>17. TableKept(B, B, R, T, F, F \cup {u}, O, P1, t)
  BY <1>2, <1>3, <1>4, <1>5, <1>6, <1>15, <1>16, <1>1 DEF TypeFacts, TableKept, Put
<1>18. TableOK(B, R, T, n, F \cup {u}, O, P1)
  BY <1>2, <1>7, <1>8, <1>9, <1>17, <1>1, TableStep
<1>19. \A v \in Threads : Alive(R, O, P1, v) <=> Alive(R, O, P, v)
  BY <1>2, <1>3, <1>4, <1>5, <1>6, <1>1 DEF TypeFacts, RunnerFacts, RunnerFits, ClaimFacts, ClaimFits,
    Alive, Put, Claim, Idle, Ending
<1>20. \A v \in Threads : (Making(R, P1, v) <=> Making(R, P, v)) /\ (Making(R, P, v) => O[v] = O[v])
  BY <1>2, <1>3, <1>4, <1>5, <1>6, <1>1 DEF TypeFacts, RunnerFacts, RunnerFits, Making, Put
<1>21. TallyKept(R, R, O, O, P, P1)
  BY <1>19, <1>20, <1>2, <1>3, <1>4, <1>5, <1>6, <1>1 DEF TallyKept, TypeFacts
<1>22. SameTally(R, R, O, O, P, P1)
  BY <1>21, TallyStep, Zenon
<1> QED BY <1>22, <1>7, <1>10, <1>13, <1>14, <1>18, <1>1 DEF TypeFacts, LifeParts

\* __pthread_dealloc makes the block available.
LEMMA TerminateParts ==
  ASSUME NEW B, NEW R, NEW T, NEW n, NEW F, NEW U, NEW O, NEW P, LifeParts(B, R, T, n, F, U, O, P),
         NEW t \in R, P[t] = "terminate", NEW u, O[t] = u, NEW p, p = IF u = t THEN "halt" ELSE "run",
         NEW B1 \in [Threads -> Tcbs], \A v \in Threads : v # u => B1[v] = B[v], B1[u].id = B[u].id,
         B1[u].state = "TERMINATED", B1[u].stack = B[u].stack, B1[u].kernel = B[u].kernel,
         NEW O1 \in [Threads -> Threads \cup {None}], Put(O, O1, t, None),
         NEW P1 \in [Threads -> LifePlaces], Put(P, P1, t, p)
  PROVE  /\ LifeParts(B1, R, T, n, F, U, O1, P1)
         /\ SameTally(R, R, O, O1, P, P1)
<1>1. /\ PartsOK(B, R, T, n, F, U, O, P) /\ ClaimsOK(R, F, U, O, P) /\ StatesOK(B, R, O, P)
      /\ ListsOK(B, R, F, U, O, P) /\ IdsOK(B, n) /\ TableOK(B, R, T, n, F, O, P)
      /\ TypeFacts(B, R, T, n, F, U, O, P) /\ ClaimFacts(B, R, T, F, U, O, P)
      /\ RunnerFacts(B, R, T, O, P)
  BY PartsFacts
<1>2. t \in Threads /\ Claim(R, P, t) /\ u \in Threads
  BY <1>1 DEF TypeFacts, ClaimFacts, Claim, Idle
<1>3. u \notin U /\ (u # t => u \notin R)
  BY <1>2, <1>1 DEF TypeFacts, ClaimFacts, ClaimFits
<1>4. B[u].id # 0
  BY <1>2, <1>3, <1>1 DEF TypeFacts, ClaimFacts, BlockFits
<1>5. ~Claim(R, P1, t) /\ \A v \in Threads : v # t => (Claim(R, P1, v) <=> Claim(R, P, v))
  BY <1>2, <1>3, <1>4 DEF Claim, Put, Idle
<1>6. \A v \in Threads : v # t /\ Claim(R, P, v) => O[v] # O[t]
  BY <1>2, <1>3, <1>4, <1>5, <1>1 DEF TypeFacts, ClaimFacts
<1>7. PartsOK(B1, R, T, n, F, U, O1, P1)
  BY <1>2, <1>3, <1>4, <1>5, <1>6, <1>1 DEF TypeFacts, PartsOK
<1>8. OthersKept(R, R, F, F, U, U, O, O1, P, P1, t)
  BY <1>2, <1>3, <1>4, <1>5, <1>6 DEF OthersKept, Put
<1>9. OwnClaim(R, R, F, U, O, O1, P, P1, t)
  BY <1>2, <1>3, <1>4, <1>5, <1>6, <1>1 DEF TypeFacts, ClaimFacts, OwnClaim, ClaimFits, Put, Ending
<1>10. ClaimsOK(R, F, U, O1, P1)
  BY <1>2, <1>8, <1>9, <1>1, ClaimsStep
<1>11. \A v \in R : (v \in R /\ B1[v] = B[v] /\ P1[v] = P[v]) \/ RunnerFits(B1[v], P1[v])
  BY <1>2, <1>3, <1>4, <1>5, <1>6, <1>1 DEF TypeFacts, RunnerFacts, RunnerFits, Put
<1>12. \A v \in Threads : v # t /\ Claim(R, P1, v) => B1[O[v]] = B[O[v]] \/ BlockFits(B1[O[v]], P[v])
  BY <1>2, <1>3, <1>4, <1>5, <1>6, <1>1 DEF TypeFacts, ClaimFacts, BlockFits, Put
<1>13. Claim(R, P1, t) => BlockFits(B1[O1[t]], P1[t])
  BY <1>2, <1>3, <1>4, <1>5, <1>6, <1>1 DEF TypeFacts, ClaimFacts, BlockFits, Put, Ending
<1>14. StatesOK(B1, R, O1, P1)
  BY <1>2, <1>8, <1>11, <1>12, <1>13, <1>1, StatesStep
<1>15. ListsKept(B, B1, R, R, F, F, U, U, O, O1, P, P1)
  BY <1>2, <1>3, <1>4, <1>5, <1>6, <1>1 DEF TypeFacts, ListsKept, Put, Claim, Idle
<1>16. ListsOK(B1, R, F, U, O1, P1)
  BY <1>15, <1>1, ListsStep
<1>17. IdsOK(B1, n)
  BY <1>2, <1>3, <1>4, <1>5, <1>6, <1>1 DEF TypeFacts, IdsOK, Put
<1>18. \A v \in R : Listed(v, O1[v], P1[v]) => T[B[v].id] = v
  BY <1>2, <1>3, <1>4, <1>5, <1>6, <1>1 DEF TypeFacts, RunnerFacts, Listed, Put
<1>19. Claim(R, P1, t) => EntryFits(T[B[O1[t]].id], O1[t], P1[t])
  BY <1>2, <1>3, <1>4, <1>5, <1>6, <1>1 DEF TypeFacts, ClaimFacts, EntryFits, Put
<1>20. TableKept(B, B1, R, T, F, F, O1, P1, t)
  BY <1>2, <1>3, <1>4, <1>5, <1>6, <1>18, <1>19, <1>1 DEF TypeFacts, TableKept, Put
<1>21. TableOK(B1, R, T, n, F, O1, P1)
  BY <1>2, <1>7, <1>8, <1>9, <1>20, <1>1, TableStep
<1>22. \A v \in Threads : Alive(R, O1, P1, v) <=> Alive(R, O, P, v)
  <2>1. ASSUME NEW v \in Threads, v # t PROVE Alive(R, O1, P1, v) <=> Alive(R, O, P, v)
    BY <2>1 DEF Alive, Put
  <2>2. Alive(R, O1, P1, t) <=> Alive(R, O, P, t)
    BY <1>2, <1>3, <1>4, <1>5, <1>6 DEF Alive, Put
  <2> QED BY <2>1, <2>2
<1>23. \A v \in Threads : (Making(R, P1, v) <=> Making(R, P, v)) /\ (Making(R, P, v) => O1[v] = O[v])
  BY <1>2, <1>3, <1>4, <1>5, <1>6, <1>1 DEF TypeFacts, RunnerFacts, RunnerFits, Making, Put
<1>24. TallyKept(R, R, O, O1, P, P1)
  BY <1>22, <1>23, <1>2, <1>3, <1>4, <1>5, <1>6, <1>1 DEF TallyKept, TypeFacts
<1>25. SameTally(R, R, O, O1, P, P1)
  BY <1>24, TallyStep, Zenon
<1> QED BY <1>25, <1>7, <1>10, <1>14, <1>16, <1>17, <1>21 DEF LifeParts

\* pthread_join and pthread_detach of a thread that nobody else joins or detaches.
LEMMA JoinParts ==
  ASSUME NEW B, NEW R, NEW T, NEW n, NEW F, NEW U, NEW O, NEW P, LifeParts(B, R, T, n, F, U, O, P),
         NEW t \in R, P[t] = "run", NEW u \in U, NEW p,
         MayClaim(B[u], u, t, p),
         NEW O1 \in [Threads -> Threads \cup {None}], Put(O, O1, t, u),
         NEW P1 \in [Threads -> LifePlaces], Put(P, P1, t, p)
  PROVE  /\ LifeParts(B, R, T, n, F, U \ {u}, O1, P1)
         /\ SameTally(R, R, O, O1, P, P1)
<1>1. /\ PartsOK(B, R, T, n, F, U, O, P) /\ ClaimsOK(R, F, U, O, P) /\ StatesOK(B, R, O, P)
      /\ ListsOK(B, R, F, U, O, P) /\ IdsOK(B, n) /\ TableOK(B, R, T, n, F, O, P)
      /\ TypeFacts(B, R, T, n, F, U, O, P) /\ ClaimFacts(B, R, T, F, U, O, P)
      /\ RunnerFacts(B, R, T, O, P)
  BY PartsFacts
<1>2. t \in Threads /\ u \in Threads /\ ~Claim(R, P, t)
  BY <1>1 DEF TypeFacts, Claim, Idle
<1>3. u # t /\ B[u].state \in {"JOINABLE", "EXITED"}
  BY <1>2, <1>1 DEF TypeFacts, RunnerFacts, RunnerFits, ListsOK, MayClaim
<1>4. p \in {"join", "halt old"}
  BY DEF MayClaim
<1>5. \A v \in Threads : Claim(R, P, v) => O[v] # u
  BY <1>2, <1>3, <1>4, <1>1 DEF TypeFacts, ClaimFacts, ClaimFits
<1>6. u \notin F /\ B[u].id # 0
  BY <1>2, <1>3, <1>4, <1>5, <1>1 DEF TypeFacts, ListsOK, IdsOK
<1>7. Claim(R, P1, t) /\ \A v \in Threads : v # t => (Claim(R, P1, v) <=> Claim(R, P, v))
  BY <1>2, <1>3, <1>4, <1>5, <1>6 DEF Claim, Put, Idle
<1>8. PartsOK(B, R, T, n, F, U \ {u}, O1, P1)
  BY <1>2, <1>3, <1>4, <1>5, <1>6, <1>7, <1>1 DEF TypeFacts, PartsOK
<1>9. OthersKept(R, R, F, F, U, U \ {u}, O, O1, P, P1, t)
  BY <1>2, <1>3, <1>4, <1>5, <1>6, <1>7 DEF OthersKept, Put
<1>10. OwnClaim(R, R, F, U \ {u}, O, O1, P, P1, t)
  BY <1>2, <1>3, <1>4, <1>5, <1>6, <1>7, <1>1 DEF TypeFacts, ClaimFacts, OwnClaim, ClaimFits, Put, Ending
<1>11. ClaimsOK(R, F, U \ {u}, O1, P1)
  BY <1>2, <1>9, <1>10, <1>1, ClaimsStep
<1>12. \A v \in R : (v \in R /\ B[v] = B[v] /\ P1[v] = P[v]) \/ RunnerFits(B[v], P1[v])
  BY <1>2, <1>3, <1>4, <1>5, <1>6, <1>7, <1>1 DEF TypeFacts, RunnerFacts, RunnerFits, Put
<1>13. Claim(R, P1, t) => BlockFits(B[O1[t]], P1[t])
  BY <1>2, <1>3, <1>4, <1>5, <1>6, <1>7 DEF BlockFits, Put, Ending, MayClaim
<1>14. StatesOK(B, R, O1, P1)
  BY <1>2, <1>9, <1>12, <1>13, <1>1, StatesStep
<1>15. ListsKept(B, B, R, R, F, F, U, U \ {u}, O, O1, P, P1)
  BY <1>2, <1>3, <1>4, <1>5, <1>6, <1>7, <1>1 DEF TypeFacts, ListsKept, Put, Claim, Idle
<1>16. ListsOK(B, R, F, U \ {u}, O1, P1)
  BY <1>15, <1>1, ListsStep
<1>17. \A v \in R : Listed(v, O1[v], P1[v]) => T[B[v].id] = v
  BY <1>2, <1>3, <1>4, <1>5, <1>6, <1>7, <1>1 DEF TypeFacts, RunnerFacts, Listed, Put
<1>18. Claim(R, P1, t) => EntryFits(T[B[O1[t]].id], O1[t], P1[t])
  BY <1>2, <1>3, <1>4, <1>5, <1>6, <1>7, <1>1 DEF TypeFacts, ClaimFacts, EntryFits, Put
<1>19. TableKept(B, B, R, T, F, F, O1, P1, t)
  BY <1>2, <1>3, <1>4, <1>5, <1>6, <1>7, <1>17, <1>18, <1>1 DEF TypeFacts, TableKept, Put
<1>20. TableOK(B, R, T, n, F, O1, P1)
  BY <1>2, <1>8, <1>9, <1>10, <1>19, <1>1, TableStep
<1>21. \A v \in Threads : Alive(R, O1, P1, v) <=> Alive(R, O, P, v)
  BY <1>2, <1>3, <1>4, <1>5, <1>6, <1>7, <1>1
    DEF TypeFacts, RunnerFacts, RunnerFits, ClaimFacts, ClaimFits, Alive, Put, Claim, Idle, Ending
<1>22. \A v \in Threads : (Making(R, P1, v) <=> Making(R, P, v)) /\ (Making(R, P, v) => O1[v] = O[v])
  BY <1>2, <1>3, <1>4, <1>5, <1>6, <1>7, <1>1 DEF TypeFacts, RunnerFacts, RunnerFits, Making, Put
<1>23. TallyKept(R, R, O, O1, P, P1)
  BY <1>21, <1>22, <1>2, <1>3, <1>4, <1>5, <1>6, <1>7, <1>1 DEF TallyKept, TypeFacts
<1>24. SameTally(R, R, O, O1, P, P1)
  BY <1>23, TallyStep, Zenon
<1> QED BY <1>24, <1>8, <1>11, <1>14, <1>16, <1>20, <1>1 DEF TypeFacts, LifeParts

\* pthread_detach of a thread that runs.
LEMMA DetachParts ==
  ASSUME NEW B, NEW R, NEW T, NEW n, NEW F, NEW U, NEW O, NEW P, LifeParts(B, R, T, n, F, U, O, P),
         NEW t \in R, P[t] = "run", NEW u \in U,
         B[u].state = "JOINABLE",
         NEW B1 \in [Threads -> Tcbs], \A v \in Threads : v # u => B1[v] = B[v], B1[u].id = B[u].id,
         B1[u].state = "DETACHED", B1[u].stack = B[u].stack, B1[u].kernel = B[u].kernel
  PROVE  /\ LifeParts(B1, R, T, n, F, U \ {u}, O, P)
         /\ SameTally(R, R, O, O, P, P)
<1>1. /\ PartsOK(B, R, T, n, F, U, O, P) /\ ClaimsOK(R, F, U, O, P) /\ StatesOK(B, R, O, P)
      /\ ListsOK(B, R, F, U, O, P) /\ IdsOK(B, n) /\ TableOK(B, R, T, n, F, O, P)
      /\ TypeFacts(B, R, T, n, F, U, O, P) /\ ClaimFacts(B, R, T, F, U, O, P)
      /\ RunnerFacts(B, R, T, O, P)
  BY PartsFacts
<1>2. t \in Threads /\ u \in Threads /\ ~Claim(R, P, t)
  BY <1>1 DEF TypeFacts, Claim, Idle
<1>3. \A v \in Threads : Claim(R, P, v) => O[v] # u
  BY <1>2, <1>1 DEF TypeFacts, ClaimFacts, ClaimFits
<1>4. u \notin F /\ B[u].id # 0
  BY <1>2, <1>3, <1>1 DEF TypeFacts, ListsOK, IdsOK
<1>5. PartsOK(B1, R, T, n, F, U \ {u}, O, P)
  BY <1>2, <1>3, <1>4, <1>1 DEF TypeFacts, PartsOK
<1>6. OthersKept(R, R, F, F, U, U \ {u}, O, O, P, P, t)
  BY <1>2, <1>3, <1>4 DEF OthersKept, Put
<1>7. OwnClaim(R, R, F, U \ {u}, O, O, P, P, t)
  BY <1>2, <1>3, <1>4, <1>1 DEF TypeFacts, ClaimFacts, OwnClaim, ClaimFits, Put, Ending
<1>8. ClaimsOK(R, F, U \ {u}, O, P)
  BY <1>2, <1>6, <1>7, <1>1, ClaimsStep
<1>9. \A v \in R : (v \in R /\ B1[v] = B[v] /\ P[v] = P[v]) \/ RunnerFits(B1[v], P[v])
  BY <1>2, <1>3, <1>4, <1>1 DEF TypeFacts, RunnerFacts, RunnerFits, Put
<1>10. \A v \in Threads : v # t /\ Claim(R, P, v) => B1[O[v]] = B[O[v]] \/ BlockFits(B1[O[v]], P[v])
  BY <1>2, <1>3, <1>4, <1>1 DEF TypeFacts, ClaimFacts, BlockFits, Put
<1>11. Claim(R, P, t) => BlockFits(B1[O[t]], P[t])
  BY <1>2, <1>3, <1>4, <1>1 DEF TypeFacts, ClaimFacts, BlockFits, Put, Ending
<1>12. StatesOK(B1, R, O, P)
  BY <1>2, <1>6, <1>9, <1>10, <1>11, <1>1, StatesStep
<1>13. ListsKept(B, B1, R, R, F, F, U, U \ {u}, O, O, P, P)
  BY <1>2, <1>3, <1>4, <1>1 DEF TypeFacts, ListsKept, Put, Claim, Idle
<1>14. ListsOK(B1, R, F, U \ {u}, O, P)
  BY <1>13, <1>1, ListsStep
<1>15. IdsOK(B1, n)
  BY <1>2, <1>3, <1>4, <1>1 DEF TypeFacts, IdsOK, Put
<1>16. \A v \in R : Listed(v, O[v], P[v]) => T[B[v].id] = v
  BY <1>2, <1>3, <1>4, <1>1 DEF TypeFacts, RunnerFacts, Listed, Put
<1>17. Claim(R, P, t) => EntryFits(T[B[O[t]].id], O[t], P[t])
  BY <1>2, <1>3, <1>4, <1>1 DEF TypeFacts, ClaimFacts, EntryFits, Put
<1>18. TableKept(B, B1, R, T, F, F, O, P, t)
  BY <1>2, <1>3, <1>4, <1>16, <1>17, <1>1 DEF TypeFacts, TableKept, Put
<1>19. TableOK(B1, R, T, n, F, O, P)
  BY <1>2, <1>5, <1>6, <1>7, <1>18, <1>1, TableStep
<1>20. \A v \in Threads : Alive(R, O, P, v) <=> Alive(R, O, P, v)
  BY <1>2, <1>3, <1>4, <1>1 DEF TypeFacts, RunnerFacts, RunnerFits, ClaimFacts, ClaimFits, Alive, Put,
    Claim, Idle, Ending
<1>21. \A v \in Threads : (Making(R, P, v) <=> Making(R, P, v)) /\ (Making(R, P, v) => O[v] = O[v])
  BY <1>2, <1>3, <1>4, <1>1 DEF TypeFacts, RunnerFacts, RunnerFits, Making, Put
<1>22. TallyKept(R, R, O, O, P, P)
  BY <1>20, <1>21, <1>2, <1>3, <1>4, <1>1 DEF TallyKept, TypeFacts
<1>23. SameTally(R, R, O, O, P, P)
  BY <1>22, TallyStep, Zenon
<1> QED BY <1>23, <1>5, <1>8, <1>12, <1>14, <1>15, <1>19 DEF LifeParts

\* pthread_create starts the thread.
LEMMA StartParts ==
  ASSUME NEW B, NEW R, NEW T, NEW n, NEW F, NEW U, NEW O, NEW P, LifeParts(B, R, T, n, F, U, O, P),
         NEW t \in R, P[t] = "start", NEW u, O[t] = u,
         NEW U1, U \subseteq U1, U1 \subseteq U \cup {u}, u \in U1 => B[u].state = "JOINABLE",
         NEW O1 \in [Threads -> Threads \cup {None}], Put(O, O1, t, None),
         NEW P1 \in [Threads -> LifePlaces], P1[t] = "run", P1[u] = "run",
         \A v \in Threads : v # t /\ v # u => P1[v] = P[v]
  PROVE  /\ LifeParts(B, R \cup {u}, T, n, F, U1, O1, P1)
         /\ SameTally(R, R \cup {u}, O, O1, P, P1)
<1>1. /\ PartsOK(B, R, T, n, F, U, O, P) /\ ClaimsOK(R, F, U, O, P) /\ StatesOK(B, R, O, P)
      /\ ListsOK(B, R, F, U, O, P) /\ IdsOK(B, n) /\ TableOK(B, R, T, n, F, O, P)
      /\ TypeFacts(B, R, T, n, F, U, O, P) /\ ClaimFacts(B, R, T, F, U, O, P)
      /\ RunnerFacts(B, R, T, O, P)
  BY PartsFacts
<1>2. t \in Threads /\ Claim(R, P, t) /\ u \in Threads
  BY <1>1 DEF TypeFacts, ClaimFacts, Claim, Idle
<1>3. u \notin F /\ u # t /\ u \notin R
  BY <1>2, <1>1 DEF TypeFacts, ClaimFacts, ClaimFits, Ending
<1>4. B[u].state \in {"JOINABLE", "DETACHED"} /\ B[u].stack /\ B[u].kernel /\ T[B[u].id] = u
  BY <1>2, <1>3, <1>1 DEF TypeFacts, ClaimFacts, BlockFits, EntryFits
<1>5. ~Claim(R \cup {u}, P1, t) /\ ~Claim(R, P, u) /\ \A v \in Threads : v # t =>
        (Claim(R \cup {u}, P1, v) <=> Claim(R, P, v))
  BY <1>2, <1>3, <1>4 DEF Claim, Idle
<1>6. \A v \in Threads : v # t /\ Claim(R, P, v) => O[v] # O[t]
  BY <1>2, <1>3, <1>4, <1>5, <1>1 DEF TypeFacts, ClaimFacts
<1>7. PartsOK(B, R \cup {u}, T, n, F, U1, O1, P1)
  BY <1>2, <1>3, <1>4, <1>5, <1>6, <1>1 DEF TypeFacts, PartsOK
<1>8. OthersKept(R, R \cup {u}, F, F, U, U1, O, O1, P, P1, t)
  BY <1>2, <1>3, <1>4, <1>5, <1>6 DEF OthersKept, Put, Claim
<1>9. OwnClaim(R, R \cup {u}, F, U1, O, O1, P, P1, t)
  BY <1>2, <1>3, <1>4, <1>5, <1>6, <1>1 DEF TypeFacts, ClaimFacts, OwnClaim, ClaimFits, Put, Ending
<1>10. ClaimsOK(R \cup {u}, F, U1, O1, P1)
  BY <1>2, <1>8, <1>9, <1>1, ClaimsStep
<1>11. \A v \in R \cup {u} : (v \in R /\ B[v] = B[v] /\ P1[v] = P[v]) \/ RunnerFits(B[v], P1[v])
  BY <1>2, <1>3, <1>4, <1>5, <1>6, <1>1 DEF TypeFacts, RunnerFacts, RunnerFits, Put
<1>12. Claim(R \cup {u}, P1, t) => BlockFits(B[O1[t]], P1[t])
  BY <1>2, <1>3, <1>4, <1>5, <1>6, <1>1 DEF TypeFacts, ClaimFacts, BlockFits, Put, Ending
<1>13. StatesOK(B, R \cup {u}, O1, P1)
  BY <1>2, <1>8, <1>11, <1>12, <1>1, StatesStep
<1>14. ListsKept(B, B, R, R \cup {u}, F, F, U, U1, O, O1, P, P1)
  BY <1>2, <1>3, <1>4, <1>5, <1>6, <1>1 DEF TypeFacts, ListsKept, ListsOK, Put, Claim
<1>15. ListsOK(B, R \cup {u}, F, U1, O1, P1)
  BY <1>14, <1>1, ListsStep
<1>16. \A v \in R \cup {u} : Listed(v, O1[v], P1[v]) => T[B[v].id] = v
  BY <1>2, <1>3, <1>4, <1>5, <1>6, <1>1 DEF TypeFacts, RunnerFacts, Listed, Put
<1>17. Claim(R \cup {u}, P1, t) => EntryFits(T[B[O1[t]].id], O1[t], P1[t])
  BY <1>2, <1>3, <1>4, <1>5, <1>6, <1>1 DEF TypeFacts, ClaimFacts, EntryFits, Put
<1>18. TableKept(B, B, R \cup {u}, T, F, F, O1, P1, t)
  BY <1>2, <1>3, <1>4, <1>5, <1>6, <1>16, <1>17, <1>1 DEF TypeFacts, TableKept, Put
<1>19. TableOK(B, R \cup {u}, T, n, F, O1, P1)
  BY <1>2, <1>7, <1>8, <1>9, <1>18, <1>1, TableStep
<1>20. SameTally(R, R \cup {u}, O, O1, P, P1)
  <2>1. \A v \in Threads : v # u => (Alive(R \cup {u}, O1, P1, v) <=> Alive(R, O, P, v))
    BY <1>2, <1>3, <1>4, <1>5, <1>6 DEF Alive, Put
  <2>2. Alive(R \cup {u}, O1, P1, u)
    BY <1>2, <1>3, <1>4, <1>5, <1>6 DEF Alive
  <2>3. ~Making(R \cup {u}, P1, t) /\ ~Making(R \cup {u}, P1, u) /\ Making(R, P, t)
    BY <1>2, <1>3, <1>4, <1>5, <1>6 DEF Making
  <2>4. \A v \in Threads : v # u /\ v # t =>
          (Making(R \cup {u}, P1, v) <=> Making(R, P, v)) /\ O1[v] = O[v]
    BY <1>2, <1>3, <1>4, <1>5, <1>6 DEF Making, Put
  <2>5. ~Making(R, P, u) /\ R \subseteq Threads
    BY <1>2, <1>3, <1>4, <1>5, <1>6, <1>1 DEF Making, TypeFacts
  <2>6. ASSUME NEW v \in Threads, Tallied(R, O, P, v) PROVE Tallied(R \cup {u}, O1, P1, v)
    <3>1. CASE v = u
      BY <2>2, <3>1 DEF Tallied
    <3>2. CASE v # u /\ Alive(R, O, P, v)
      BY <2>1, <3>2 DEF Tallied
    <3>3. CASE v # u /\ ~Alive(R, O, P, v)
      <4>1. PICK w \in R : Making(R, P, w) /\ O[w] = v
        BY <2>6, <3>3 DEF Tallied
      <4>2. w # t /\ w # u /\ w \in Threads
        BY <3>3, <4>1, <2>5
      <4> QED BY <4>1, <4>2, <2>4 DEF Tallied
    <3> QED BY <3>1, <3>2, <3>3
  <2>7. ASSUME NEW v \in Threads, Tallied(R \cup {u}, O1, P1, v) PROVE Tallied(R, O, P, v)
    <3>1. CASE v = u
      BY <2>3, <3>1 DEF Tallied
    <3>2. CASE v # u /\ Alive(R, O, P, v)
      BY <3>2 DEF Tallied
    <3>3. CASE v # u /\ ~Alive(R, O, P, v)
      <4>1. PICK w \in R \cup {u} : Making(R \cup {u}, P1, w) /\ O1[w] = v
        BY <2>1, <2>7, <3>3 DEF Tallied
      <4>2. w # t /\ w # u /\ w \in R /\ w \in Threads
        BY <4>1, <2>3, <2>5
      <4> QED BY <4>1, <4>2, <2>4 DEF Tallied
    <3> QED BY <3>1, <3>2, <3>3
  <2> QED BY <2>6, <2>7 DEF Tally, SameTally
<1> QED BY <1>20, <1>7, <1>10, <1>13, <1>15, <1>19, <1>1 DEF TypeFacts, LifeParts

\* The thread is entered in the table, or withdrawn from it.
LEMMA EntryParts ==
  ASSUME NEW B, NEW R, NEW T, NEW n, NEW F, NEW U, NEW O, NEW P, LifeParts(B, R, T, n, F, U, O, P),
         NEW t \in R, NEW u, O[t] = u, NEW p, NEW e,
         \/ P[t] = "publish" /\ p = "start" /\ e = u
         \/ P[t] = "withdraw" /\ p = "free" /\ e = None,
         NEW T1 \in Seq(Threads \cup {None}), Replaced(T, T1, B[u].id, e),
         NEW P1 \in [Threads -> LifePlaces], Put(P, P1, t, p)
  PROVE  /\ LifeParts(B, R, T1, n, F, U, O, P1)
         /\ SameTally(R, R, O, O, P, P1)
<1>1. /\ PartsOK(B, R, T, n, F, U, O, P) /\ ClaimsOK(R, F, U, O, P) /\ StatesOK(B, R, O, P)
      /\ ListsOK(B, R, F, U, O, P) /\ IdsOK(B, n) /\ TableOK(B, R, T, n, F, O, P)
      /\ TypeFacts(B, R, T, n, F, U, O, P) /\ ClaimFacts(B, R, T, F, U, O, P)
      /\ RunnerFacts(B, R, T, O, P)
  BY PartsFacts
<1>2. t \in Threads /\ Claim(R, P, t) /\ u \in Threads
  BY <1>1 DEF TypeFacts, ClaimFacts, Claim, Idle
<1>3. u \notin F /\ u \notin U /\ (u # t => u \notin R) /\ (u = t => P[t] = "withdraw")
  BY <1>2, <1>1 DEF TypeFacts, ClaimFacts, ClaimFits, Ending
<1>4. B[u].id # 0 /\ BlockFits(B[u], p)
  BY <1>2, <1>3, <1>1 DEF TypeFacts, ClaimFacts, BlockFits, Ending
<1>5. Claim(R, P1, t) /\ \A v \in Threads : v # t => (Claim(R, P1, v) <=> Claim(R, P, v))
  BY <1>2, <1>3, <1>4 DEF Claim, Put, Idle
<1>6. Len(T1) = Len(T) /\ T1[B[u].id] = e /\ \A i \in 1..Len(T) : i # B[u].id => T1[i] = T[i]
  BY DEF Replaced
<1>7. \A v \in Threads : v # t /\ Claim(R, P, v) => O[v] # O[t]
  BY <1>2, <1>3, <1>4, <1>5, <1>6, <1>1 DEF TypeFacts, ClaimFacts
<1>8. \A v \in Threads : v # u /\ B[v].id # 0 => B[v].id \in 1..Len(T) /\ T1[B[v].id] = T[B[v].id]
  BY <1>2, <1>3, <1>4, <1>5, <1>6, <1>7, <1>1 DEF TypeFacts, IdsOK, TableOK
<1>9. None \notin Threads
  BY NoneNotThread
<1>10. PartsOK(B, R, T1, n, F, U, O, P1)
  BY <1>2, <1>3, <1>4, <1>5, <1>6, <1>7, <1>8, <1>9, <1>1 DEF TypeFacts, PartsOK
<1>11. OthersKept(R, R, F, F, U, U, O, O, P, P1, t)
  BY <1>2, <1>3, <1>4, <1>5, <1>6, <1>7, <1>8, <1>9 DEF OthersKept, Put
<1>12. OwnClaim(R, R, F, U, O, O, P, P1, t)
  BY <1>2, <1>3, <1>4, <1>5, <1>6, <1>7, <1>8, <1>9, <1>1
    DEF TypeFacts, ClaimFacts, OwnClaim, ClaimFits, Put, Ending
<1>13. ClaimsOK(R, F, U, O, P1)
  BY <1>2, <1>11, <1>12, <1>1, ClaimsStep
<1>14. \A v \in R : (v \in R /\ B[v] = B[v] /\ P1[v] = P[v]) \/ RunnerFits(B[v], P1[v])
  BY <1>2, <1>3, <1>4, <1>5, <1>6, <1>7, <1>8, <1>9, <1>1 DEF TypeFacts, RunnerFacts, RunnerFits, Put
<1>15. Claim(R, P1, t) => BlockFits(B[O[t]], P1[t])
  BY <1>2, <1>3, <1>4, <1>5, <1>6, <1>7, <1>8, <1>9 DEF Put
<1>16. StatesOK(B, R, O, P1)
  BY <1>2, <1>11, <1>14, <1>15, <1>1, StatesStep
<1>17. ListsKept(B, B, R, R, F, F, U, U, O, O, P, P1)
  BY <1>2, <1>3, <1>4, <1>5, <1>6, <1>7, <1>8, <1>9, <1>1 DEF TypeFacts, ListsKept, Put, Claim, Idle
<1>18. ListsOK(B, R, F, U, O, P1)
  BY <1>17, <1>1, ListsStep
<1>19. TableOK(B, R, T1, n, F, O, P1)
  <2>1. n <= Len(T1) /\ n > 0
    BY <1>2, <1>3, <1>4, <1>5, <1>6, <1>7, <1>8, <1>9, <1>16, <1>11, <1>1 DEF TableOK
  <2>2. ASSUME NEW i \in 1..Len(T1), T1[i] \in Threads PROVE B[T1[i]].id = i
    BY <1>2, <1>3, <1>4, <1>5, <1>6, <1>7, <1>8, <1>9, <1>16, <1>11, <2>2, <1>1 DEF TableOK
  <2>3. ASSUME NEW v \in R, Listed(v, O[v], P1[v]) PROVE T1[B[v].id] = v
    <3>1. CASE v = u
      BY <1>2, <1>3, <1>4, <1>5, <1>6, <1>7, <1>8, <1>9, <1>16, <1>11, <2>3, <3>1 DEF Listed, Put
    <3>2. CASE v # u
      <4>1. v \in Threads /\ B[v].id # 0
        BY <1>1 DEF TypeFacts, RunnerFacts, RunnerFits, IdsOK
      <4>2. Listed(v, O[v], P[v])
        <5>1. v # t => P1[v] = P[v]
          BY <4>1 DEF Put
        <5>2. v = t => P[v] \in {"publish", "withdraw"}
          OBVIOUS
        <5> QED BY <2>3, <5>1, <5>2 DEF Listed
      <4> QED BY <1>2, <1>3, <1>4, <1>5, <1>6, <1>7, <1>8, <1>9, <1>16, <1>11, <3>2, <4>1, <4>2, <1>1
        DEF RunnerFacts
    <3> QED BY <3>1, <3>2
  <2>4. ASSUME NEW v \in Threads, Claim(R, P1, v) PROVE EntryFits(T1[B[O[v]].id], O[v], P1[v])
    <3>1. CASE v = t
      BY <1>2, <1>3, <1>4, <1>5, <1>6, <1>7, <1>8, <1>9, <1>16, <1>11, <3>1 DEF EntryFits, Put
    <3>2. CASE v # t
      <4>1. Claim(R, P, v) /\ P1[v] = P[v] /\ O[v] \in Threads /\ O[v] # u
        BY <1>2, <1>3, <1>4, <1>5, <1>6, <1>7, <1>8, <1>9, <1>16, <1>11, <2>4, <3>2, <1>1
          DEF ClaimFacts, Put
      <4>2. EntryFits(T[B[O[v]].id], O[v], P[v]) /\ (B[O[v]].id = 0 <=> P[v] = "slot")
        BY <4>1, <1>1 DEF ClaimFacts, BlockFits
      <4> QED BY <1>2, <1>3, <1>4, <1>5, <1>6, <1>7, <1>8, <1>9, <1>16, <1>11, <4>1, <4>2 DEF EntryFits
    <3> QED BY <3>1, <3>2
  <2>5. ASSUME NEW w \in F PROVE B[w].id > 0 /\ T1[B[w].id] = None
    <3>1. w \in Threads /\ w # u /\ B[w].id > 0 /\ T[B[w].id] = None
      BY <1>2, <1>3, <1>4, <1>5, <1>6, <1>7, <1>8, <1>9, <1>16, <1>11, <1>1 DEF TypeFacts, TableOK
    <3>2. B[w].id # 0
      BY <3>1, <1>1 DEF TypeFacts
    <3> QED BY <1>2, <1>3, <1>4, <1>5, <1>6, <1>7, <1>8, <1>9, <1>16, <1>11, <3>1, <3>2
  <2> QED BY <2>1, <2>2, <2>3, <2>4, <2>5 DEF TableOK
<1>20. \A v \in Threads : Alive(R, O, P1, v) <=> Alive(R, O, P, v)
  BY <1>2, <1>3, <1>4, <1>5, <1>6, <1>7, <1>8, <1>9, <1>1
    DEF TypeFacts, RunnerFacts, RunnerFits, ClaimFacts, ClaimFits, Alive, Put, Claim, Idle, Ending
<1>21. \A v \in Threads : (Making(R, P1, v) <=> Making(R, P, v)) /\ (Making(R, P, v) => O[v] = O[v])
  BY <1>2, <1>3, <1>4, <1>5, <1>6, <1>7, <1>8, <1>9, <1>1
    DEF TypeFacts, RunnerFacts, RunnerFits, Making, Put
<1>22. TallyKept(R, R, O, O, P, P1)
  BY <1>20, <1>21, <1>2, <1>3, <1>4, <1>5, <1>6, <1>7, <1>8, <1>9, <1>1 DEF TallyKept, TypeFacts
<1>23. SameTally(R, R, O, O, P, P1)
  BY <1>22, TallyStep, Zenon
<1> QED BY <1>23, <1>10, <1>13, <1>16, <1>18, <1>19, <1>1 DEF TypeFacts, LifeParts

\* __pthread_alloc gives a new block the next ID, in a larger table if need be.
LEMMA SlotParts ==
  ASSUME NEW B, NEW R, NEW T, NEW n, NEW F, NEW U, NEW O, NEW P, LifeParts(B, R, T, n, F, U, O, P),
         NEW t \in R, P[t] = "slot", NEW u, O[t] = u, NEW m, m = n + 1,
         NEW B1 \in [Threads -> Tcbs], \A v \in Threads : v # u => B1[v] = B[v],
         B1[u].id = m, B1[u].state = B[u].state,
         NEW T1 \in Seq(Threads \cup {None}), Enlarged(T, T1, m),
         NEW P1 \in [Threads -> LifePlaces], Put(P, P1, t, "setup")
  PROVE  /\ LifeParts(B1, R, T1, m, F, U, O, P1)
         /\ SameTally(R, R, O, O, P, P1)
<1>1. /\ PartsOK(B, R, T, n, F, U, O, P) /\ ClaimsOK(R, F, U, O, P) /\ StatesOK(B, R, O, P)
      /\ ListsOK(B, R, F, U, O, P) /\ IdsOK(B, n) /\ TableOK(B, R, T, n, F, O, P)
      /\ TypeFacts(B, R, T, n, F, U, O, P) /\ ClaimFacts(B, R, T, F, U, O, P)
      /\ RunnerFacts(B, R, T, O, P)
  BY PartsFacts
<1>2. t \in Threads /\ Claim(R, P, t) /\ u \in Threads
  BY <1>1 DEF TypeFacts, ClaimFacts, Claim, Idle
<1>3. u \notin F /\ u \notin U /\ u # t /\ u \notin R
  BY <1>2, <1>1 DEF TypeFacts, ClaimFacts, ClaimFits, Ending
<1>4. B[u].id = 0 /\ B[u].state = "NEW"
  BY <1>2, <1>3, <1>1 DEF TypeFacts, ClaimFacts, BlockFits
<1>5. Claim(R, P1, t) /\ \A v \in Threads : v # t => (Claim(R, P1, v) <=> Claim(R, P, v))
  BY <1>2, <1>3, <1>4 DEF Claim, Put, Idle
<1>6. \A v \in Threads : v # t /\ Claim(R, P, v) => O[v] # O[t] /\ Enlarged(T, T1, m)
  BY <1>2, <1>3, <1>4, <1>5, <1>1 DEF TypeFacts, ClaimFacts
<1>7. n \in Nat /\ m \in Nat /\ m # 0 /\ Len(T) \in Nat /\ Len(T1) \in Nat
  BY <1>1 DEF TypeFacts, ClaimFacts
<1>8. \A v \in Threads : v # u /\ B[v].id # 0 => B[v].id \in 1..Len(T) /\ T1[B[v].id] = T[B[v].id]
  <2> SUFFICES ASSUME NEW v \in Threads, v # u, B[v].id # 0
               PROVE  B[v].id \in 1..Len(T) /\ T1[B[v].id] = T[B[v].id]
    OBVIOUS
  <2>1. B[v].id \in Nat /\ B[v].id <= n /\ n <= Len(T)
    BY <1>1 DEF TypeFacts, IdsOK, TableOK
  <2>2. B[v].id \in 1..Len(T) /\ B[v].id # m
    BY <1>7, <2>1
  <2> QED BY <1>6, <2>2 DEF Enlarged
<1>9. None \notin Threads
  BY NoneNotThread
<1>10. PartsOK(B1, R, T1, m, F, U, O, P1)
  BY <1>2, <1>3, <1>4, <1>5, <1>6, <1>7, <1>8, <1>9, <1>1 DEF TypeFacts, PartsOK
<1>11. OthersKept(R, R, F, F, U, U, O, O, P, P1, t)
  BY <1>2, <1>3, <1>4, <1>5, <1>6, <1>7, <1>8, <1>9 DEF OthersKept, Put
<1>12. OwnClaim(R, R, F, U, O, O, P, P1, t)
  BY <1>2, <1>3, <1>4, <1>5, <1>6, <1>7, <1>8, <1>9, <1>1
    DEF TypeFacts, ClaimFacts, OwnClaim, ClaimFits, Put, Ending
<1>13. ClaimsOK(R, F, U, O, P1)
  BY <1>2, <1>11, <1>12, <1>1, ClaimsStep
<1>14. \A v \in R : (v \in R /\ B1[v] = B[v] /\ P1[v] = P[v]) \/ RunnerFits(B1[v], P1[v])
  BY <1>2, <1>3, <1>4, <1>5, <1>6, <1>7, <1>8, <1>9, <1>1 DEF TypeFacts, RunnerFacts, RunnerFits, Put
<1>15. \A v \in Threads : v # t /\ Claim(R, P1, v) => B1[O[v]] = B[O[v]] \/ BlockFits(B1[O[v]], P[v])
  BY <1>2, <1>3, <1>4, <1>5, <1>6, <1>7, <1>8, <1>9, <1>1 DEF TypeFacts, ClaimFacts, BlockFits, Put
<1>16. Claim(R, P1, t) => BlockFits(B1[O[t]], P1[t])
  BY <1>2, <1>3, <1>4, <1>5, <1>6, <1>7, <1>8, <1>9 DEF BlockFits, Ending, Put
<1>17. StatesOK(B1, R, O, P1)
  BY <1>2, <1>11, <1>14, <1>15, <1>16, <1>1, StatesStep
<1>18. ListsKept(B, B1, R, R, F, F, U, U, O, O, P, P1)
  BY <1>2, <1>3, <1>4, <1>5, <1>6, <1>7, <1>8, <1>9, <1>1 DEF TypeFacts, ListsKept, Put, Claim, Idle
<1>19. ListsOK(B1, R, F, U, O, P1)
  BY <1>18, <1>1, ListsStep
<1>20. IdsOK(B1, m)
  <2>1. \A v \in Threads : B[v].id \in Nat /\ B[v].id <= n
    BY <1>1 DEF TypeFacts, IdsOK
  <2>2. \A v \in Threads : B1[v].id <= m /\ (B1[v].id = 0 => B1[v].state \in {"NONE", "NEW"})
    BY <1>2, <1>3, <1>4, <1>5, <1>6, <1>7, <1>8, <1>9, <2>1, <1>1 DEF IdsOK
  <2>3. ASSUME NEW v \in Threads, NEW w \in Threads, v # w, B1[v].id = B1[w].id PROVE B1[v].id = 0
    <3>1. CASE v = u \/ w = u
      BY <1>2, <1>3, <1>4, <1>5, <1>6, <1>7, <1>8, <1>9, <2>1, <2>3, <3>1
    <3>2. CASE v # u /\ w # u
      BY <2>3, <3>2, <1>1 DEF IdsOK
    <3> QED BY <3>1, <3>2
  <2> QED BY <2>2, <2>3 DEF IdsOK
<1>21. TableOK(B1, R, T1, m, F, O, P1)
  <2>1. m <= Len(T1) /\ m > 0
    BY <1>2, <1>3, <1>4, <1>5, <1>6, <1>7, <1>8, <1>9, <1>17, <1>11 DEF Enlarged
  <2>2. ASSUME NEW i \in 1..Len(T1), T1[i] \in Threads PROVE B1[T1[i]].id = i
    <3>1. i \in 1..Len(T) /\ i # m /\ T1[i] = T[i]
      BY <1>2, <1>3, <1>4, <1>5, <1>6, <1>7, <1>8, <1>9, <1>17, <1>11, <2>2 DEF Enlarged
    <3>2. B[T1[i]].id = i /\ T1[i] # u
      BY <1>2, <1>3, <1>4, <1>5, <1>6, <1>7, <1>8, <1>9, <1>17, <1>11, <2>2, <3>1, <1>1 DEF TableOK
    <3> QED BY <2>2, <3>2
  <2>3. ASSUME NEW v \in R, Listed(v, O[v], P1[v]) PROVE T1[B1[v].id] = v
    <3>1. v \in Threads /\ v # u /\ B[v].id # 0
      BY <1>2, <1>3, <1>4, <1>5, <1>6, <1>7, <1>8, <1>9, <1>17, <1>11, <1>1
        DEF TypeFacts, RunnerFacts, RunnerFits, IdsOK
    <3>2. Listed(v, O[v], P[v])
      <4>1. v # t => P1[v] = P[v]
        BY <3>1 DEF Put
      <4>2. v = t => P[v] = "slot"
        OBVIOUS
      <4> QED BY <2>3, <4>1, <4>2 DEF Listed
    <3> QED BY <1>2, <1>3, <1>4, <1>5, <1>6, <1>7, <1>8, <1>9, <1>17, <1>11, <3>1, <3>2, <1>1
      DEF RunnerFacts
  <2>4. ASSUME NEW v \in Threads, Claim(R, P1, v) PROVE EntryFits(T1[B1[O[v]].id], O[v], P1[v])
    <3>1. CASE v = t
      BY <1>2, <1>3, <1>4, <1>5, <1>6, <1>7, <1>8, <1>9, <1>17, <1>11, <3>1 DEF EntryFits, Put, Enlarged
    <3>2. CASE v # t
      <4>1. Claim(R, P, v) /\ P1[v] = P[v] /\ O[v] \in Threads /\ O[v] # u
        BY <1>2, <1>3, <1>4, <1>5, <1>6, <1>7, <1>8, <1>9, <1>17, <1>11, <2>4, <3>2, <1>1
          DEF ClaimFacts, Put
      <4>2. EntryFits(T[B[O[v]].id], O[v], P[v]) /\ (B[O[v]].id = 0 <=> P[v] = "slot")
        BY <4>1, <1>1 DEF ClaimFacts, BlockFits
      <4> QED BY <1>2, <1>3, <1>4, <1>5, <1>6, <1>7, <1>8, <1>9, <1>17, <1>11, <4>1, <4>2 DEF EntryFits
    <3> QED BY <3>1, <3>2
  <2>5. ASSUME NEW w \in F PROVE B1[w].id > 0 /\ T1[B1[w].id] = None
    <3>1. w \in Threads /\ w # u /\ B[w].id > 0 /\ T[B[w].id] = None
      BY <1>2, <1>3, <1>4, <1>5, <1>6, <1>7, <1>8, <1>9, <1>17, <1>11, <1>1 DEF TypeFacts, TableOK
    <3>2. B[w].id # 0
      BY <3>1, <1>1 DEF TypeFacts
    <3> QED BY <1>2, <1>3, <1>4, <1>5, <1>6, <1>7, <1>8, <1>9, <1>17, <1>11, <3>1, <3>2
  <2> QED BY <2>1, <2>2, <2>3, <2>4, <2>5 DEF TableOK
<1>22. \A v \in Threads : Alive(R, O, P1, v) <=> Alive(R, O, P, v)
  BY <1>2, <1>3, <1>4, <1>5, <1>6, <1>7, <1>8, <1>9, <1>1
    DEF TypeFacts, RunnerFacts, RunnerFits, ClaimFacts, ClaimFits, Alive, Put, Claim, Idle, Ending
<1>23. \A v \in Threads : (Making(R, P1, v) <=> Making(R, P, v)) /\ (Making(R, P, v) => O[v] = O[v])
  BY <1>2, <1>3, <1>4, <1>5, <1>6, <1>7, <1>8, <1>9, <1>1
    DEF TypeFacts, RunnerFacts, RunnerFits, Making, Put
<1>24. TallyKept(R, R, O, O, P, P1)
  BY <1>22, <1>23, <1>2, <1>3, <1>4, <1>5, <1>6, <1>7, <1>8, <1>9, <1>1 DEF TallyKept, TypeFacts
<1>25. SameTally(R, R, O, O, P, P1)
  BY <1>24, TallyStep, Zenon
<1> QED BY <1>25, <1>10, <1>13, <1>17, <1>19, <1>20, <1>21 DEF LifeParts

\* pthread_create counts the new thread.
LEMMA CountParts ==
  ASSUME NEW B, NEW R, NEW T, NEW n, NEW F, NEW U, NEW O, NEW P, LifeParts(B, R, T, n, F, U, O, P),
         NEW t \in R, P[t] = "count", NEW u, O[t] = u,
         NEW P1 \in [Threads -> LifePlaces], Put(P, P1, t, "publish")
  PROVE  u \in Threads /\ u \notin Tally(R, O, P) /\ Tally(R, O, P1) = Tally(R, O, P) \cup {u}
<1>1. TypeFacts(B, R, T, n, F, U, O, P) /\ ClaimFacts(B, R, T, F, U, O, P)
  BY PartsFacts
<1>2. t \in Threads /\ Claim(R, P, t) /\ u \in Threads
  BY <1>1 DEF TypeFacts, ClaimFacts, Claim, Idle
<1>3. u # t /\ u \notin R
  BY <1>1, <1>2 DEF ClaimFacts, ClaimFits, Ending
<1>4. \A v \in R : Making(R, P, v) => v \in Threads /\ v # t /\ O[v] # u
  BY <1>1, <1>2 DEF TypeFacts, ClaimFacts, Claim, Idle, Making
<1>5. \A v \in Threads : Alive(R, O, P1, v) <=> Alive(R, O, P, v)
  <2>1. ASSUME NEW v \in Threads, v # t PROVE Alive(R, O, P1, v) <=> Alive(R, O, P, v)
    BY <2>1 DEF Alive, Put
  <2>2. Alive(R, O, P1, t) <=> Alive(R, O, P, t)
    BY <1>3 DEF Alive, Put
  <2> QED BY <2>1, <2>2
<1>6. Making(R, P1, t) /\ \A v \in Threads : v # t => (Making(R, P1, v) <=> Making(R, P, v))
  BY <1>2 DEF Making, Put
<1>7. ~Tallied(R, O, P, u)
  BY <1>3, <1>4 DEF Tallied, Alive
<1>8. Tallied(R, O, P1, u)
  BY <1>6 DEF Tallied
<1>9. ASSUME NEW v \in Threads, v # u PROVE Tallied(R, O, P1, v) <=> Tallied(R, O, P, v)
  <2>1. ASSUME NEW w \in R, Making(R, P1, w), O[w] = v PROVE \E x \in R : Making(R, P, x) /\ O[x] = v
    <3>1. w # t /\ w \in Threads
      BY <1>1, <1>9, <2>1 DEF TypeFacts
    <3> QED BY <1>6, <2>1, <3>1
  <2>2. ASSUME NEW w \in R, Making(R, P, w), O[w] = v PROVE \E x \in R : Making(R, P1, x) /\ O[x] = v
    BY <1>4, <1>6, <2>2
  <2> QED BY <1>5, <2>1, <2>2 DEF Tallied
<1>10. u \notin Tally(R, O, P)
  BY <1>7 DEF Tally
<1>11. Tally(R, O, P1) = Tally(R, O, P) \cup {u}
  BY <1>2, <1>8, <1>9 DEF Tally
<1> QED BY <1>2, <1>10, <1>11

\* pthread_exit counts the thread out.
LEMMA LeaveParts ==
  ASSUME NEW B, NEW R, NEW T, NEW n, NEW F, NEW U, NEW O, NEW P, LifeParts(B, R, T, n, F, U, O, P),
         NEW t \in R, P[t] = "run", NEW P1 \in [Threads -> LifePlaces], Put(P, P1, t, "exit")
  PROVE  t \in Tally(R, O, P) /\ Tally(R, O, P1) = Tally(R, O, P) \ {t}
<1>1. TypeFacts(B, R, T, n, F, U, O, P) /\ ClaimFacts(B, R, T, F, U, O, P)
  BY PartsFacts
<1>2. t \in Threads
  BY <1>1 DEF TypeFacts
<1>3. \A v \in R : Making(R, P, v) => v \in Threads /\ v # t /\ O[v] # t
  <2> SUFFICES ASSUME NEW v \in R, Making(R, P, v) PROVE v \in Threads /\ v # t /\ O[v] # t
    OBVIOUS
  <2>1. v \in Threads /\ v # t /\ Claim(R, P, v)
    BY <1>1 DEF TypeFacts, Making, Claim, Idle
  <2>2. ClaimFits(R, F, U, v, O[v], P[v])
    BY <1>1, <2>1 DEF ClaimFacts
  <2> QED BY <2>1, <2>2 DEF ClaimFits, Making, Ending
<1>4. \A v \in Threads : Making(R, P1, v) <=> Making(R, P, v)
  BY <1>2 DEF Making, Put
<1>5. \A v \in Threads : v # t => (Alive(R, O, P1, v) <=> Alive(R, O, P, v))
  BY DEF Alive, Put
<1>6. ~Tallied(R, O, P1, t)
  <2>1. ~Alive(R, O, P1, t)
    BY DEF Alive, Put
  <2>2. \A v \in R : Making(R, P1, v) => O[v] # t
    BY <1>1, <1>3, <1>4 DEF TypeFacts
  <2> QED BY <2>1, <2>2 DEF Tallied
<1>7. Tallied(R, O, P, t)
  BY DEF Tallied, Alive
<1>8. \A v \in Threads : v # t => (Tallied(R, O, P1, v) <=> Tallied(R, O, P, v))
  BY <1>1, <1>4, <1>5 DEF Tallied, TypeFacts
<1>9. t \in Tally(R, O, P)
  BY <1>2, <1>7 DEF Tally
<1>10. Tally(R, O, P1) = Tally(R, O, P) \ {t}
  BY <1>6, <1>8 DEF Tally
<1> QED BY <1>9, <1>10

-----------------------------------------------------------------------------
(***************************************************************************)
(* The actions.                                                            *)
(***************************************************************************)
LEMMA LifeFacts ==
  ASSUME LifeInv
  PROVE  /\ object \in LifeObject /\ pc \in [Threads -> LifePlaces] /\ AllAwake
         /\ object.kind = Life /\ object.tcb \in [Threads -> Tcbs]
         /\ object.running \in SUBSET Threads /\ object.threads \in Seq(Threads \cup {None})
         /\ object.num \in Nat /\ object.free \in Seq(Threads) /\ object.total \in Nat
         /\ object.exited \in BOOLEAN /\ object.unclaimed \in SUBSET Threads
         /\ object.of \in [Threads -> Threads \cup {None}]
         /\ LifeParts(object.tcb, object.running, object.threads, object.num, ToSet(object.free),
                      object.unclaimed, object.of, pc)
         /\ IsInjective(object.free)
         /\ TallyOK(object.running, object.of, pc, object.total, object.exited)
BY LifeFields DEF LifeInv, LifeTypeOK

\* What the new object and the new places are, and that they are in order.
Lives(tcb, running, threads, num, free, total, exited, unclaimed, of) ==
    /\ LifeIs(object', tcb, running, threads, num, free, total, exited, unclaimed, of)
    /\ LifeParts(tcb, running, threads, num, ToSet(free), unclaimed, of, pc')
    /\ IsInjective(free)
    /\ TallyOK(running, of, pc', total, exited)
    /\ AllAwake /\ UNCHANGED <<call, waking>>

LEMMA Lifted ==
  ASSUME NEW tcb, NEW running, NEW threads, NEW num, NEW free, NEW total, NEW exited,
         NEW unclaimed, NEW of,
         Lives(tcb, running, threads, num, free, total, exited, unclaimed, of)
  PROVE  LifeInv'
<1>1. object' \in LifeObject /\ pc' \in [Threads -> LifePlaces] /\ AllAwake'
  BY DEF Lives, LifeIs, LifeParts, PartsOK, AllAwake
<1>2. /\ LifeParts((object.tcb)', (object.running)', (object.threads)', (object.num)',
                   ToSet((object.free)'), (object.unclaimed)', (object.of)', pc')
      /\ IsInjective((object.free)')
      /\ TallyOK((object.running)', (object.of)', pc', (object.total)', (object.exited)')
  BY DEF Lives, LifeIs
<1> QED BY <1>1, <1>2 DEF LifeInv, LifeTypeOK

\* What every step but the start of a thread has in common.
LEMMA StepFacts ==
  ASSUME LifeInv, NEW t \in Threads, NEW from, NEW to \in LifePlaces, Step(t, from, to)
  PROVE  /\ t \in object.running /\ pc[t] = from /\ ~object.exited
         /\ pc' \in [Threads -> LifePlaces] /\ Put(pc, pc', t, to)
         /\ AllAwake /\ UNCHANGED <<call, waking>>
BY DEF LifeInv, LifeTypeOK, Step, Put

LEMMA WorkOnIs ==
  ASSUME object \in LifeObject, NEW t \in Threads, NEW u \in Threads \cup {None},
         NEW O1, O1 = [object.of EXCEPT ![t] = u]
  PROVE  /\ O1 \in [Threads -> Threads \cup {None}] /\ Put(object.of, O1, t, u)
         /\ WorkOn(t, u) = [of |-> O1]
         /\ LifeIs(Updated(WorkOn(t, u)), object.tcb, object.running, object.threads, object.num,
                   object.free, object.total, object.exited, object.unclaimed, O1)
<1>1. O1 \in [Threads -> Threads \cup {None}] /\ Put(object.of, O1, t, u)
  BY LifeFields DEF Put
<1>2. WorkOn(t, u) = [of |-> O1]
  BY DEF WorkOn
<1> QED BY <1>1, <1>2, SetOf DEF Updated

\* With the total and the tally as before.
LEMMA SameTotal ==
  ASSUME LifeInv, NEW R1, NEW O1, NEW P1, SameTally(object.running, R1, object.of, O1, pc, P1)
  PROVE  TallyOK(R1, O1, P1, object.total, object.exited)
BY DEF LifeInv, TallyOK, SameTally

\* The fields of a control block.
TcbIs(b, state, id, stack, kernel) ==
    b \in Tcbs /\ b.state = state /\ b.id = id /\ b.stack = stack /\ b.kernel = kernel

States == {"NONE", "NEW", "JOINABLE", "DETACHED", "EXITED", "TERMINATED"}

LEMMA SetState ==
  ASSUME NEW b \in Tcbs, NEW s \in States
  PROVE  TcbIs(With(b, [state |-> s]), s, b.id, b.stack, b.kernel)
BY DEF Tcbs, States, With, TcbIs

LEMMA SetId ==
  ASSUME NEW b \in Tcbs, NEW i \in Nat
  PROVE  TcbIs(With(b, [id |-> i]), b.state, i, b.stack, b.kernel)
BY DEF Tcbs, With, TcbIs

LEMMA SetUp ==
  ASSUME NEW b \in Tcbs, NEW s \in States
  PROVE  TcbIs(With(b, [state |-> s, stack |-> TRUE, kernel |-> TRUE]), s, b.id, TRUE, TRUE)
BY DEF Tcbs, States, With, TcbIs

LEMMA SetFailed ==
  ASSUME NEW b \in Tcbs, NEW s \in States
  PROVE  TcbIs(With(b, [state |-> s, stack |-> FALSE]), s, b.id, FALSE, b.kernel)
BY DEF Tcbs, States, With, TcbIs

LEMMA SetReaped ==
  ASSUME NEW b \in Tcbs
  PROVE  TcbIs(With(b, [stack |-> FALSE, kernel |-> FALSE]), b.state, b.id, FALSE, FALSE)
BY DEF Tcbs, With, TcbIs

LEMMA WithTcbIs ==
  ASSUME object \in LifeObject, NEW u \in Threads, NEW fields, With(object.tcb[u], fields) \in Tcbs,
         NEW B1, B1 = [object.tcb EXCEPT ![u] = With(object.tcb[u], fields)]
  PROVE  /\ B1 \in [Threads -> Tcbs] /\ B1[u] = With(object.tcb[u], fields)
         /\ \A v \in Threads : v # u => B1[v] = object.tcb[v]
         /\ WithTcb(u, fields) = [tcb |-> B1]
         /\ LifeIs(Updated(WithTcb(u, fields)), B1, object.running, object.threads, object.num,
                   object.free, object.total, object.exited, object.unclaimed, object.of)
<1>1. B1 \in [Threads -> Tcbs] /\ B1[u] = With(object.tcb[u], fields)
      /\ \A v \in Threads : v # u => B1[v] = object.tcb[v]
  BY LifeFields
<1>2. WithTcb(u, fields) = [tcb |-> B1]
  BY DEF WithTcb
<1> QED BY <1>1, <1>2, SetTcb DEF Updated

\* A thread in the midst of a call works on a block.
LEMMA TargetFacts ==
  ASSUME LifeInv, NEW t \in object.running, pc[t] \notin Idle
  PROVE  /\ object.of[t] \in Threads /\ object.tcb[object.of[t]] \in Tcbs
         /\ BlockFits(object.tcb[object.of[t]], pc[t])
         /\ ClaimFits(object.running, ToSet(object.free), object.unclaimed, t, object.of[t], pc[t])
<1>1. /\ ClaimFacts(object.tcb, object.running, object.threads, ToSet(object.free),
                    object.unclaimed, object.of, pc)
      /\ TypeFacts(object.tcb, object.running, object.threads, object.num, ToSet(object.free),
                   object.unclaimed, object.of, pc)
  BY LifeFacts, PartsFacts
<1>2. t \in Threads /\ Claim(object.running, pc, t)
  BY <1>1 DEF Claim, TypeFacts
<1> QED BY <1>1, <1>2 DEF ClaimFacts, TypeFacts

LEMMA FreeFacts ==
  ASSUME LifeInv, NEW i \in 1..Len(object.free)
  PROVE  object.free[i] \in Threads /\ object.free[i] \in ToSet(object.free)
<1>1. object.free \in Seq(Threads)
  BY LifeFacts
<1> QED BY <1>1 DEF ToSet

-----------------------------------------------------------------------------
LEMMA CreateRecycledInv ==
  ASSUME LifeInv, NEW t \in Threads, CreateRecycled(t)
  PROVE  LifeInv'
<1> DEFINE u == object.free[Reusable]
           O1 == [object.of EXCEPT ![t] = u]
           F1 == RemoveAt(object.free, Reusable)
<1>1. /\ object \in LifeObject /\ object.free \in Seq(Threads) /\ IsInjective(object.free)
      /\ LifeParts(object.tcb, object.running, object.threads, object.num, ToSet(object.free),
                   object.unclaimed, object.of, pc)
  BY LifeFacts
<1>2. /\ t \in object.running /\ pc[t] = "run" /\ Put(pc, pc', t, "halt new")
      /\ pc' \in [Threads -> LifePlaces] /\ AllAwake /\ UNCHANGED <<call, waking>>
  BY StepFacts DEF CreateRecycled, LifePlaces
<1>3. Reusable \in 1..Len(object.free) /\ object.tcb[u].state = "TERMINATED"
  BY <1>1, ReusableIs DEF CreateRecycled
<1>4. u \in Threads /\ u \in ToSet(object.free)
  BY <1>3, FreeFacts
<1>5. F1 \in Seq(Threads) /\ IsInjective(F1) /\ ToSet(F1) = ToSet(object.free) \ {u}
  BY <1>1, <1>3, Removing
<1>6. /\ O1 \in [Threads -> Threads \cup {None}] /\ Put(object.of, O1, t, u)
      /\ LifeIs(Updated(WorkOn(t, u)), object.tcb, object.running, object.threads, object.num,
                object.free, object.total, object.exited, object.unclaimed, O1)
  BY <1>1, <1>4, WorkOnIs
<1>7. object' = With(Updated(WorkOn(t, u)), [free |-> F1])
  BY DEF CreateRecycled
<1> HIDE DEF u, O1, F1
<1>8. LifeIs(object', object.tcb, object.running, object.threads, object.num,
             F1, object.total, object.exited, object.unclaimed, O1)
  BY <1>5, <1>6, <1>7, SetFree DEF LifeIs
<1>9. /\ LifeParts(object.tcb, object.running, object.threads, object.num, ToSet(F1),
                   object.unclaimed, O1, pc')
      /\ SameTally(object.running, object.running, object.of, O1, pc, pc')
  <2>1. /\ LifeParts(object.tcb, object.running, object.threads, object.num,
                     ToSet(object.free) \ {u}, object.unclaimed, O1, pc')
        /\ SameTally(object.running, object.running, object.of, O1, pc, pc')
    BY <1>1, <1>2, <1>3, <1>4, <1>6, RecycleParts
  <2> QED BY <1>5, <2>1
<1>10. TallyOK(object.running, O1, pc', object.total, object.exited)
  BY <1>9, SameTotal
<1> QED BY <1>2, <1>5, <1>8, <1>9, <1>10, Lifted DEF Lives

LEMMA AllocHaltInv ==
  ASSUME LifeInv, NEW t \in Threads, AllocHalt(t)
  PROVE  LifeInv'
<1> DEFINE u == object.of[t]
           R1 == object.running \ {u}
<1>1. /\ object \in LifeObject /\ object.running \in SUBSET Threads /\ IsInjective(object.free)
      /\ LifeParts(object.tcb, object.running, object.threads, object.num, ToSet(object.free),
                   object.unclaimed, object.of, pc)
  BY LifeFacts
<1>2. /\ t \in object.running /\ pc[t] = "halt new" /\ Put(pc, pc', t, "setup")
      /\ pc' \in [Threads -> LifePlaces] /\ AllAwake /\ UNCHANGED <<call, waking>>
  BY StepFacts DEF AllocHalt, LifePlaces
<1>3. /\ LifeParts(object.tcb, R1, object.threads, object.num, ToSet(object.free),
                   object.unclaimed, object.of, pc')
      /\ SameTally(object.running, R1, object.of, object.of, pc, pc')
  BY <1>1, <1>2, StopParts
<1>4. LifeIs(object', object.tcb, R1, object.threads, object.num,
             object.free, object.total, object.exited, object.unclaimed, object.of)
  <2>1. CASE Target(t).kernel
    <3>1. object' = With(object, [running |-> R1])
      BY <2>1 DEF AllocHalt, Updated, Stopped
    <3>2. R1 \in SUBSET Threads
      BY <1>1
    <3> HIDE DEF R1
    <3> QED BY <1>1, <3>1, <3>2, SetRunning
  <2>2. CASE ~Target(t).kernel
    <3>1. object' = object
      BY <2>2 DEF AllocHalt
    <3>2. u \notin object.running
      <4>1. RunnerFacts(object.tcb, object.running, object.threads, object.of, pc)
        BY <1>1, PartsFacts
      <4> QED BY <2>2, <4>1 DEF RunnerFacts, RunnerFits, Target
    <3>3. R1 = object.running
      BY <3>2
    <3> QED BY <1>1, <3>1, <3>3 DEF LifeIs
  <2> QED BY <2>1, <2>2
<1> HIDE DEF u, R1
<1>5. TallyOK(R1, object.of, pc', object.total, object.exited)
  BY <1>3, SameTotal
<1> QED BY <1>1, <1>2, <1>3, <1>4, <1>5, Lifted DEF Lives

\* A step that changes the thread ID table.
LEMMA EntryIs ==
  ASSUME LifeInv, NEW u \in Threads, object.tcb[u].id # 0, NEW e \in Threads \cup {None},
         NEW T1, T1 = [object.threads EXCEPT ![object.tcb[u].id] = e]
  PROVE  /\ T1 \in Seq(Threads \cup {None}) /\ Replaced(object.threads, T1, object.tcb[u].id, e)
         /\ LifeIs(Updated(Entry(object.tcb[u].id, e)), object.tcb, object.running, T1, object.num,
                   object.free, object.total, object.exited, object.unclaimed, object.of)
<1> DEFINE T == object.threads
           k == object.tcb[u].id
<1>1. object \in LifeObject /\ T \in Seq(Threads \cup {None}) /\ object.num \in Nat
      /\ LifeParts(object.tcb, object.running, object.threads, object.num, ToSet(object.free),
                   object.unclaimed, object.of, pc)
  BY LifeFacts
<1>2. k \in Nat /\ k <= object.num /\ object.num <= Len(T)
  BY <1>1, PartsFacts DEF IdsOK, TableOK, TypeFacts
<1>3. Entry(k, e) = [threads |-> T1]
  BY DEF Entry
<1>4. k # 0 /\ T1 = [T EXCEPT ![k] = e]
  OBVIOUS
<1> HIDE DEF T, k
<1>5. k \in 1..Len(T)
  BY <1>1, <1>2, <1>4
<1>6. T1 \in Seq(Threads \cup {None})
  <2> DEFINE S == Threads \cup {None}
  <2>1. T \in Seq(S) /\ e \in S
    BY <1>1
  <2> HIDE DEF S
  <2>2. [T EXCEPT ![k] = e] \in Seq(S)
    BY <1>5, <2>1, ExceptSeq
  <2> QED BY <1>4, <2>2 DEF S
<1>7. Replaced(T, T1, k, e)
  BY <1>1, <1>4, <1>5, ExceptSeq DEF Replaced
<1>8. LifeIs(Updated([threads |-> T1]), object.tcb, object.running, T1, object.num,
             object.free, object.total, object.exited, object.unclaimed, object.of)
  BY <1>1, <1>6, SetThreads DEF Updated
<1> QED BY <1>3, <1>6, <1>7, <1>8 DEF T, k

LEMMA TallyFinite ==
  ASSUME NEW R, NEW O, NEW P
  PROVE  IsFiniteSet(Tally(R, O, P)) /\ Cardinality(Tally(R, O, P)) \in Nat
<1>1. Tally(R, O, P) \subseteq Threads
  BY DEF Tally
<1> QED BY <1>1, ThreadsFinite, FS_Subset, FS_CardinalityType

LEMMA CreateCountInv ==
  ASSUME LifeInv, NEW t \in Threads, CreateCount(t)
  PROVE  LifeInv'
<1> DEFINE u == object.of[t]
           old == Tally(object.running, object.of, pc)
<1>1. /\ object \in LifeObject /\ IsInjective(object.free) /\ object.total \in Nat
      /\ TallyOK(object.running, object.of, pc, object.total, object.exited)
  BY LifeFacts
<1>2. LifeParts(object.tcb, object.running, object.threads, object.num, ToSet(object.free),
                object.unclaimed, object.of, pc)
  BY LifeFacts
<1>3. /\ t \in object.running /\ pc[t] = "count" /\ Put(pc, pc', t, "publish")
      /\ pc' \in [Threads -> LifePlaces]
  BY StepFacts DEF CreateCount, LifePlaces
<1>4. AllAwake /\ UNCHANGED <<call, waking>> /\ ~object.exited
  BY StepFacts DEF CreateCount, LifePlaces
<1>5. LifeParts(object.tcb, object.running, object.threads, object.num, ToSet(object.free),
                object.unclaimed, object.of, pc')
  BY <1>2, <1>3, MoveParts
<1>6. u \notin old /\ Tally(object.running, object.of, pc') = old \cup {u}
  BY <1>2, <1>3, CountParts
<1>7. IsFiniteSet(old) /\ Cardinality(old) \in Nat
  BY TallyFinite
<1>8. object.total = Cardinality(old)
  BY <1>1, <1>4 DEF TallyOK
<1>9. object' = With(object, [total |-> object.total + 1])
  BY DEF CreateCount, Updated
<1> HIDE DEF old
<1>10. Cardinality(old \cup {u}) = Cardinality(old) + 1
  BY <1>6, <1>7, FS_AddElement
<1>11. TallyOK(object.running, object.of, pc', object.total + 1, object.exited)
  BY <1>4, <1>6, <1>8, <1>10 DEF TallyOK
<1>12. LifeIs(object', object.tcb, object.running, object.threads, object.num, object.free,
              object.total + 1, object.exited, object.unclaimed, object.of)
  <2>1. object.total + 1 \in Nat
    BY <1>1
  <2> QED BY <1>1, <1>9, <2>1, SetTotal
<1> QED BY <1>1, <1>4, <1>5, <1>11, <1>12, Lifted DEF Lives

LEMMA ExitCountInv ==
  ASSUME LifeInv, NEW t \in Threads, ExitCount(t)
  PROVE  LifeInv'
<1> DEFINE old == Tally(object.running, object.of, pc)
           last == (object.total = 1)
<1>1. /\ object \in LifeObject /\ IsInjective(object.free) /\ object.total \in Nat
      /\ TallyOK(object.running, object.of, pc, object.total, object.exited)
  BY LifeFacts
<1>2. LifeParts(object.tcb, object.running, object.threads, object.num, ToSet(object.free),
                object.unclaimed, object.of, pc)
  BY LifeFacts
<1>3. /\ t \in object.running /\ pc[t] = "run" /\ Put(pc, pc', t, "exit")
      /\ pc' \in [Threads -> LifePlaces]
  BY StepFacts DEF ExitCount, LifePlaces, Idle
<1>4. AllAwake /\ UNCHANGED <<call, waking>> /\ ~object.exited
  BY StepFacts DEF ExitCount, LifePlaces, Idle
<1>5. LifeParts(object.tcb, object.running, object.threads, object.num, ToSet(object.free),
                object.unclaimed, object.of, pc')
  BY <1>2, <1>3, MoveParts
<1>6. t \in old /\ Tally(object.running, object.of, pc') = old \ {t}
  BY <1>2, <1>3, LeaveParts
<1>7. IsFiniteSet(old) /\ Cardinality(old) \in Nat
  BY TallyFinite
<1>8. object.total = Cardinality(old)
  BY <1>1, <1>4 DEF TallyOK
<1>9. object' = With(object, [total |-> object.total - 1, exited |-> last])
  BY DEF ExitCount, Updated
<1>10. last \in BOOLEAN
  OBVIOUS
<1> HIDE DEF old
<1>11. Cardinality(old \ {t}) = Cardinality(old) - 1 /\ Cardinality(old \ {t}) \in Nat
  <2>1. IsFiniteSet(old \ {t}) /\ Cardinality(old \ {t}) = Cardinality(old) - 1
    BY <1>6, <1>7, FS_RemoveElement
  <2> QED BY <2>1, FS_CardinalityType
<1>12. TallyOK(object.running, object.of, pc', object.total - 1, last)
  BY <1>6, <1>8, <1>7, <1>11 DEF TallyOK
<1> HIDE DEF last
<1>13. object.total - 1 \in Nat
  BY <1>8, <1>11
<1>14. LifeIs(object', object.tcb, object.running, object.threads, object.num, object.free,
              object.total - 1, last, object.unclaimed, object.of)
  BY <1>1, <1>9, <1>10, <1>13, SetExit
<1> QED BY <1>1, <1>4, <1>5, <1>12, <1>14, Lifted DEF Lives

LEMMA CreateNewInv ==
  ASSUME LifeInv, NEW t \in Threads, CreateNew(t)
  PROVE  LifeInv'
<1> DEFINE u == CHOOSE v \in Threads : object.tcb[v] = NoTcb
           b == With(object.tcb[u], [state |-> "NEW"])
           B1 == [object.tcb EXCEPT ![u] = b]
           O1 == [object.of EXCEPT ![t] = u]
<1>1. /\ object \in LifeObject /\ object.tcb \in [Threads -> Tcbs]
      /\ object.running \in SUBSET Threads /\ object.threads \in Seq(Threads \cup {None})
      /\ object.num \in Nat /\ object.free \in Seq(Threads) /\ object.unclaimed \in SUBSET Threads
      /\ LifeParts(object.tcb, object.running, object.threads, object.num, ToSet(object.free),
                   object.unclaimed, object.of, pc)
      /\ IsInjective(object.free)
  BY LifeFacts
<1>2. /\ t \in object.running /\ pc[t] = "run" /\ Put(pc, pc', t, "slot")
      /\ pc' \in [Threads -> LifePlaces] /\ AllAwake /\ UNCHANGED <<call, waking>>
  BY StepFacts DEF CreateNew, LifePlaces
<1>3. u \in Threads /\ object.tcb[u] = NoTcb
  BY DEF CreateNew
<1>4. object' = With(Updated(WorkOn(t, u)), WithTcb(u, [state |-> "NEW"]))
  BY DEF CreateNew
<1> HIDE DEF u
<1>5. object.tcb[u].state = "NONE" /\ object.tcb[u].id = 0 /\ object.tcb[u] \in Tcbs
  BY <1>1, <1>2, <1>3, <1>4 DEF NoTcb, Tcbs
<1>6. TcbIs(b, "NEW", object.tcb[u].id, object.tcb[u].stack, object.tcb[u].kernel)
  BY <1>1, <1>2, <1>3, <1>4, <1>5, SetState DEF States
<1>7. /\ B1 \in [Threads -> Tcbs] /\ B1[u] = b /\ \A v \in Threads : v # u => B1[v] = object.tcb[v]
      /\ WithTcb(u, [state |-> "NEW"]) = [tcb |-> B1]
  BY <1>1, <1>2, <1>3, <1>4, <1>5, <1>6, WithTcbIs DEF TcbIs
<1>8. /\ O1 \in [Threads -> Threads \cup {None}] /\ Put(object.of, O1, t, u)
      /\ LifeIs(Updated(WorkOn(t, u)), object.tcb, object.running, object.threads, object.num,
                object.free, object.total, object.exited, object.unclaimed, O1)
  BY <1>1, <1>2, <1>3, <1>4, <1>5, <1>6, <1>7, WorkOnIs
<1> HIDE DEF b, B1, O1
<1>9. B1[u].state = "NEW" /\ B1[u].id = object.tcb[u].id
  BY <1>1, <1>2, <1>3, <1>4, <1>5, <1>6, <1>7, <1>8 DEF TcbIs
<1>10. LifeIs(object', B1, object.running, object.threads, object.num, object.free, object.total,
         object.exited, object.unclaimed, O1)
  BY <1>1, <1>2, <1>3, <1>4, <1>5, <1>6, <1>7, <1>8, <1>9, SetTcb DEF LifeIs
<1>11. /\ LifeParts(B1, object.running, object.threads, object.num, ToSet(object.free),
            object.unclaimed, O1, pc')
      /\ SameTally(object.running, object.running, object.of, O1, pc, pc')
  BY <1>1, <1>2, <1>3, <1>5, <1>7, <1>8, <1>9, NewParts
<1>12. TallyOK(object.running, O1, pc', object.total, object.exited)
  BY <1>11, SameTotal
<1> QED BY <1>1, <1>2, <1>3, <1>4, <1>5, <1>6, <1>7, <1>8, <1>9, <1>10, <1>11, <1>12, Lifted DEF Lives

LEMMA ReapDeallocInv ==
  ASSUME LifeInv, NEW t \in Threads, ReapDealloc(t)
  PROVE  LifeInv'
<1> DEFINE u == object.of[t]
           b == With(object.tcb[u], [stack |-> FALSE, kernel |-> FALSE])
           B1 == [object.tcb EXCEPT ![u] = b]
<1>1. /\ object \in LifeObject /\ object.tcb \in [Threads -> Tcbs]
      /\ object.running \in SUBSET Threads /\ object.threads \in Seq(Threads \cup {None})
      /\ object.num \in Nat /\ object.free \in Seq(Threads) /\ object.unclaimed \in SUBSET Threads
      /\ LifeParts(object.tcb, object.running, object.threads, object.num, ToSet(object.free),
                   object.unclaimed, object.of, pc)
      /\ IsInjective(object.free)
  BY LifeFacts
<1>2. /\ t \in object.running /\ pc[t] = "reap" /\ Put(pc, pc', t, "withdraw")
      /\ pc' \in [Threads -> LifePlaces] /\ AllAwake /\ UNCHANGED <<call, waking>>
  BY StepFacts DEF ReapDealloc, LifePlaces, Ending
<1>3. u \in Threads /\ object.tcb[u] \in Tcbs
  BY <1>1, <1>2, TargetFacts DEF Idle
<1>4. TcbIs(b, object.tcb[u].state, object.tcb[u].id, FALSE, FALSE)
  BY <1>1, <1>2, <1>3, SetReaped DEF States
<1>5. /\ B1 \in [Threads -> Tcbs] /\ B1[u] = b /\ \A v \in Threads : v # u => B1[v] = object.tcb[v]
      /\ LifeIs(Updated(WithTcb(u, [stack |-> FALSE, kernel |-> FALSE])), B1, object.running,
           object.threads, object.num,
                object.free, object.total, object.exited, object.unclaimed, object.of)
  BY <1>1, <1>2, <1>3, <1>4, WithTcbIs DEF TcbIs
<1>6. object' = Updated(WithTcb(u, [stack |-> FALSE, kernel |-> FALSE]))
  BY <1>1, <1>2, <1>3, <1>4, <1>5 DEF ReapDealloc
<1>7. u = object.of[t]
  OBVIOUS
<1> HIDE DEF u, b, B1
<1>8. LifeIs(object', B1, object.running, object.threads, object.num, object.free, object.total,
        object.exited, object.unclaimed, object.of)
  BY <1>1, <1>2, <1>3, <1>4, <1>5, <1>6, <1>7
<1>9. /\ LifeParts(B1, object.running, object.threads, object.num, ToSet(object.free),
           object.unclaimed, object.of, pc')
      /\ SameTally(object.running, object.running, object.of, object.of, pc, pc')
  BY <1>1, <1>2, <1>3, <1>4, <1>5, <1>6, <1>7, ReapParts DEF TcbIs
<1>10. TallyOK(object.running, object.of, pc', object.total, object.exited)
  BY <1>9, SameTotal
<1> QED BY <1>1, <1>2, <1>3, <1>4, <1>5, <1>6, <1>7, <1>8, <1>9, <1>10, Lifted DEF Lives

LEMMA CreateSetupInv ==
  ASSUME LifeInv, NEW t \in Threads, CreateSetup(t)
  PROVE  LifeInv'
<1> DEFINE u == object.of[t]
<1>1. /\ object \in LifeObject /\ object.tcb \in [Threads -> Tcbs]
      /\ object.running \in SUBSET Threads /\ object.threads \in Seq(Threads \cup {None})
      /\ object.num \in Nat /\ object.free \in Seq(Threads) /\ object.unclaimed \in SUBSET Threads
      /\ LifeParts(object.tcb, object.running, object.threads, object.num, ToSet(object.free),
                   object.unclaimed, object.of, pc)
      /\ IsInjective(object.free)
  BY LifeFacts
<1>2. /\ t \in object.running /\ pc[t] = "setup" /\ Put(pc, pc', t, "count")
      /\ pc' \in [Threads -> LifePlaces] /\ AllAwake /\ UNCHANGED <<call, waking>>
  BY StepFacts DEF CreateSetup, LifePlaces
<1>3. u \in Threads /\ object.tcb[u] \in Tcbs
  BY <1>1, <1>2, TargetFacts DEF Idle
<1>4. PICK s \in {"JOINABLE", "DETACHED"} :
      object' = Updated(WithTcb(u, [state |-> s, stack |-> TRUE, kernel |-> TRUE]))
  BY DEF CreateSetup
<1>5. u = object.of[t]
  OBVIOUS
<1> HIDE DEF u
<1> DEFINE b == With(object.tcb[u], [state |-> s, stack |-> TRUE, kernel |-> TRUE])
           B1 == [object.tcb EXCEPT ![u] = b]
<1>6. TcbIs(b, s, object.tcb[u].id, TRUE, TRUE)
  BY <1>1, <1>2, <1>3, <1>4, <1>5, SetUp DEF States
<1>7. /\ B1 \in [Threads -> Tcbs] /\ B1[u] = b /\ \A v \in Threads : v # u => B1[v] = object.tcb[v]
      /\ LifeIs(Updated(WithTcb(u, [state |-> s, stack |-> TRUE, kernel |-> TRUE])), B1,
           object.running, object.threads, object.num,
                object.free, object.total, object.exited, object.unclaimed, object.of)
  BY <1>1, <1>2, <1>3, <1>4, <1>5, <1>6, WithTcbIs DEF TcbIs
<1> HIDE DEF b, B1
<1>8. /\ B1 \in [Threads -> Tcbs] /\ \A v \in Threads : v # u => B1[v] = object.tcb[v]
      /\ B1[u].id = object.tcb[u].id /\ SetUpFor(B1[u], "count")
  BY <1>1, <1>2, <1>3, <1>4, <1>5, <1>6, <1>7 DEF TcbIs, SetUpFor
<1>9. LifeIs(object', B1, object.running, object.threads, object.num, object.free, object.total,
        object.exited, object.unclaimed, object.of)
  BY <1>1, <1>2, <1>3, <1>4, <1>5, <1>6, <1>7, <1>8
<1>10. /\ LifeParts(B1, object.running, object.threads, object.num, ToSet(object.free),
            object.unclaimed, object.of, pc')
      /\ SameTally(object.running, object.running, object.of, object.of, pc, pc')
  <2>1. LifeParts(object.tcb, object.running, object.threads, object.num, ToSet(object.free),
                  object.unclaimed, object.of, pc)
    BY <1>1
  <2>2. t \in object.running /\ pc[t] = "setup" /\ Put(pc, pc', t, "count")
          /\ pc' \in [Threads -> LifePlaces]
    BY <1>2
  <2> QED BY <2>1, <2>2, <1>5, <1>8, SetupParts
<1>11. TallyOK(object.running, object.of, pc', object.total, object.exited)
  BY <1>10, SameTotal
<1> QED BY <1>1, <1>2, <1>3, <1>4, <1>5, <1>6, <1>7, <1>8, <1>9, <1>10, <1>11, Lifted DEF Lives

LEMMA CreateFailsInv ==
  ASSUME LifeInv, NEW t \in Threads, CreateFails(t)
  PROVE  LifeInv'
<1> DEFINE u == object.of[t]
<1>1. /\ object \in LifeObject /\ object.tcb \in [Threads -> Tcbs]
      /\ object.running \in SUBSET Threads /\ object.threads \in Seq(Threads \cup {None})
      /\ object.num \in Nat /\ object.free \in Seq(Threads) /\ object.unclaimed \in SUBSET Threads
      /\ LifeParts(object.tcb, object.running, object.threads, object.num, ToSet(object.free),
                   object.unclaimed, object.of, pc)
      /\ IsInjective(object.free)
  BY LifeFacts
<1>2. /\ t \in object.running /\ pc[t] = "setup" /\ Put(pc, pc', t, "withdraw")
      /\ pc' \in [Threads -> LifePlaces] /\ AllAwake /\ UNCHANGED <<call, waking>>
  BY StepFacts DEF CreateFails, LifePlaces, Ending
<1>3. u \in Threads /\ object.tcb[u] \in Tcbs
  BY <1>1, <1>2, TargetFacts DEF Idle
<1>4. PICK s \in {"JOINABLE", "DETACHED"} :
      object' = Updated(WithTcb(u, [state |-> s, stack |-> FALSE]))
  BY DEF CreateFails
<1>5. u = object.of[t]
  OBVIOUS
<1> HIDE DEF u
<1> DEFINE b == With(object.tcb[u], [state |-> s, stack |-> FALSE])
           B1 == [object.tcb EXCEPT ![u] = b]
<1>6. TcbIs(b, s, object.tcb[u].id, FALSE, object.tcb[u].kernel)
  BY <1>1, <1>2, <1>3, <1>4, <1>5, SetFailed DEF States
<1>7. /\ B1 \in [Threads -> Tcbs] /\ B1[u] = b /\ \A v \in Threads : v # u => B1[v] = object.tcb[v]
      /\ LifeIs(Updated(WithTcb(u, [state |-> s, stack |-> FALSE])), B1, object.running,
           object.threads, object.num,
                object.free, object.total, object.exited, object.unclaimed, object.of)
  BY <1>1, <1>2, <1>3, <1>4, <1>5, <1>6, WithTcbIs DEF TcbIs
<1> HIDE DEF b, B1
<1>8. /\ B1 \in [Threads -> Tcbs] /\ \A v \in Threads : v # u => B1[v] = object.tcb[v]
      /\ B1[u].id = object.tcb[u].id /\ SetUpFor(B1[u], "withdraw")
  BY <1>1, <1>2, <1>3, <1>4, <1>5, <1>6, <1>7 DEF TcbIs, SetUpFor
<1>9. LifeIs(object', B1, object.running, object.threads, object.num, object.free, object.total,
        object.exited, object.unclaimed, object.of)
  BY <1>1, <1>2, <1>3, <1>4, <1>5, <1>6, <1>7, <1>8
<1>10. /\ LifeParts(B1, object.running, object.threads, object.num, ToSet(object.free),
            object.unclaimed, object.of, pc')
      /\ SameTally(object.running, object.running, object.of, object.of, pc, pc')
  <2>1. LifeParts(object.tcb, object.running, object.threads, object.num, ToSet(object.free),
                  object.unclaimed, object.of, pc)
    BY <1>1
  <2>2. t \in object.running /\ pc[t] = "setup" /\ Put(pc, pc', t, "withdraw")
          /\ pc' \in [Threads -> LifePlaces]
    BY <1>2
  <2> QED BY <2>1, <2>2, <1>5, <1>8, SetupParts
<1>11. TallyOK(object.running, object.of, pc', object.total, object.exited)
  BY <1>10, SameTotal
<1> QED BY <1>1, <1>2, <1>3, <1>4, <1>5, <1>6, <1>7, <1>8, <1>9, <1>10, <1>11, Lifted DEF Lives

LEMMA CreatePublishInv ==
  ASSUME LifeInv, NEW t \in Threads, CreatePublish(t)
  PROVE  LifeInv'
<1> DEFINE u == object.of[t]
           T1 == [object.threads EXCEPT ![object.tcb[u].id] = u]
<1>1. /\ object \in LifeObject /\ object.tcb \in [Threads -> Tcbs]
      /\ object.running \in SUBSET Threads /\ object.threads \in Seq(Threads \cup {None})
      /\ object.num \in Nat /\ object.free \in Seq(Threads) /\ object.unclaimed \in SUBSET Threads
      /\ LifeParts(object.tcb, object.running, object.threads, object.num, ToSet(object.free),
                   object.unclaimed, object.of, pc)
      /\ IsInjective(object.free)
  BY LifeFacts
<1>2. /\ t \in object.running /\ pc[t] = "publish" /\ Put(pc, pc', t, "start")
      /\ pc' \in [Threads -> LifePlaces] /\ AllAwake /\ UNCHANGED <<call, waking>>
  BY StepFacts DEF CreatePublish, LifePlaces
<1>3. u \in Threads /\ BlockFits(object.tcb[u], pc[t])
  BY <1>1, <1>2, TargetFacts DEF Idle
<1>4. object.tcb[u].id # 0
  BY <1>1, <1>2, <1>3 DEF BlockFits
<1>5. u = object.of[t]
  OBVIOUS
<1>6. /\ T1 \in Seq(Threads \cup {None}) /\ Replaced(object.threads, T1, object.tcb[u].id, u)
  BY <1>3, <1>4, EntryIs
<1>7. LifeIs(Updated(Entry(object.tcb[u].id, u)), object.tcb, object.running, T1, object.num,
             object.free, object.total, object.exited, object.unclaimed, object.of)
  BY <1>3, <1>4, EntryIs
<1>8. object' = Updated(Entry(object.tcb[u].id, u))
  BY DEF CreatePublish, Target
<1> HIDE DEF u, T1
<1>9. LifeIs(object', object.tcb, object.running, T1, object.num, object.free, object.total,
        object.exited, object.unclaimed, object.of)
  BY <1>7, <1>8
<1>10. /\ LifeParts(object.tcb, object.running, T1, object.num, ToSet(object.free), object.unclaimed,
            object.of, pc')
      /\ SameTally(object.running, object.running, object.of, object.of, pc, pc')
  <2>1. LifeParts(object.tcb, object.running, object.threads, object.num, ToSet(object.free),
                  object.unclaimed, object.of, pc)
    BY <1>1
  <2>2. t \in object.running /\ pc[t] = "publish" /\ Put(pc, pc', t, "start")
          /\ pc' \in [Threads -> LifePlaces]
    BY <1>2
  <2> QED BY <2>1, <2>2, <1>5, <1>6, EntryParts
<1>11. TallyOK(object.running, object.of, pc', object.total, object.exited)
  BY <1>10, SameTotal
<1> QED BY <1>1, <1>2, <1>3, <1>4, <1>5, <1>6, <1>7, <1>8, <1>9, <1>10, <1>11, Lifted DEF Lives

LEMMA DeallocWithdrawInv ==
  ASSUME LifeInv, NEW t \in Threads, DeallocWithdraw(t)
  PROVE  LifeInv'
<1> DEFINE u == object.of[t]
           T1 == [object.threads EXCEPT ![object.tcb[u].id] = None]
<1>1. /\ object \in LifeObject /\ object.tcb \in [Threads -> Tcbs]
      /\ object.running \in SUBSET Threads /\ object.threads \in Seq(Threads \cup {None})
      /\ object.num \in Nat /\ object.free \in Seq(Threads) /\ object.unclaimed \in SUBSET Threads
      /\ LifeParts(object.tcb, object.running, object.threads, object.num, ToSet(object.free),
                   object.unclaimed, object.of, pc)
      /\ IsInjective(object.free)
  BY LifeFacts
<1>2. /\ t \in object.running /\ pc[t] = "withdraw" /\ Put(pc, pc', t, "free")
      /\ pc' \in [Threads -> LifePlaces] /\ AllAwake /\ UNCHANGED <<call, waking>>
  BY StepFacts DEF DeallocWithdraw, LifePlaces, Ending
<1>3. u \in Threads /\ BlockFits(object.tcb[u], pc[t])
  BY <1>1, <1>2, TargetFacts DEF Idle
<1>4. object.tcb[u].id # 0
  BY <1>1, <1>2, <1>3 DEF BlockFits
<1>5. u = object.of[t]
  OBVIOUS
<1>6. /\ T1 \in Seq(Threads \cup {None}) /\ Replaced(object.threads, T1, object.tcb[u].id, None)
  BY <1>3, <1>4, EntryIs
<1>7. LifeIs(Updated(Entry(object.tcb[u].id, None)), object.tcb, object.running, T1, object.num,
             object.free, object.total, object.exited, object.unclaimed, object.of)
  BY <1>3, <1>4, EntryIs
<1>8. object' = Updated(Entry(object.tcb[u].id, None))
  BY DEF DeallocWithdraw, Target
<1> HIDE DEF u, T1
<1>9. LifeIs(object', object.tcb, object.running, T1, object.num, object.free, object.total,
        object.exited, object.unclaimed, object.of)
  BY <1>7, <1>8
<1>10. /\ LifeParts(object.tcb, object.running, T1, object.num, ToSet(object.free), object.unclaimed,
            object.of, pc')
      /\ SameTally(object.running, object.running, object.of, object.of, pc, pc')
  <2>1. LifeParts(object.tcb, object.running, object.threads, object.num, ToSet(object.free),
                  object.unclaimed, object.of, pc)
    BY <1>1
  <2>2. t \in object.running /\ pc[t] = "withdraw" /\ Put(pc, pc', t, "free")
          /\ pc' \in [Threads -> LifePlaces]
    BY <1>2
  <2> QED BY <2>1, <2>2, <1>5, <1>6, EntryParts
<1>11. TallyOK(object.running, object.of, pc', object.total, object.exited)
  BY <1>10, SameTotal
<1> QED BY <1>1, <1>2, <1>3, <1>4, <1>5, <1>6, <1>7, <1>8, <1>9, <1>10, <1>11, Lifted DEF Lives

LEMMA ExitDetachedInv ==
  ASSUME LifeInv, NEW t \in Threads, ExitDetached(t)
  PROVE  LifeInv'
<1> DEFINE O1 == [object.of EXCEPT ![t] = t]
<1>1. /\ object \in LifeObject /\ object.tcb \in [Threads -> Tcbs]
      /\ object.running \in SUBSET Threads /\ object.threads \in Seq(Threads \cup {None})
      /\ object.num \in Nat /\ object.free \in Seq(Threads) /\ object.unclaimed \in SUBSET Threads
      /\ LifeParts(object.tcb, object.running, object.threads, object.num, ToSet(object.free),
                   object.unclaimed, object.of, pc)
      /\ IsInjective(object.free)
  BY LifeFacts
<1>2. /\ t \in object.running /\ pc[t] = "exit" /\ Put(pc, pc', t, "withdraw")
      /\ pc' \in [Threads -> LifePlaces] /\ AllAwake /\ UNCHANGED <<call, waking>>
  BY StepFacts DEF ExitDetached, LifePlaces, Ending
<1>3. /\ O1 \in [Threads -> Threads \cup {None}] /\ Put(object.of, O1, t, t)
      /\ LifeIs(Updated(WorkOn(t, t)), object.tcb, object.running, object.threads, object.num,
                object.free, object.total, object.exited, object.unclaimed, O1)
  BY <1>1, <1>2, WorkOnIs
<1>4. object' = Updated(WorkOn(t, t)) /\ object.tcb[t].state = "DETACHED"
  BY DEF ExitDetached
<1> HIDE DEF O1
<1>5. LifeIs(object', object.tcb, object.running, object.threads, object.num, object.free,
        object.total, object.exited, object.unclaimed, O1)
  BY <1>3, <1>4
<1>6. /\ LifeParts(object.tcb, object.running, object.threads, object.num, ToSet(object.free),
           object.unclaimed, O1, pc')
      /\ SameTally(object.running, object.running, object.of, O1, pc, pc')
  <2>1. LifeParts(object.tcb, object.running, object.threads, object.num, ToSet(object.free),
                  object.unclaimed, object.of, pc)
    BY <1>1
  <2>2. t \in object.running /\ pc[t] = "exit" /\ Put(pc, pc', t, "withdraw")
          /\ pc' \in [Threads -> LifePlaces]
    BY <1>2
  <2> QED BY <2>1, <2>2, <1>3, <1>4, ExitDetachedParts
<1>7. TallyOK(object.running, O1, pc', object.total, object.exited)
  BY <1>6, SameTotal
<1> QED BY <1>1, <1>2, <1>3, <1>4, <1>5, <1>6, <1>7, Lifted DEF Lives

LEMMA ExitJoinableInv ==
  ASSUME LifeInv, NEW t \in Threads, ExitJoinable(t)
  PROVE  LifeInv'
<1> DEFINE b == With(object.tcb[t], [state |-> "EXITED"])
           B1 == [object.tcb EXCEPT ![t] = b]
<1>1. /\ object \in LifeObject /\ object.tcb \in [Threads -> Tcbs]
      /\ object.running \in SUBSET Threads /\ object.threads \in Seq(Threads \cup {None})
      /\ object.num \in Nat /\ object.free \in Seq(Threads) /\ object.unclaimed \in SUBSET Threads
      /\ LifeParts(object.tcb, object.running, object.threads, object.num, ToSet(object.free),
                   object.unclaimed, object.of, pc)
      /\ IsInjective(object.free)
  BY LifeFacts
<1>2. /\ t \in object.running /\ pc[t] = "exit" /\ Put(pc, pc', t, "halt")
      /\ pc' \in [Threads -> LifePlaces] /\ AllAwake /\ UNCHANGED <<call, waking>>
  BY StepFacts DEF ExitJoinable, LifePlaces, Idle
<1>3. object.tcb[t] \in Tcbs /\ object.tcb[t].state = "JOINABLE"
  BY <1>1, <1>2 DEF ExitJoinable
<1>4. TcbIs(b, "EXITED", object.tcb[t].id, object.tcb[t].stack, object.tcb[t].kernel)
  BY <1>1, <1>2, <1>3, SetState DEF States
<1>5. /\ B1 \in [Threads -> Tcbs] /\ B1[t] = b /\ \A v \in Threads : v # t => B1[v] = object.tcb[v]
      /\ LifeIs(Updated(WithTcb(t, [state |-> "EXITED"])), B1, object.running, object.threads, object.num,
                object.free, object.total, object.exited, object.unclaimed, object.of)
  BY <1>1, <1>2, <1>3, <1>4, WithTcbIs DEF TcbIs
<1>6. object' = Updated(WithTcb(t, [state |-> "EXITED"]))
  BY DEF ExitJoinable
<1> HIDE DEF b, B1
<1>7. /\ B1 \in [Threads -> Tcbs] /\ \A v \in Threads : v # t => B1[v] = object.tcb[v]
      /\ B1[t].state = "EXITED" /\ B1[t].id = object.tcb[t].id
      /\ B1[t].stack = object.tcb[t].stack /\ B1[t].kernel = object.tcb[t].kernel
  BY <1>4, <1>5 DEF TcbIs
<1>8. LifeIs(object', B1, object.running, object.threads, object.num, object.free, object.total,
        object.exited, object.unclaimed, object.of)
  BY <1>5, <1>6
<1>9. /\ LifeParts(B1, object.running, object.threads, object.num, ToSet(object.free),
           object.unclaimed, object.of, pc')
      /\ SameTally(object.running, object.running, object.of, object.of, pc, pc')
  <2>1. LifeParts(object.tcb, object.running, object.threads, object.num, ToSet(object.free),
                  object.unclaimed, object.of, pc)
    BY <1>1
  <2>2. t \in object.running /\ pc[t] = "exit" /\ Put(pc, pc', t, "halt")
          /\ pc' \in [Threads -> LifePlaces]
    BY <1>2
  <2> QED BY <2>1, <2>2, <1>3, <1>7, ExitJoinableParts
<1>10. TallyOK(object.running, object.of, pc', object.total, object.exited)
  BY <1>9, SameTotal
<1> QED BY <1>1, <1>2, <1>3, <1>4, <1>5, <1>6, <1>7, <1>8, <1>9, <1>10, Lifted DEF Lives

LEMMA ExitHaltInv ==
  ASSUME LifeInv, NEW t \in Threads, ExitHalt(t)
  PROVE  LifeInv'
<1> DEFINE R1 == object.running \ {t}
<1>1. /\ object \in LifeObject /\ object.tcb \in [Threads -> Tcbs]
      /\ object.running \in SUBSET Threads /\ object.threads \in Seq(Threads \cup {None})
      /\ object.num \in Nat /\ object.free \in Seq(Threads) /\ object.unclaimed \in SUBSET Threads
      /\ LifeParts(object.tcb, object.running, object.threads, object.num, ToSet(object.free),
                   object.unclaimed, object.of, pc)
      /\ IsInjective(object.free)
  BY LifeFacts
<1>2. /\ t \in object.running /\ pc[t] = "halt" /\ Put(pc, pc', t, "halted")
      /\ pc' \in [Threads -> LifePlaces] /\ AllAwake /\ UNCHANGED <<call, waking>>
  BY StepFacts DEF ExitHalt, LifePlaces, Idle
<1>3. object' = With(object, [running |-> R1]) /\ R1 \in SUBSET Threads
  BY <1>1, <1>2 DEF ExitHalt, Updated, Stopped
<1>4. LifeIs(object', object.tcb, R1, object.threads, object.num, object.free, object.total,
        object.exited, object.unclaimed, object.of)
  BY <1>1, <1>3, SetRunning
<1>5. /\ LifeParts(object.tcb, R1, object.threads, object.num, ToSet(object.free), object.unclaimed,
           object.of, pc')
      /\ SameTally(object.running, R1, object.of, object.of, pc, pc')
  <2>1. LifeParts(object.tcb, object.running, object.threads, object.num, ToSet(object.free),
                  object.unclaimed, object.of, pc)
    BY <1>1
  <2>2. t \in object.running /\ pc[t] = "halt" /\ Put(pc, pc', t, "halted")
          /\ pc' \in [Threads -> LifePlaces]
    BY <1>2
  <2> QED BY <2>1, <2>2, <1>3, HaltParts
<1>6. TallyOK(R1, object.of, pc', object.total, object.exited)
  BY <1>5, SameTotal
<1> QED BY <1>1, <1>2, <1>3, <1>4, <1>5, <1>6, Lifted DEF Lives

LEMMA ReapHaltInv ==
  ASSUME LifeInv, NEW t \in Threads, ReapHalt(t)
  PROVE  LifeInv'
<1> DEFINE R1 == object.running \ {object.of[t]}
<1>1. /\ object \in LifeObject /\ object.tcb \in [Threads -> Tcbs]
      /\ object.running \in SUBSET Threads /\ object.threads \in Seq(Threads \cup {None})
      /\ object.num \in Nat /\ object.free \in Seq(Threads) /\ object.unclaimed \in SUBSET Threads
      /\ LifeParts(object.tcb, object.running, object.threads, object.num, ToSet(object.free),
                   object.unclaimed, object.of, pc)
      /\ IsInjective(object.free)
  BY LifeFacts
<1>2. /\ t \in object.running /\ pc[t] = "halt old" /\ Put(pc, pc', t, "reap")
      /\ pc' \in [Threads -> LifePlaces] /\ AllAwake /\ UNCHANGED <<call, waking>>
  BY StepFacts DEF ReapHalt, LifePlaces
<1>3. object' = With(object, [running |-> R1]) /\ R1 \in SUBSET Threads
  BY <1>1, <1>2 DEF ReapHalt, Updated, Stopped
<1>4. LifeIs(object', object.tcb, R1, object.threads, object.num, object.free, object.total,
        object.exited, object.unclaimed, object.of)
  BY <1>1, <1>3, SetRunning
<1>5. /\ LifeParts(object.tcb, R1, object.threads, object.num, ToSet(object.free), object.unclaimed,
           object.of, pc')
      /\ SameTally(object.running, R1, object.of, object.of, pc, pc')
  <2>1. LifeParts(object.tcb, object.running, object.threads, object.num, ToSet(object.free),
                  object.unclaimed, object.of, pc)
    BY <1>1
  <2>2. t \in object.running /\ pc[t] = "halt old" /\ Put(pc, pc', t, "reap")
          /\ pc' \in [Threads -> LifePlaces]
    BY <1>2
  <2> QED BY <2>1, <2>2, <1>3, StopParts
<1>6. TallyOK(R1, object.of, pc', object.total, object.exited)
  BY <1>5, SameTotal
<1> QED BY <1>1, <1>2, <1>3, <1>4, <1>5, <1>6, Lifted DEF Lives

LEMMA DeallocFreeInv ==
  ASSUME LifeInv, NEW t \in Threads, DeallocFree(t)
  PROVE  LifeInv'
<1> DEFINE u == object.of[t]
           F1 == Enqueue(object.free, u)
<1>1. /\ object \in LifeObject /\ object.tcb \in [Threads -> Tcbs]
      /\ object.running \in SUBSET Threads /\ object.threads \in Seq(Threads \cup {None})
      /\ object.num \in Nat /\ object.free \in Seq(Threads) /\ object.unclaimed \in SUBSET Threads
      /\ LifeParts(object.tcb, object.running, object.threads, object.num, ToSet(object.free),
                   object.unclaimed, object.of, pc)
      /\ IsInjective(object.free)
  BY LifeFacts
<1>2. /\ t \in object.running /\ pc[t] = "free" /\ Put(pc, pc', t, "terminate")
      /\ pc' \in [Threads -> LifePlaces] /\ AllAwake /\ UNCHANGED <<call, waking>>
  BY StepFacts DEF DeallocFree, LifePlaces, Ending
<1>3. u \in Threads /\ u \notin ToSet(object.free)
  <2>1. u \in Threads /\ ClaimFits(object.running, ToSet(object.free), object.unclaimed, t, u, pc[t])
    BY <1>1, <1>2, TargetFacts DEF Idle
  <2> QED BY <1>2, <2>1 DEF ClaimFits
<1>4. F1 \in Seq(Threads) /\ IsInjective(F1) /\ ToSet(F1) = ToSet(object.free) \cup {u}
  BY <1>1, <1>2, <1>3, Prepending
<1>5. object' = With(object, [free |-> F1])
  BY DEF DeallocFree, Updated
<1>6. u = object.of[t]
  OBVIOUS
<1> HIDE DEF u, F1
<1>7. LifeIs(object', object.tcb, object.running, object.threads, object.num, F1, object.total,
        object.exited, object.unclaimed, object.of)
  BY <1>1, <1>4, <1>5, SetFree
<1>8. /\ LifeParts(object.tcb, object.running, object.threads, object.num, ToSet(F1), object.unclaimed,
           object.of, pc')
      /\ SameTally(object.running, object.running, object.of, object.of, pc, pc')
  <2>1. LifeParts(object.tcb, object.running, object.threads, object.num, ToSet(object.free),
                  object.unclaimed, object.of, pc)
    BY <1>1
  <2>2. t \in object.running /\ pc[t] = "free" /\ Put(pc, pc', t, "terminate")
          /\ pc' \in [Threads -> LifePlaces]
    BY <1>2
  <2>3. /\ LifeParts(object.tcb, object.running, object.threads, object.num, ToSet(object.free) \cup {u},
                     object.unclaimed, object.of, pc')
        /\ SameTally(object.running, object.running, object.of, object.of, pc, pc')
    BY <2>1, <2>2, <1>6, FreeParts
  <2> QED BY <2>3, <1>4
<1>9. TallyOK(object.running, object.of, pc', object.total, object.exited)
  BY <1>8, SameTotal
<1> QED BY <1>1, <1>2, <1>3, <1>4, <1>5, <1>6, <1>7, <1>8, <1>9, Lifted DEF Lives

LEMMA DeallocTerminateInv ==
  ASSUME LifeInv, NEW t \in Threads, DeallocTerminate(t)
  PROVE  LifeInv'
<1> DEFINE u == object.of[t]
           b == With(object.tcb[u], [state |-> "TERMINATED"])
           B1 == [object.tcb EXCEPT ![u] = b]
           O1 == [object.of EXCEPT ![t] = None]
<1>1. /\ object \in LifeObject /\ object.tcb \in [Threads -> Tcbs]
      /\ object.running \in SUBSET Threads /\ object.threads \in Seq(Threads \cup {None})
      /\ object.num \in Nat /\ object.free \in Seq(Threads) /\ object.unclaimed \in SUBSET Threads
      /\ LifeParts(object.tcb, object.running, object.threads, object.num, ToSet(object.free),
                   object.unclaimed, object.of, pc)
      /\ IsInjective(object.free)
  BY LifeFacts
<1>2. /\ t \in object.running /\ pc[t] = "terminate"
           /\ Put(pc, pc', t, (IF object.of[t] = t THEN "halt" ELSE "run"))
      /\ pc' \in [Threads -> LifePlaces] /\ AllAwake /\ UNCHANGED <<call, waking>>
  BY StepFacts DEF DeallocTerminate, LifePlaces, Idle
<1>3. u \in Threads /\ object.tcb[u] \in Tcbs
  BY <1>1, <1>2, TargetFacts DEF Idle
<1>4. TcbIs(b, "TERMINATED", object.tcb[u].id, object.tcb[u].stack, object.tcb[u].kernel)
  BY <1>3, SetState DEF States
<1>5. /\ B1 \in [Threads -> Tcbs] /\ B1[u] = b /\ \A v \in Threads : v # u => B1[v] = object.tcb[v]
      /\ WithTcb(u, [state |-> "TERMINATED"]) = [tcb |-> B1]
  BY <1>1, <1>3, <1>4, WithTcbIs DEF TcbIs
<1>6. /\ O1 \in [Threads -> Threads \cup {None}] /\ Put(object.of, O1, t, None)
      /\ LifeIs(Updated(WorkOn(t, None)), object.tcb, object.running, object.threads, object.num,
                object.free, object.total, object.exited, object.unclaimed, O1)
  BY <1>1, WorkOnIs
<1>7. object' = With(Updated(WorkOn(t, None)), WithTcb(u, [state |-> "TERMINATED"]))
  BY DEF DeallocTerminate
<1>8. u = object.of[t]
  OBVIOUS
<1> HIDE DEF u, b, B1, O1
<1>9. /\ B1 \in [Threads -> Tcbs] /\ \A v \in Threads : v # u => B1[v] = object.tcb[v]
      /\ B1[u].state = "TERMINATED" /\ B1[u].id = object.tcb[u].id
      /\ B1[u].stack = object.tcb[u].stack /\ B1[u].kernel = object.tcb[u].kernel
  BY <1>4, <1>5 DEF TcbIs
<1>10. LifeIs(object', B1, object.running, object.threads, object.num, object.free, object.total,
         object.exited, object.unclaimed, O1)
  BY <1>5, <1>6, <1>7, SetTcb DEF LifeIs
<1>11. /\ LifeParts(B1, object.running, object.threads, object.num, ToSet(object.free),
            object.unclaimed, O1, pc')
      /\ SameTally(object.running, object.running, object.of, O1, pc, pc')
  <2>1. LifeParts(object.tcb, object.running, object.threads, object.num, ToSet(object.free),
                  object.unclaimed, object.of, pc)
    BY <1>1
  <2> DEFINE p == IF u = t THEN "halt" ELSE "run"
  <2>2. t \in object.running /\ pc[t] = "terminate" /\ Put(pc, pc', t, p)
          /\ pc' \in [Threads -> LifePlaces]
    BY <1>2, <1>8
  <2>3. p = IF u = t THEN "halt" ELSE "run"
    OBVIOUS
  <2> HIDE DEF p
  <2>4. O1 \in [Threads -> Threads \cup {None}] /\ Put(object.of, O1, t, None)
    BY <1>6
  <2> QED BY <2>1, <2>2, <2>3, <2>4, <1>8, <1>9, TerminateParts
<1>12. TallyOK(object.running, O1, pc', object.total, object.exited)
  BY <1>11, SameTotal
<1> QED BY <1>1, <1>2, <1>3, <1>4, <1>5, <1>6, <1>7, <1>8, <1>9, <1>10, <1>11, <1>12, Lifted DEF Lives

LEMMA JoinInv ==
  ASSUME LifeInv, NEW t \in Threads, Join(t)
  PROVE  LifeInv'
<1>1. /\ object \in LifeObject /\ object.tcb \in [Threads -> Tcbs]
      /\ object.running \in SUBSET Threads /\ object.threads \in Seq(Threads \cup {None})
      /\ object.num \in Nat /\ object.free \in Seq(Threads) /\ object.unclaimed \in SUBSET Threads
      /\ LifeParts(object.tcb, object.running, object.threads, object.num, ToSet(object.free),
                   object.unclaimed, object.of, pc)
      /\ IsInjective(object.free)
  BY LifeFacts
<1>2. /\ t \in object.running /\ pc[t] = "run" /\ Put(pc, pc', t, "join")
      /\ pc' \in [Threads -> LifePlaces] /\ AllAwake /\ UNCHANGED <<call, waking>>
  BY StepFacts DEF Join, LifePlaces
<1>3. PICK u \in object.unclaimed \ {t} :
      object' = With(Updated(WorkOn(t, u)), [unclaimed |-> object.unclaimed \ {u}])
  BY DEF Join
<1> DEFINE U1 == object.unclaimed \ {u}
           O1 == [object.of EXCEPT ![t] = u]
<1>4. u \in Threads /\ U1 \in SUBSET Threads
  BY <1>1, <1>2, <1>3
<1>5. /\ O1 \in [Threads -> Threads \cup {None}] /\ Put(object.of, O1, t, u)
      /\ LifeIs(Updated(WorkOn(t, u)), object.tcb, object.running, object.threads, object.num,
                object.free, object.total, object.exited, object.unclaimed, O1)
  BY <1>1, <1>4, WorkOnIs
<1> HIDE DEF O1
<1>6. LifeIs(object', object.tcb, object.running, object.threads, object.num, object.free,
        object.total, object.exited, U1, O1)
  <2> HIDE DEF U1
  <2> QED BY <1>3, <1>4, <1>5, SetUnclaimed DEF LifeIs, U1
<1>7. /\ LifeParts(object.tcb, object.running, object.threads, object.num, ToSet(object.free), U1, O1,
           pc')
      /\ SameTally(object.running, object.running, object.of, O1, pc, pc')
  <2>1. LifeParts(object.tcb, object.running, object.threads, object.num, ToSet(object.free),
                  object.unclaimed, object.of, pc)
    BY <1>1
  <2>2. t \in object.running /\ pc[t] = "run" /\ Put(pc, pc', t, "join")
          /\ pc' \in [Threads -> LifePlaces]
    BY <1>2
  <2>3. u \in object.unclaimed /\ MayClaim(object.tcb[u], u, t, "join")
    BY <1>3 DEF MayClaim
  <2>4. O1 \in [Threads -> Threads \cup {None}] /\ Put(object.of, O1, t, u)
    BY <1>5
  <2> QED BY <2>1, <2>2, <2>3, <2>4, JoinParts
<1>8. TallyOK(object.running, O1, pc', object.total, object.exited)
  BY <1>7, SameTotal
<1> QED BY <1>1, <1>2, <1>3, <1>4, <1>5, <1>6, <1>7, <1>8, Lifted DEF Lives

LEMMA DetachExitedInv ==
  ASSUME LifeInv, NEW t \in Threads, DetachExited(t)
  PROVE  LifeInv'
<1>1. /\ object \in LifeObject /\ object.tcb \in [Threads -> Tcbs]
      /\ object.running \in SUBSET Threads /\ object.threads \in Seq(Threads \cup {None})
      /\ object.num \in Nat /\ object.free \in Seq(Threads) /\ object.unclaimed \in SUBSET Threads
      /\ LifeParts(object.tcb, object.running, object.threads, object.num, ToSet(object.free),
                   object.unclaimed, object.of, pc)
      /\ IsInjective(object.free)
  BY LifeFacts
<1>2. /\ t \in object.running /\ pc[t] = "run" /\ Put(pc, pc', t, "halt old")
      /\ pc' \in [Threads -> LifePlaces] /\ AllAwake /\ UNCHANGED <<call, waking>>
  BY StepFacts DEF DetachExited, LifePlaces
<1>3. PICK u \in object.unclaimed :
      object.tcb[u].state = "EXITED" /\ object' = With(Updated(WorkOn(t, u)),
        [unclaimed |-> object.unclaimed \ {u}])
  BY DEF DetachExited
<1> DEFINE U1 == object.unclaimed \ {u}
           O1 == [object.of EXCEPT ![t] = u]
<1>4. u \in Threads /\ U1 \in SUBSET Threads
  BY <1>1, <1>2, <1>3
<1>5. /\ O1 \in [Threads -> Threads \cup {None}] /\ Put(object.of, O1, t, u)
      /\ LifeIs(Updated(WorkOn(t, u)), object.tcb, object.running, object.threads, object.num,
                object.free, object.total, object.exited, object.unclaimed, O1)
  BY <1>1, <1>4, WorkOnIs
<1> HIDE DEF O1
<1>6. LifeIs(object', object.tcb, object.running, object.threads, object.num, object.free,
        object.total, object.exited, U1, O1)
  <2> HIDE DEF U1
  <2> QED BY <1>3, <1>4, <1>5, SetUnclaimed DEF LifeIs, U1
<1>7. /\ LifeParts(object.tcb, object.running, object.threads, object.num, ToSet(object.free), U1, O1,
           pc')
      /\ SameTally(object.running, object.running, object.of, O1, pc, pc')
  <2>1. LifeParts(object.tcb, object.running, object.threads, object.num, ToSet(object.free),
                  object.unclaimed, object.of, pc)
    BY <1>1
  <2>2. t \in object.running /\ pc[t] = "run" /\ Put(pc, pc', t, "halt old")
          /\ pc' \in [Threads -> LifePlaces]
    BY <1>2
  <2>3. u \in object.unclaimed /\ MayClaim(object.tcb[u], u, t, "halt old")
    BY <1>3 DEF MayClaim
  <2>4. O1 \in [Threads -> Threads \cup {None}] /\ Put(object.of, O1, t, u)
    BY <1>5
  <2> QED BY <2>1, <2>2, <2>3, <2>4, JoinParts
<1>8. TallyOK(object.running, O1, pc', object.total, object.exited)
  BY <1>7, SameTotal
<1> QED BY <1>1, <1>2, <1>3, <1>4, <1>5, <1>6, <1>7, <1>8, Lifted DEF Lives

LEMMA DetachJoinableInv ==
  ASSUME LifeInv, NEW t \in Threads, DetachJoinable(t)
  PROVE  LifeInv'
<1>1. /\ object \in LifeObject /\ object.tcb \in [Threads -> Tcbs]
      /\ object.running \in SUBSET Threads /\ object.threads \in Seq(Threads \cup {None})
      /\ object.num \in Nat /\ object.free \in Seq(Threads) /\ object.unclaimed \in SUBSET Threads
      /\ LifeParts(object.tcb, object.running, object.threads, object.num, ToSet(object.free),
                   object.unclaimed, object.of, pc)
      /\ IsInjective(object.free)
  BY LifeFacts
<1>2. /\ t \in object.running /\ pc[t] = "run" /\ Put(pc, pc', t, "run")
      /\ pc' \in [Threads -> LifePlaces] /\ AllAwake /\ UNCHANGED <<call, waking>>
  BY StepFacts DEF DetachJoinable, LifePlaces, Idle
<1>3. PICK u \in object.unclaimed :
      /\ object.tcb[u].state = "JOINABLE"
      /\ object' = With(Updated(WithTcb(u, [state |-> "DETACHED"])),
           [unclaimed |-> object.unclaimed \ {u}])
  BY DEF DetachJoinable
<1> DEFINE U1 == object.unclaimed \ {u}
           b == With(object.tcb[u], [state |-> "DETACHED"])
           B1 == [object.tcb EXCEPT ![u] = b]
<1>4. u \in Threads /\ U1 \in SUBSET Threads /\ object.tcb[u] \in Tcbs
  BY <1>1
<1>5. TcbIs(b, "DETACHED", object.tcb[u].id, object.tcb[u].stack, object.tcb[u].kernel)
  BY <1>4, SetState DEF States
<1>6. /\ B1 \in [Threads -> Tcbs] /\ B1[u] = b /\ \A v \in Threads : v # u => B1[v] = object.tcb[v]
      /\ LifeIs(Updated(WithTcb(u, [state |-> "DETACHED"])), B1, object.running, object.threads,
           object.num,
                object.free, object.total, object.exited, object.unclaimed, object.of)
  BY <1>1, <1>4, <1>5, WithTcbIs DEF TcbIs
<1> HIDE DEF b, B1
<1>7. /\ B1 \in [Threads -> Tcbs] /\ \A v \in Threads : v # u => B1[v] = object.tcb[v]
      /\ B1[u].state = "DETACHED" /\ B1[u].id = object.tcb[u].id
      /\ B1[u].stack = object.tcb[u].stack /\ B1[u].kernel = object.tcb[u].kernel
  BY <1>5, <1>6 DEF TcbIs
<1>8. pc' = pc
  BY <1>2, LifeFacts DEF Put
<1>9. LifeIs(object', B1, object.running, object.threads, object.num, object.free, object.total,
        object.exited, U1, object.of)
  <2> HIDE DEF U1
  <2> QED BY <1>3, <1>4, <1>6, SetUnclaimed DEF LifeIs, U1
<1>10. /\ LifeParts(B1, object.running, object.threads, object.num, ToSet(object.free), U1, object.of,
            pc')
      /\ SameTally(object.running, object.running, object.of, object.of, pc, pc')
  <2>1. LifeParts(object.tcb, object.running, object.threads, object.num, ToSet(object.free),
                  object.unclaimed, object.of, pc)
    BY <1>1
  <2>2. t \in object.running /\ pc[t] = "run" /\ u \in object.unclaimed
          /\ object.tcb[u].state = "JOINABLE"
    BY <1>2, <1>3
  <2>3. /\ LifeParts(B1, object.running, object.threads, object.num, ToSet(object.free), U1, object.of,
             pc)
        /\ SameTally(object.running, object.running, object.of, object.of, pc, pc)
    BY <2>1, <2>2, <1>7, DetachParts
  <2> QED BY <2>3, <1>8
<1>11. TallyOK(object.running, object.of, pc', object.total, object.exited)
  BY <1>10, SameTotal
<1> QED BY <1>1, <1>2, <1>3, <1>4, <1>5, <1>6, <1>7, <1>8, <1>9, <1>10, <1>11, Lifted DEF Lives

LEMMA JoinExitedInv ==
  ASSUME LifeInv, NEW t \in Threads, JoinExited(t)
  PROVE  LifeInv'
<1>1. object \in LifeObject /\ IsInjective(object.free)
  BY LifeFacts
<1>2. LifeParts(object.tcb, object.running, object.threads, object.num, ToSet(object.free),
                object.unclaimed, object.of, pc)
  BY LifeFacts
<1>3. /\ t \in object.running /\ pc[t] = "join" /\ Put(pc, pc', t, "halt old")
      /\ pc' \in [Threads -> LifePlaces]
  BY StepFacts DEF JoinExited, LifePlaces
<1>4. AllAwake /\ UNCHANGED <<call, waking>>
  BY StepFacts DEF JoinExited, LifePlaces
<1>5. object' = object /\ object.tcb[object.of[t]].state = "EXITED"
  BY DEF JoinExited, Target
<1>6. LifeParts(object.tcb, object.running, object.threads, object.num, ToSet(object.free),
                object.unclaimed, object.of, pc')
  BY <1>2, <1>3, <1>5, MoveParts
<1>7. object.of[t] # t
  <2>1. ClaimFits(object.running, ToSet(object.free), object.unclaimed, t, object.of[t], pc[t])
    BY <1>3, TargetFacts DEF Idle
  <2> QED BY <1>3, <2>1 DEF ClaimFits, Ending
<1>8. TallyKept(object.running, object.running, object.of, object.of, pc, pc')
  <2>1. object.running \subseteq Threads
    BY LifeFacts
  <2>2. ASSUME NEW v \in Threads
        PROVE  /\ Alive(object.running, object.of, pc', v) <=> Alive(object.running, object.of, pc, v)
               /\ Making(object.running, pc', v) <=> Making(object.running, pc, v)
    <3>1. CASE v = t
      BY <1>3, <1>7, <3>1 DEF Alive, Making, Put
    <3>2. CASE v # t
      BY <1>3, <3>2 DEF Alive, Making, Put
    <3> QED BY <3>1, <3>2
  <2> QED BY <2>1, <2>2 DEF TallyKept
<1>9. TallyOK(object.running, object.of, pc', object.total, object.exited)
  BY <1>8, TallyStep, SameTotal
<1>10. LifeIs(object', object.tcb, object.running, object.threads, object.num, object.free,
              object.total, object.exited, object.unclaimed, object.of)
  BY <1>1, <1>5 DEF LifeIs
<1> QED BY <1>1, <1>4, <1>6, <1>9, <1>10, Lifted DEF Lives

LEMMA CreateStartInv ==
  ASSUME LifeInv, NEW t \in Threads, CreateStart(t)
  PROVE  LifeInv'
<1> DEFINE u == object.of[t]
           R1 == object.running \cup {u}
           U1 == IF Target(t).state = "JOINABLE" THEN object.unclaimed \cup {u} ELSE object.unclaimed
           O1 == [object.of EXCEPT ![t] = None]
<1>1. /\ object \in LifeObject /\ object.running \in SUBSET Threads /\ object.unclaimed \in SUBSET Threads
      /\ IsInjective(object.free) /\ pc \in [Threads -> LifePlaces] /\ AllAwake
  BY LifeFacts
<1>2. LifeParts(object.tcb, object.running, object.threads, object.num, ToSet(object.free),
                object.unclaimed, object.of, pc)
  BY LifeFacts
<1>3. t \in object.running /\ pc[t] = "start" /\ UNCHANGED <<call, waking>>
  BY DEF CreateStart
<1>4. u \in Threads
  BY <1>3, TargetFacts DEF Idle
<1>5. pc' = [pc EXCEPT ![t] = "run", ![u] = "run"]
  BY DEF CreateStart
<1>6. /\ pc' \in [Threads -> LifePlaces] /\ pc'[t] = "run" /\ pc'[u] = "run"
      /\ \A v \in Threads : v # t /\ v # u => pc'[v] = pc[v]
  BY <1>1, <1>4, <1>5 DEF LifePlaces, Idle
<1>7. /\ O1 \in [Threads -> Threads \cup {None}] /\ Put(object.of, O1, t, None)
      /\ LifeIs(Updated(WorkOn(t, None)), object.tcb, object.running, object.threads, object.num,
                object.free, object.total, object.exited, object.unclaimed, O1)
  BY <1>1, WorkOnIs
<1>8. object' = With(Updated(WorkOn(t, None)), [running |-> R1, unclaimed |-> U1])
  BY DEF CreateStart
<1>9. /\ object.unclaimed \subseteq U1 /\ U1 \subseteq object.unclaimed \cup {u}
      /\ u \in U1 => object.tcb[u].state = "JOINABLE"
  <2>1. u \notin object.unclaimed
    <3>1. ClaimFits(object.running, ToSet(object.free), object.unclaimed, t, u, pc[t])
      BY <1>3, TargetFacts DEF Idle
    <3> QED BY <3>1 DEF ClaimFits
  <2> QED BY <2>1 DEF Target
<1>10. R1 \in SUBSET Threads /\ U1 \in SUBSET Threads
  BY <1>1, <1>4
<1>11. u = object.of[t]
  OBVIOUS
<1> HIDE DEF u, U1, O1
<1>12. LifeIs(object', object.tcb, R1, object.threads, object.num, object.free, object.total,
              object.exited, U1, O1)
  <2> HIDE DEF R1
  <2> QED BY <1>7, <1>8, <1>10, SetStarted DEF LifeIs
<1>13. /\ LifeParts(object.tcb, R1, object.threads, object.num, ToSet(object.free), U1, O1, pc')
       /\ SameTally(object.running, R1, object.of, O1, pc, pc')
  <2>1. O1 \in [Threads -> Threads \cup {None}] /\ Put(object.of, O1, t, None)
    BY <1>7
  <2>2. t \in object.running /\ pc[t] = "start"
    BY <1>3
  <2> QED BY <1>2, <2>1, <2>2, <1>6, <1>9, <1>11, StartParts
<1>14. TallyOK(R1, O1, pc', object.total, object.exited)
  BY <1>13, SameTotal
<1> QED BY <1>1, <1>3, <1>12, <1>13, <1>14, Lifted DEF Lives

LEMMA AllocSlotInv ==
  ASSUME LifeInv, NEW t \in Threads, AllocSlot(t)
  PROVE  LifeInv'
<1> DEFINE u == object.of[t]
           id == object.num + 1
           table == IF id <= Len(object.threads) THEN object.threads ELSE Grown
           T1 == [table EXCEPT ![id] = None]
           b == With(object.tcb[u], [id |-> id])
           B1 == [object.tcb EXCEPT ![u] = b]
           S == Threads \cup {None}
<1>1. /\ object \in LifeObject /\ object.threads \in Seq(S) /\ object.num \in Nat
      /\ IsInjective(object.free)
  BY LifeFacts
<1>2. LifeParts(object.tcb, object.running, object.threads, object.num, ToSet(object.free),
                object.unclaimed, object.of, pc)
  BY LifeFacts
<1>3. /\ t \in object.running /\ pc[t] = "slot" /\ Put(pc, pc', t, "setup")
      /\ pc' \in [Threads -> LifePlaces]
  BY StepFacts DEF AllocSlot, LifePlaces
<1>4. AllAwake /\ UNCHANGED <<call, waking>>
  BY StepFacts DEF AllocSlot, LifePlaces
<1>5. u \in Threads /\ object.tcb[u] \in Tcbs
  BY <1>3, TargetFacts DEF Idle
<1>6. id \in Nat /\ id > 0 /\ id = object.num + 1 /\ object.num <= Len(object.threads) /\ object.num > 0
      /\ Len(object.threads) \in Nat
  <2>1. TableOK(object.tcb, object.running, object.threads, object.num, ToSet(object.free), object.of, pc)
    BY <1>2, PartsFacts
  <2> QED BY <1>1, <2>1 DEF TableOK
<1> HIDE DEF id
<1>7. TcbIs(b, object.tcb[u].state, id, object.tcb[u].stack, object.tcb[u].kernel)
  BY <1>5, <1>6, SetId
<1>8. object' = With(Updated(WithTcb(u, [id |-> id])), [num |-> id, threads |-> T1])
  BY DEF AllocSlot, id
<1>9. /\ B1 \in [Threads -> Tcbs] /\ B1[u] = b /\ \A v \in Threads : v # u => B1[v] = object.tcb[v]
      /\ LifeIs(Updated(WithTcb(u, [id |-> id])), B1, object.running, object.threads, object.num,
                object.free, object.total, object.exited, object.unclaimed, object.of)
  <2>1. b \in Tcbs
    BY <1>7 DEF TcbIs
  <2>2. object \in LifeObject
    BY <1>1
  <2> DEFINE f == [id |-> id]
  <2>3. With(object.tcb[u], f) \in Tcbs /\ B1 = [object.tcb EXCEPT ![u] = With(object.tcb[u], f)]
        /\ b = With(object.tcb[u], f)
    BY <2>1
  <2> HIDE DEF b, B1, f, u
  <2>4. /\ B1 \in [Threads -> Tcbs] /\ B1[u] = With(object.tcb[u], f)
        /\ \A v \in Threads : v # u => B1[v] = object.tcb[v]
    BY <1>5, <2>2, <2>3, LifeFields
  <2>5. Updated(WithTcb(u, f)) = With(object, [tcb |-> B1])
    BY <2>3 DEF WithTcb, Updated
  <2>6. LifeIs(Updated(WithTcb(u, f)), B1, object.running, object.threads, object.num,
               object.free, object.total, object.exited, object.unclaimed, object.of)
    BY <2>2, <2>4, <2>5, SetTcb
  <2> QED BY <2>3, <2>4, <2>6 DEF f
<1>10. /\ table \in Seq(S) /\ id <= Len(table) /\ Len(object.threads) <= Len(table)
       /\ \A i \in 1..Len(object.threads) : table[i] = object.threads[i]
       /\ \A i \in 1..Len(table) : table[i] \in Threads => i \in 1..Len(object.threads)
  <2>1. CASE id <= Len(object.threads)
    BY <1>1, <2>1
  <2>2. CASE ~(id <= Len(object.threads))
    <3>1. table = Grown
      BY <2>2
    <3> HIDE DEF table
    <3> DEFINE m == 2 * Len(object.threads)
    <3>2. m \in Nat /\ id <= m /\ Len(object.threads) <= m
      BY <1>1, <1>6
    <3>3. DOMAIN object.threads = 1..Len(object.threads) /\ \A i \in 1..Len(object.threads) :
            object.threads[i] \in S
      BY <1>1
    <3>4. Grown = [i \in 1..m |-> IF i \in 1..Len(object.threads) THEN object.threads[i] ELSE None]
      BY <3>3 DEF Grown
    <3> HIDE DEF m
    <3>5. Grown \in Seq(S) /\ Len(Grown) = m
      BY <3>2, <3>3, <3>4
    <3>6. \A i \in 1..m : Grown[i] = IF i \in 1..Len(object.threads) THEN object.threads[i] ELSE None
      BY <3>4
    <3>7. \A i \in 1..Len(object.threads) : i \in 1..m
      BY <1>6, <3>2
    <3> QED BY <3>1, <3>2, <3>5, <3>6, <3>7, NoneNotThread
  <2> QED BY <2>1, <2>2
<1>11. u = object.of[t]
  OBVIOUS
<1> HIDE DEF table, u, b, B1
<1>12. id \in 1..Len(table)
  BY <1>6, <1>10
<1>13. /\ T1 \in Seq(S) /\ Len(T1) = Len(table)
       /\ \A j \in 1..Len(table) : T1[j] = IF j = id THEN None ELSE table[j]
  <2>1. None \in S
    OBVIOUS
  <2> HIDE DEF S
  <2> QED BY <1>10, <1>12, <2>1, ExceptSeq
<1> HIDE DEF T1
<1>14. T1 \in Seq(Threads \cup {None})
  BY <1>13
<1>15. id <= Len(T1) /\ Len(object.threads) <= Len(T1) /\ T1[id] = None
  BY <1>10, <1>12, <1>13
<1>16. \A i \in 1..Len(object.threads) : i # id => T1[i] = object.threads[i]
  <2> SUFFICES ASSUME NEW i \in 1..Len(object.threads), i # id PROVE T1[i] = object.threads[i]
    OBVIOUS
  <2>1. i \in 1..Len(table)
    BY <1>6, <1>10
  <2> QED BY <1>10, <1>13, <2>1
<1>17. Enlarged(object.threads, T1, id)
  <2>1. \A i \in 1..Len(T1) : T1[i] \in Threads => i \in 1..Len(object.threads)
    BY <1>10, <1>13, NoneNotThread
  <2> QED BY <1>15, <1>16, <2>1 DEF Enlarged
<1>18. B1[u].id = id /\ B1[u].state = object.tcb[u].state
  BY <1>7, <1>9 DEF TcbIs
<1>19. LifeIs(object', B1, object.running, T1, id, object.free, object.total,
              object.exited, object.unclaimed, object.of)
  BY <1>6, <1>8, <1>9, <1>14, SetTable DEF LifeIs
<1>20. /\ LifeParts(B1, object.running, T1, id, ToSet(object.free), object.unclaimed, object.of, pc')
       /\ SameTally(object.running, object.running, object.of, object.of, pc, pc')
  <2>1. B1 \in [Threads -> Tcbs] /\ \A v \in Threads : v # u => B1[v] = object.tcb[v]
    BY <1>9
  <2>2. id = object.num + 1
    BY <1>6
  <2> QED BY <1>2, <1>3, <2>1, <2>2, <1>11, <1>14, <1>17, <1>18, SlotParts
<1>21. TallyOK(object.running, object.of, pc', object.total, object.exited)
  BY <1>20, SameTotal
<1> QED BY <1>1, <1>4, <1>19, <1>20, <1>21, Lifted DEF Lives

LEMMA LifeStepInv ==
  ASSUME LifeInv, LifeNext
  PROVE  LifeInv'
<1>1. PICK t \in Threads :
         \/ CreateRecycled(t) \/ CreateNew(t) \/ ExitCount(t)
         \/ Join(t) \/ DetachJoinable(t) \/ DetachExited(t)
         \/ CreateSteps(t) \/ ExitSteps(t) \/ ReapSteps(t)
  BY DEF LifeNext
<1>2. CASE CreateRecycled(t) \/ CreateNew(t) \/ ExitCount(t)
  BY <1>2, CreateRecycledInv, CreateNewInv, ExitCountInv
<1>3. CASE Join(t) \/ DetachJoinable(t) \/ DetachExited(t)
  BY <1>3, JoinInv, DetachJoinableInv, DetachExitedInv
<1>4. CASE CreateSteps(t)
  BY <1>4, AllocHaltInv, AllocSlotInv, CreateSetupInv, CreateFailsInv, CreateCountInv,
     CreatePublishInv, CreateStartInv DEF CreateSteps
<1>5. CASE ExitSteps(t)
  BY <1>5, ExitDetachedInv, ExitJoinableInv, ExitHaltInv, DeallocWithdrawInv, DeallocFreeInv,
     DeallocTerminateInv DEF ExitSteps
<1>6. CASE ReapSteps(t)
  BY <1>6, JoinExitedInv, ReapHaltInv, ReapDeallocInv DEF ReapSteps
<1> QED BY <1>1, <1>2, <1>3, <1>4, <1>5, <1>6

\* The one thread that the program starts with.
LEMMA LifeInitInv ==
  ASSUME LifeInit, pc = [t \in Threads |-> "run"], AllAwake
  PROVE  LifeInv
<1> DEFINE main == CHOOSE t \in Threads : TRUE
           B == [t \in Threads |-> IF t = main THEN [state |-> "JOINABLE", id |-> 1,
                                                     stack |-> TRUE, kernel |-> TRUE]
                                               ELSE NoTcb]
           O == [t \in Threads |-> None]
           R == {main}
           T == <<main>>
           F == <<>>
<1>1. main \in Threads
  BY ThreadsFinite
<1>2. object = [kind |-> Life, spin |-> FALSE, tcb |-> B, running |-> R, threads |-> T, num |-> 1,
                free |-> F, total |-> 1, exited |-> FALSE, unclaimed |-> R, of |-> O]
  BY DEF LifeInit
<1> HIDE DEF main
<1>3. /\ B \in [Threads -> Tcbs] /\ B[main].state = "JOINABLE" /\ B[main].id = 1
      /\ B[main].stack /\ B[main].kernel
  BY <1>1 DEF Tcbs, NoTcb
<1>4. \A v \in Threads : v # main => B[v].state = "NONE" /\ B[v].id = 0
  BY DEF NoTcb
<1>5. T \in Seq(Threads \cup {None}) /\ Len(T) = 1 /\ T[1] = main
  BY <1>1
<1>6. F \in Seq(Threads) /\ ToSet(F) = {} /\ IsInjective(F)
  BY DEF ToSet, IsInjective
<1>7. O \in [Threads -> Threads \cup {None}] /\ R \subseteq Threads
  BY <1>1
<1> HIDE DEF B, O, T, F
<1>8. object \in LifeObject
  BY <1>1, <1>2, <1>3, <1>5, <1>6, <1>7 DEF LifeObject
<1>9. /\ object.tcb = B /\ object.running = R /\ object.threads = T /\ object.num = 1
      /\ object.free = F /\ object.total = 1 /\ object.exited = FALSE /\ object.unclaimed = R
      /\ object.of = O
  BY <1>2
<1>10. pc \in [Threads -> LifePlaces] /\ \A t \in Threads : pc[t] = "run"
  BY DEF LifePlaces, Idle
<1>11. \A t \in Threads : ~Claim(R, pc, t)
  BY <1>10 DEF Claim, Idle
<1>12. PartsOK(B, R, T, 1, {}, R, O, pc)
  BY <1>3, <1>5, <1>7, <1>10 DEF PartsOK
<1>13. ClaimsOK(R, {}, R, O, pc)
  BY <1>11 DEF ClaimsOK
<1>14. StatesOK(B, R, O, pc)
  BY <1>1, <1>3, <1>10, <1>11 DEF StatesOK, RunnerFits
<1>15. ListsOK(B, R, {}, R, O, pc)
  BY <1>3 DEF ListsOK
<1>16. IdsOK(B, 1)
  BY <1>3, <1>4 DEF IdsOK
<1>17. TableOK(B, R, T, 1, {}, O, pc)
  <2>1. 1 <= Len(T) /\ 1 > 0
    BY <1>5
  <2>2. \A i \in 1..Len(T) : T[i] \in Threads => B[T[i]].id = i
    BY <1>3, <1>5
  <2>3. \A u \in R : Listed(u, O[u], pc[u]) => T[B[u].id] = u
    BY <1>3, <1>5
  <2> QED BY <1>11, <2>1, <2>2, <2>3 DEF TableOK
<1>18. LifeParts(B, R, T, 1, {}, R, O, pc)
  BY <1>12, <1>13, <1>14, <1>15, <1>16, <1>17 DEF LifeParts
<1>19. Tally(R, O, pc) = {main}
  <2>1. Tallied(R, O, pc, main)
    BY <1>1, <1>10 DEF Tallied, Alive
  <2>2. \A v \in Threads : v # main => ~Tallied(R, O, pc, v)
    BY <1>1, <1>10 DEF Tallied, Alive, Making
  <2> QED BY <1>1, <2>1, <2>2 DEF Tally
<1>20. TallyOK(R, O, pc, 1, FALSE)
  BY <1>19, FS_Singleton DEF TallyOK
<1> QED BY <1>6, <1>8, <1>9, <1>10, <1>18, <1>20 DEF LifeInv, LifeTypeOK

-----------------------------------------------------------------------------
\* What the invariant says in the words of the specification.
LEMMA LifeCounted ==
  ASSUME LifeInv
  PROVE  CountedOnce
<1>1. object.running \in SUBSET Threads
  BY LifeFacts
<1>2. \A u \in Threads : Counted(u) <=> Tallied(object.running, object.of, pc, u)
  BY DEF Counted, Working, Tallied, Alive, Making
<1>3. {u \in Threads : Counted(u)} = Tally(object.running, object.of, pc)
  BY <1>2 DEF Tally
<1>4. TallyOK(object.running, object.of, pc, object.total, object.exited)
  BY LifeFacts
<1> QED BY <1>3, <1>4 DEF CountedOnce, TallyOK

LEMMA LifeOwned ==
  ASSUME LifeInv
  PROVE  ResourcesOwned
<1> DEFINE B == object.tcb
           R == object.running
           T == object.threads
           n == object.num
           F == ToSet(object.free)
           U == object.unclaimed
           O == object.of
<1>1. /\ PartsOK(B, R, T, n, F, U, O, pc) /\ IdsOK(B, n) /\ TableOK(B, R, T, n, F, O, pc)
      /\ TypeFacts(B, R, T, n, F, U, O, pc) /\ ClaimFacts(B, R, T, F, U, O, pc)
      /\ RunnerFacts(B, R, T, O, pc)
  BY LifeFacts, PartsFacts
<1>2. IsInjective(object.free) /\ T \in Seq(Threads \cup {None})
  BY LifeFacts
<1> HIDE DEF B, R, T, n, F, U, O
<1>3. \A t \in Threads : Working(t) => Claim(R, pc, t) /\ t \in R
  BY DEF Working, Claim, Idle, R
<1>4. \A u \in R : B[u].stack /\ B[u].kernel
  BY <1>1 DEF RunnerFacts, RunnerFits
<1>5. \A t \in Threads :
         Working(t) /\ O[t] # t
         /\ pc[t] \in {"setup", "count", "publish", "start", "reap", "withdraw", "free", "terminate"}
            => O[t] \notin R
  BY <1>1, <1>3 DEF ClaimFacts, ClaimFits
<1>6. \A t, v \in Threads : Working(t) /\ Working(v) /\ O[t] = O[v] => t = v
  BY <1>1, <1>3 DEF ClaimFacts
<1>7. \A u \in F : u \notin ToSet(T)
  <2> SUFFICES ASSUME NEW u \in F, u \in ToSet(T) PROVE FALSE
    OBVIOUS
  <2>1. PICK i \in 1..Len(T) : T[i] = u
    BY <1>2 DEF ToSet
  <2>2. u \in Threads
    BY <1>1 DEF TypeFacts
  <2>3. B[u].id = i /\ T[B[u].id] = None
    BY <1>1, <2>1, <2>2 DEF TableOK
  <2> QED BY <2>1, <2>2, <2>3, NoneNotThread
<1>8. \A u, v \in Threads : B[u].id = B[v].id /\ u # v => B[u].id = 0
  BY <1>1 DEF IdsOK
<1>9. \A u \in R : pc[u] \notin {"halt", "free", "terminate"} => T[B[u].id] = u
  BY <1>1 DEF RunnerFacts, Listed
<1> QED BY <1>2, <1>4, <1>5, <1>6, <1>7, <1>8, <1>9 DEF ResourcesOwned, B, R, T, F, O

-----------------------------------------------------------------------------
(***************************************************************************)
(* Queues.  A queue in which every thread is at most once:                 *)
(***************************************************************************)
IsQueue(q, S) == q \in Seq(S) /\ IsInjective(q)

LEMMA EmptyQueue == ASSUME NEW S PROVE IsQueue(<<>>, S) /\ ToSet(<<>>) = {}
BY DEF IsQueue, IsInjective, ToSet

LEMMA NotEmptyQueue == ASSUME NEW S, NEW q \in Seq(S) PROVE q = <<>> <=> ToSet(q) = {}
BY DEF ToSet

LEMMA QueueOfOne == ASSUME NEW S, NEW x \in S PROVE IsQueue(<<x>>, S) /\ ToSet(<<x>>) = {x}
BY DEF IsQueue, IsInjective, ToSet

LEMMA QueueRange == ASSUME NEW S, NEW q \in Seq(S) PROVE ToSet(q) \subseteq S
BY DEF ToSet

LEMMA Enqueueing ==
  ASSUME NEW S, NEW q, IsQueue(q, S), NEW t \in S, t \notin ToSet(q)
  PROVE  /\ IsQueue(<<t>> \o q, S) /\ ToSet(<<t>> \o q) = ToSet(q) \cup {t}
         /\ Len(<<t>> \o q) = Len(q) + 1
<1> DEFINE r == <<t>> \o q
<1>1. r \in Seq(S) /\ Len(r) = Len(q) + 1
  BY DEF IsQueue
<1>2. r[1] = t /\ \A i \in 2..Len(r) : r[i] = q[i - 1]
  BY DEF IsQueue
<1>3. q \in Seq(S) /\ \A i \in 1..Len(q) : q[i] \in ToSet(q)
  BY DEF IsQueue, ToSet
<1> HIDE DEF r
<1>4. IsInjective(r)
  <2> SUFFICES ASSUME NEW i \in 1..Len(r), NEW j \in 1..Len(r), r[i] = r[j] PROVE i = j
    BY <1>1 DEF IsInjective
  <2>1. CASE i = 1 /\ j # 1
    BY <1>1, <1>2, <1>3, <2>1
  <2>2. CASE i # 1 /\ j = 1
    BY <1>1, <1>2, <1>3, <2>2
  <2>3. CASE i # 1 /\ j # 1
    <3>1. i - 1 \in 1..Len(q) /\ j - 1 \in 1..Len(q) /\ q[i - 1] = q[j - 1]
      BY <1>1, <1>2, <1>3, <2>3
    <3> QED BY <3>1, <1>3 DEF IsQueue, IsInjective
  <2> QED BY <2>1, <2>2, <2>3
<1>5. ToSet(r) = ToSet(q) \cup {t}
  <2>1. ASSUME NEW i \in 1..Len(r) PROVE r[i] \in ToSet(q) \cup {t}
    BY <1>1, <1>2, <1>3
  <2>2. ASSUME NEW i \in 1..Len(q) PROVE \E j \in 1..Len(r) : r[j] = q[i]
    <3>1. i + 1 \in 1..Len(r) /\ r[i + 1] = q[i]
      BY <1>1, <1>2, <1>3
    <3> QED BY <3>1
  <2>3. 1 \in 1..Len(r)
    BY <1>1, <1>3
  <2>4. DOMAIN r = 1..Len(r) /\ DOMAIN q = 1..Len(q)
    BY <1>1, <1>3
  <2>5. ToSet(r) \subseteq ToSet(q) \cup {t}
    BY <2>1, <2>4 DEF ToSet
  <2>6. ToSet(q) \cup {t} \subseteq ToSet(r)
    BY <1>2, <2>2, <2>3, <2>4, SMTT(30) DEF ToSet
  <2> QED BY <2>5, <2>6
<1> QED BY <1>1, <1>4, <1>5 DEF IsQueue, r

LEMMA Dequeueing ==
  ASSUME NEW S, NEW q, IsQueue(q, S), q # <<>>
  PROVE  /\ Head(q) \in S /\ Head(q) \in ToSet(q)
         /\ IsQueue(Tail(q), S) /\ ToSet(Tail(q)) = ToSet(q) \ {Head(q)}
         /\ Len(Tail(q)) = Len(q) - 1
<1> DEFINE r == Tail(q)
<1>1. q \in Seq(S) /\ r \in Seq(S) /\ Len(r) = Len(q) - 1 /\ Head(q) = q[1] /\ Len(q) \in Nat \ {0}
  BY DEF IsQueue
<1>2. \A i \in 1..Len(r) : r[i] = q[i + 1] /\ i + 1 \in 1..Len(q)
  BY <1>1
<1>3. \A i, j \in 1..Len(q) : q[i] = q[j] => i = j
  BY <1>1 DEF IsQueue, IsInjective
<1> HIDE DEF r
<1>4. IsInjective(r)
  BY <1>1, <1>2, <1>3 DEF IsInjective
<1>5. ASSUME NEW i \in 1..Len(r) PROVE r[i] # q[1]
  BY <1>1, <1>2, <1>3
<1>6. ASSUME NEW i \in 1..Len(q), i # 1 PROVE q[i] = r[i - 1] /\ i - 1 \in 1..Len(r)
  BY <1>1, <1>2, <1>6
<1>7. ToSet(r) = ToSet(q) \ {q[1]}
  <2>1. DOMAIN r = 1..Len(r) /\ DOMAIN q = 1..Len(q)
    BY <1>1
  <2>2. ToSet(r) \subseteq ToSet(q) \ {q[1]}
    BY <1>2, <1>5, <2>1 DEF ToSet
  <2>3. ASSUME NEW i \in 1..Len(q), q[i] # q[1] PROVE q[i] \in ToSet(r)
    BY <1>6, <2>1, <2>3 DEF ToSet
  <2> QED BY <2>1, <2>2, <2>3 DEF ToSet
<1>8. q[1] \in S /\ q[1] \in ToSet(q)
  BY <1>1 DEF ToSet
<1> QED BY <1>1, <1>4, <1>7, <1>8 DEF IsQueue, r

\* A queue is as long as its set of threads is large.
LEMMA QueueLength ==
  ASSUME NEW S, NEW q, IsQueue(q, S)
  PROVE  Cardinality(ToSet(q)) = Len(q) /\ IsFiniteSet(ToSet(q)) /\ Len(q) \in Nat
<1>1. q \in Seq(S) /\ Len(q) \in Nat /\ DOMAIN q = 1..Len(q)
  BY DEF IsQueue
<1>2. q \in [1..Len(q) -> ToSet(q)]
  BY <1>1 DEF ToSet
<1>3. q \in Bijection(1..Len(q), ToSet(q))
  BY <1>1, <1>2 DEF IsQueue, Bijection, Injection, Surjection, IsInjective, ToSet
<1>4. ExistsBijection(1..Len(q), ToSet(q))
  BY <1>3 DEF ExistsBijection
<1> QED BY <1>1, <1>4, FS_CountingElements, FS_NatBijection

-----------------------------------------------------------------------------
(***************************************************************************)
(* Where the threads in P are: each of them once, on one of the queues A   *)
(* and B or on one of the lists W of threads to be woken; nobody else is.  *)
(***************************************************************************)
Places(A, B, W, P) ==
    /\ IsQueue(A, Threads) /\ IsQueue(B, Threads)
    /\ W \in [Threads -> Seq(Threads)] /\ \A t \in Threads : IsQueue(W[t], Threads)
    /\ ToSet(A) \cap ToSet(B) = {}
    /\ \A t \in Threads : ToSet(W[t]) \cap (ToSet(A) \cup ToSet(B)) = {}
    /\ \A t, u \in Threads : t # u => ToSet(W[t]) \cap ToSet(W[u]) = {}
    /\ \A u : u \in P <=> u \in ToSet(A) \cup ToSet(B) \/ \E t \in Threads : u \in ToSet(W[t])

LEMMA PlacesSwap ==
  ASSUME NEW A, NEW B, NEW W, NEW P, Places(A, B, W, P)
  PROVE  Places(B, A, W, P)
BY DEF Places

LEMMA PlacesEnter ==
  ASSUME NEW A, NEW B, NEW W, NEW P, Places(A, B, W, P), NEW u \in Threads, u \notin P
  PROVE  Places(<<u>> \o A, B, W, P \cup {u})
<1> DEFINE q == <<u>> \o A
<1>1. u \notin ToSet(A) /\ u \notin ToSet(B) /\ \A t \in Threads : u \notin ToSet(W[t])
  BY DEF Places
<1>2. IsQueue(q, Threads) /\ ToSet(q) = ToSet(A) \cup {u}
  BY <1>1, Enqueueing DEF Places
<1> HIDE DEF q
<1>3. Places(q, B, W, P \cup {u})
  BY <1>1, <1>2 DEF Places
<1> QED BY <1>3 DEF q

\* What t dequeues and has to wake: a list w of threads taken from A.
LEMMA PlacesTake ==
  ASSUME NEW A, NEW B, NEW W, NEW P, Places(A, B, W, P), NEW t \in Threads, W[t] = <<>>,
         NEW w, NEW A1, IsQueue(w, Threads), IsQueue(A1, Threads),
         ToSet(w) \cap ToSet(A1) = {}, ToSet(w) \cup ToSet(A1) = ToSet(A)
  PROVE  Places(A1, B, [W EXCEPT ![t] = w], P)
<1> DEFINE V == [W EXCEPT ![t] = w]
<1>1. V \in [Threads -> Seq(Threads)] /\ V[t] = w /\ \A u \in Threads : u # t => V[u] = W[u]
  BY DEF Places, IsQueue
<1>2. ToSet(W[t]) = {}
  BY EmptyQueue
<1> HIDE DEF V
<1>3. \A u \in Threads : IsQueue(V[u], Threads)
  BY <1>1 DEF Places
<1>4. \A u \in Threads : ToSet(V[u]) \cap (ToSet(A1) \cup ToSet(B)) = {}
  BY <1>1 DEF Places
<1>5. \A u, v \in Threads : u # v => ToSet(V[u]) \cap ToSet(V[v]) = {}
  BY <1>1 DEF Places
<1>6. ASSUME NEW u
      PROVE  u \in P <=> u \in ToSet(A1) \cup ToSet(B) \/ \E v \in Threads : u \in ToSet(V[v])
  BY <1>1, <1>2 DEF Places
<1> QED BY <1>1, <1>3, <1>4, <1>5, <1>6 DEF Places, V

LEMMA PlacesTakeFirst ==
  ASSUME NEW A, NEW B, NEW W, NEW P, Places(A, B, W, P), NEW t \in Threads, W[t] = <<>>, A # <<>>
  PROVE  Places(Tail(A), B, [W EXCEPT ![t] = <<Head(A)>>], P)
<1>1. /\ Head(A) \in Threads /\ Head(A) \in ToSet(A)
      /\ IsQueue(Tail(A), Threads) /\ ToSet(Tail(A)) = ToSet(A) \ {Head(A)}
  BY Dequeueing DEF Places
<1>2. IsQueue(<<Head(A)>>, Threads) /\ ToSet(<<Head(A)>>) = {Head(A)}
  BY <1>1, QueueOfOne
<1> QED BY <1>1, <1>2, PlacesTake

LEMMA PlacesTakeAll ==
  ASSUME NEW A, NEW B, NEW W, NEW P, Places(A, B, W, P), NEW t \in Threads, W[t] = <<>>
  PROVE  Places(<<>>, B, [W EXCEPT ![t] = A], P)
<1>1. IsQueue(<<>>, Threads) /\ ToSet(<<>>) = {}
  BY EmptyQueue
<1>2. IsQueue(A, Threads)
  BY DEF Places
<1> QED BY <1>1, <1>2, PlacesTake

LEMMA PlacesWake ==
  ASSUME NEW A, NEW B, NEW W, NEW P, Places(A, B, W, P), NEW t \in Threads, W[t] # <<>>
  PROVE  /\ Head(W[t]) \in Threads /\ Head(W[t]) \in P
         /\ Head(W[t]) \notin ToSet(A) \cup ToSet(B)
         /\ Places(A, B, [W EXCEPT ![t] = Tail(W[t])], P \ {Head(W[t])})
<1> DEFINE h == Head(W[t])
           V == [W EXCEPT ![t] = Tail(W[t])]
<1>1. /\ h \in Threads /\ h \in ToSet(W[t])
      /\ IsQueue(Tail(W[t]), Threads) /\ ToSet(Tail(W[t])) = ToSet(W[t]) \ {h}
  BY Dequeueing DEF Places
<1>2. V \in [Threads -> Seq(Threads)] /\ V[t] = Tail(W[t]) /\ \A u \in Threads : u # t => V[u] = W[u]
  BY <1>1 DEF Places, IsQueue
<1> HIDE DEF V, h
<1>3. ASSUME NEW u \in Threads
      PROVE  IsQueue(V[u], Threads) /\ ToSet(V[u]) = ToSet(W[u]) \ {h}
  <2>1. CASE u = t
    BY <1>1, <1>2, <2>1
  <2>2. CASE u # t
    BY <1>1, <1>2, <2>2 DEF Places
  <2> QED BY <2>1, <2>2
<1>4. h \in P /\ h \notin ToSet(A) \cup ToSet(B)
  BY <1>1 DEF Places
<1>5. Places(A, B, V, P \ {h})
  BY <1>2, <1>3, <1>4 DEF Places
<1> QED BY <1>1, <1>4, <1>5 DEF V, h

\* So everybody is where the count of NobodyForgotten finds him.
LEMMA PlacesCount ==
  ASSUME NEW A, NEW B, NEW P, Places(A, B, waking, P), NEW Q,
         Q \subseteq {A, B}, \A q \in {A, B} : ToSet(q) # {} => q \in Q, NEW u \in Threads
  PROVE  Cardinality({q \in Q : u \in ToSet(q)}) + Cardinality(InList(u))
            = IF u \in P THEN 1 ELSE 0
<1> DEFINE on == {q \in Q : u \in ToSet(q)}
<1>1. Cardinality({}) = 0 /\ Cardinality({A}) = 1 /\ Cardinality({B}) = 1
      /\ \A t \in Threads : Cardinality({t}) = 1
  BY FS_EmptySet, FS_Singleton
<1>2. CASE u \in ToSet(A)
  <2>1. on = {A} /\ InList(u) = {} /\ u \in P
    BY <1>2 DEF Places, InList
  <2> QED BY <1>1, <2>1
<1>3. CASE u \in ToSet(B)
  <2>1. on = {B} /\ InList(u) = {} /\ u \in P
    BY <1>3 DEF Places, InList
  <2> HIDE DEF on
  <2>2. Cardinality(on) + Cardinality(InList(u)) = 1
    BY <1>1, <2>1
  <2> QED BY <2>1, <2>2 DEF on
<1>4. CASE u \notin ToSet(A) \cup ToSet(B) /\ \E t \in Threads : u \in ToSet(waking[t])
  <2>1. PICK t \in Threads : u \in ToSet(waking[t])
    BY <1>4
  <2>2. on = {} /\ u \in P
    BY <1>4 DEF Places
  <2>3. InList(u) = {t}
    BY <2>1 DEF Places, InList
  <2> QED BY <1>1, <2>2, <2>3
<1>5. CASE u \notin ToSet(A) \cup ToSet(B) /\ ~\E t \in Threads : u \in ToSet(waking[t])
  <2>1. on = {} /\ InList(u) = {} /\ u \notin P
    BY <1>5 DEF Places, InList
  <2> QED BY <1>1, <2>1
<1> QED BY <1>2, <1>3, <1>4, <1>5

-----------------------------------------------------------------------------
Parked == {u \in Threads : pc[u] \in {"enqueued", "asleep", "unlock"}}

\* An object of one kind is not touched by the functions of another one.
LEMMA NotMutexStep ==
  ASSUME object.kind # Mutex,
         \A t \in Threads : pc[t] # "unlock" /\ call[t] \notin {"lock", "cond"}
  PROVE  ~MutexNext
BY DEF MutexNext, MutexLockFree, MutexLockAgain, MutexBusy, MutexLockBusy, MutexTimedlockInvalid,
   MutexLockResumed, MutexUnlockInner, MutexUnlock, MutexTransfer, CondWait, CondWaitUnlock,
   CondWaitResumed, CondSignal, CondBroadcast, CondWake, Running, Resumed

LEMMA NotRwlockStep == ASSUME object.kind # Rwlock PROVE ~RwlockNext
BY DEF RwlockNext, Rdlock, Wrlock, RdlockBusy, WrlockBusy, RwlockTimedlockInvalid,
   RwlockResumed, RwlockUnlock, MayLock, Running

LEMMA NotSemStep ==
  ASSUME object.kind \notin {Sem, Barrier, Once},
         \A t \in Threads : pc[t] \notin {"oncelock", "onceinit"}
  PROVE  ~SemNext
BY DEF SemNext, SemDown, SemWait, SemTimedwaitInvalid, SemPost, BarrierWait,
   BarrierLast, SemResumed, OnceDone, OnceTest, OnceLock, OnceUnlock, MayCall, Running

LEMMA NotLifeStep == ASSUME object.kind # Life PROVE ~LifeNext
BY DEF LifeNext, CreateRecycled, CreateNew, ExitCount, Join, DetachJoinable, DetachExited,
   CreateSteps, ExitSteps, ReapSteps, AllocHalt, AllocSlot, CreateSetup, CreateFails,
   CreateCount, CreatePublish, CreateStart, ExitDetached, ExitJoinable, ExitHalt,
   DeallocWithdraw, DeallocFree, DeallocTerminate, JoinExited, ReapHalt, ReapDealloc, Step

(***************************************************************************)
(* Mutexes and condition variables.                                        *)
(***************************************************************************)
MutexObject ==
    [kind : {Mutex}, spin : BOOLEAN, type : MutexTypes, held : BOOLEAN,
     owner : Threads \cup {None}, locks : Nat, queue : Seq(Threads), waiters : Seq(Threads)]

MutexTypeOK ==
    /\ object \in MutexObject
    /\ pc \in [Threads -> {"run", "unlock", "enqueued", "asleep", "resumed"}]
    /\ call \in [Threads -> {"none", "lock", "cond"}]
    /\ holds \in [Threads -> Nat]

\* Where a thread is in its call, whom it has to wake and what it holds.
MutexCalls ==
    \A t \in Threads :
        /\ pc[t] \in {"unlock", "asleep", "resumed"} => waking[t] = <<>>
        /\ pc[t] = "run" <=> call[t] = "none"
        /\ pc[t] = "unlock" => call[t] = "cond" /\ holds[t] = 1
        /\ pc[t] \in {"enqueued", "asleep", "resumed"} => holds[t] = 0
        /\ t \in ToSet(object.queue) => call[t] = "lock"
        /\ t \in ToSet(object.waiters) => call[t] = "cond"

MutexPlaces == Places(object.queue, object.waiters, waking, Parked)

MutexWaits ==
    /\ object.queue # <<>> => object.held
    /\ object.type # "recursive" => object.locks = 0

MutexInv == MutexTypeOK /\ MutexPlaces /\ MutexCalls /\ MutexExclusion /\ MutexWaits

LEMMA MutexFields ==
  ASSUME object \in MutexObject
  PROVE  /\ object.kind = Mutex /\ object.owner \in Threads \cup {None} /\ object.locks \in Nat
         /\ object.held \in BOOLEAN /\ object.spin \in BOOLEAN
         /\ object.type \in MutexTypes
         /\ object.queue \in Seq(Threads) /\ object.waiters \in Seq(Threads)
BY DEF MutexObject

\* The object o has these values of the fields, and the type of the mutex.
MutexIs(o, s, h, w, n, q, c) ==
    /\ o \in MutexObject /\ o.type = object.type /\ o.spin = s
    /\ o.held = h /\ o.owner = w /\ o.locks = n /\ o.queue = q /\ o.waiters = c

LEMMA MutexSetSpin ==
  ASSUME object \in MutexObject, NEW s \in BOOLEAN,
         object' = Updated([spin |-> s])
  PROVE  MutexIs(object', s, object.held, object.owner, object.locks, object.queue, object.waiters)
BY DEF MutexObject, MutexIs, Updated, With

LEMMA MutexSetLocks ==
  ASSUME object \in MutexObject, NEW n \in Nat,
         object' = Updated([locks |-> n])
  PROVE  MutexIs(object', object.spin, object.held, object.owner, n, object.queue, object.waiters)
BY DEF MutexObject, MutexIs, Updated, With

LEMMA MutexSetOwner ==
  ASSUME object \in MutexObject, NEW w \in Threads,
         object' = Updated([owner |-> w])
  PROVE  MutexIs(object', object.spin, object.held, w, object.locks, object.queue, object.waiters)
BY DEF MutexObject, MutexIs, Updated, With

LEMMA MutexSetQueue ==
  ASSUME object \in MutexObject, NEW q \in Seq(Threads),
         object' = Updated([queue |-> q])
  PROVE  MutexIs(object', object.spin, object.held, object.owner, object.locks, q, object.waiters)
BY DEF MutexObject, MutexIs, Updated, With

LEMMA MutexSetWaiters ==
  ASSUME object \in MutexObject, NEW c \in Seq(Threads),
         object' = Updated([waiters |-> c])
  PROVE  MutexIs(object', object.spin, object.held, object.owner, object.locks, object.queue, c)
BY DEF MutexObject, MutexIs, Updated, With

LEMMA MutexSetOwnerLocks ==
  ASSUME object \in MutexObject, NEW w \in Threads, NEW n \in Nat,
         object' = Updated([owner |-> w, locks |-> n])
  PROVE  MutexIs(object', object.spin, object.held, w, n, object.queue, object.waiters)
BY DEF MutexObject, MutexIs, Updated, With

LEMMA MutexSetHeld ==
  ASSUME object \in MutexObject, NEW h \in BOOLEAN, NEW w \in Threads \cup {None}, NEW n \in Nat,
         object' = Updated([held |-> h, owner |-> w, locks |-> n])
  PROVE  MutexIs(object', object.spin, h, w, n, object.queue, object.waiters)
BY DEF MutexObject, MutexIs, Updated, With

LEMMA MutexSetHanded ==
  ASSUME object \in MutexObject, NEW w \in Threads, NEW n \in Nat, NEW q \in Seq(Threads),
         object' = Updated([owner |-> w, locks |-> n, queue |-> q])
  PROVE  MutexIs(object', object.spin, object.held, w, n, q, object.waiters)
BY DEF MutexObject, MutexIs, Updated, With

LEMMA MutexInitInv ==
  ASSUME MutexInit, pc = [t \in Threads |-> "run"], call = [t \in Threads |-> "none"],
         waking = [t \in Threads |-> <<>>]
  PROVE  MutexInv
<1>1. MutexTypeOK
  <2>1. object \in MutexObject
    BY DEF MutexInit, MutexObject
  <2> QED BY <2>1 DEF MutexInit, MutexTypeOK
<1>2. /\ object.queue = <<>> /\ object.waiters = <<>> /\ object.owner = None
      /\ object.locks = 0 /\ ~object.held
      /\ holds = [t \in Threads |-> 0]
  BY DEF MutexInit
<1>3. IsQueue(<<>>, Threads) /\ ToSet(<<>>) = {}
  BY EmptyQueue
<1>4. MutexPlaces
  BY <1>2, <1>3 DEF MutexPlaces, Places, Parked, IsQueue
<1>5. MutexCalls /\ MutexWaits
  BY <1>2, <1>3 DEF MutexCalls, MutexWaits
<1>6. MutexExclusion
  BY <1>2, <1>3, NoneNotThread DEF MutexExclusion, HandedTo
<1> QED BY <1>1, <1>4, <1>5, <1>6 DEF MutexInv

\* The steps that move nobody from one place to another.
LEMMA MutexUnmoved ==
  ASSUME MutexInv, UNCHANGED <<pc, waking>>,
         object'.queue = object.queue, object'.waiters = object.waiters
  PROVE  MutexPlaces'
<1>1. Parked' = Parked
  BY DEF Parked
<1> QED BY <1>1 DEF MutexInv, MutexPlaces

LEMMA MutexLockFreeInv == ASSUME MutexInv, NEW t \in Threads, MutexLockFree(t) PROVE MutexInv'
<1> DEFINE n == IF object.type = "recursive" THEN 1 ELSE object.locks
<1>1. n \in Nat /\ object' = Updated([held |-> TRUE, owner |-> t, locks |-> n])
  BY MutexFields DEF MutexInv, MutexTypeOK, MutexLockFree, Taken
<1>2. MutexIs(object', object.spin, TRUE, t, n, object.queue, object.waiters)
  <2> HIDE DEF n
  <2> QED BY <1>1, MutexSetHeld DEF MutexInv, MutexTypeOK
<1>3. /\ UNCHANGED <<pc, call, waking>> /\ holds' = [holds EXCEPT ![t] = 1]
      /\ ~object.held /\ pc[t] = "run"
  BY DEF MutexLockFree, Hold, Running
<1>4. MutexTypeOK'
  BY <1>2, <1>3 DEF MutexInv, MutexTypeOK, MutexIs
<1>5. MutexPlaces'
  BY <1>2, <1>3, MutexUnmoved DEF MutexIs
<1>6. MutexCalls' /\ MutexWaits'
  BY <1>2, <1>3 DEF MutexInv, MutexTypeOK, MutexIs, MutexCalls, MutexWaits
<1>7. object.kind = Mutex /\ object.owner = None /\ \A u \in Threads : holds[u] = 0 /\ ~HandedTo(u)
  <2>1. object.kind = Mutex
    BY MutexFields DEF MutexInv, MutexTypeOK
  <2>2. object.owner = None
    BY <1>3, <2>1 DEF MutexInv, MutexExclusion
  <2>3. ASSUME NEW u \in Threads PROVE ~(holds[u] > 0) /\ ~HandedTo(u)
    BY <2>1, <2>2, NoneNotThread DEF MutexInv, MutexExclusion
  <2> QED BY <2>1, <2>2, <2>3 DEF MutexInv, MutexTypeOK
<1>8. \A u \in Threads : (HandedTo(u))' = HandedTo(u)
  BY <1>2, <1>3 DEF HandedTo, MutexIs
<1>9. \A u \in Threads : holds'[u] = IF u = t THEN 1 ELSE 0
  BY <1>3, <1>7 DEF MutexInv, MutexTypeOK
<1>10. MutexExclusion'
  BY <1>2, <1>7, <1>8, <1>9, NoneNotThread DEF MutexExclusion, MutexIs
<1> QED BY <1>4, <1>5, <1>6, <1>10 DEF MutexInv

LEMMA MutexLockAgainInv == ASSUME MutexInv, NEW t \in Threads, MutexLockAgain(t) PROVE MutexInv'
<1> DEFINE n == object.locks + 1
<1>1. n \in Nat /\ object' = Updated([locks |-> n])
  BY MutexFields DEF MutexInv, MutexTypeOK, MutexLockAgain
<1>2. MutexIs(object', object.spin, object.held, object.owner, n, object.queue, object.waiters)
  <2> HIDE DEF n
  <2> QED BY <1>1, MutexSetLocks DEF MutexInv, MutexTypeOK
<1>3. /\ UNCHANGED <<pc, call, waking>> /\ holds' = [holds EXCEPT ![t] = holds[t] + 1]
      /\ object.held /\ pc[t] = "run" /\ object.owner = t /\ object.type = "recursive"
  BY DEF MutexLockAgain, Hold, Running
<1>4. MutexTypeOK'
  BY <1>2, <1>3 DEF MutexInv, MutexTypeOK, MutexIs
<1>5. MutexPlaces'
  BY <1>2, <1>3, MutexUnmoved DEF MutexIs
<1>6. MutexCalls' /\ MutexWaits'
  BY <1>2, <1>3 DEF MutexInv, MutexTypeOK, MutexIs, MutexCalls, MutexWaits
<1>7. \A u \in Threads : (HandedTo(u))' = HandedTo(u)
  BY <1>2, <1>3 DEF HandedTo, MutexIs
<1>8. \A u \in Threads : holds'[u] = IF u = t THEN holds[t] + 1 ELSE holds[u]
  BY <1>3 DEF MutexInv, MutexTypeOK
<1>9. MutexExclusion'
  BY <1>2, <1>3, <1>7, <1>8, MutexFields, NoneNotThread
     DEF MutexInv, MutexTypeOK, MutexExclusion, MutexIs
<1> QED BY <1>4, <1>5, <1>6, <1>9 DEF MutexInv

LEMMA MutexUnlockInnerInv == ASSUME MutexInv, NEW t \in Threads, MutexUnlockInner(t) PROVE MutexInv'
<1> DEFINE n == object.locks - 1
<1>1. n \in Nat /\ n > 0 /\ object' = Updated([locks |-> n])
  BY MutexFields DEF MutexInv, MutexTypeOK, MutexUnlockInner
<1>2. MutexIs(object', object.spin, object.held, object.owner, n, object.queue, object.waiters)
  <2> HIDE DEF n
  <2> QED BY <1>1, MutexSetLocks DEF MutexInv, MutexTypeOK
<1>3. /\ UNCHANGED <<pc, call, waking>> /\ holds' = [holds EXCEPT ![t] = holds[t] - 1]
      /\ pc[t] = "run" /\ object.owner = t /\ object.locks > 1
  BY DEF MutexUnlockInner, Hold, Running
<1>4. object.type = "recursive" /\ holds[t] = object.locks /\ object.locks \in Nat
      /\ object.kind = Mutex
  BY <1>3, MutexFields, NoneNotThread DEF MutexInv, MutexTypeOK, MutexWaits, MutexExclusion
<1>5. \A u \in Threads : holds'[u] = IF u = t THEN object.locks - 1 ELSE holds[u]
  BY <1>3, <1>4 DEF MutexInv, MutexTypeOK
<1>6. holds' \in [Threads -> Nat]
  BY <1>3, <1>4 DEF MutexInv, MutexTypeOK
<1>7. MutexTypeOK'
  BY <1>2, <1>3, <1>6 DEF MutexInv, MutexTypeOK, MutexIs
<1>8. MutexPlaces'
  BY <1>2, <1>3, MutexUnmoved DEF MutexIs
<1>9. MutexCalls' /\ MutexWaits'
  BY <1>2, <1>3, <1>4, <1>5 DEF MutexInv, MutexTypeOK, MutexIs, MutexCalls, MutexWaits
<1>10. \A u \in Threads : (HandedTo(u))' = HandedTo(u)
  BY <1>2, <1>3 DEF HandedTo, MutexIs
<1>11. MutexExclusion'
  BY <1>2, <1>3, <1>4, <1>5, <1>10, NoneNotThread DEF MutexInv, MutexExclusion, MutexIs
<1> QED BY <1>7, <1>8, <1>9, <1>11 DEF MutexInv

LEMMA MutexTimedlockInvalidInv ==
  ASSUME MutexInv, NEW t \in Threads, MutexTimedlockInvalid(t)
  PROVE  MutexInv'
<1>1. object' = Updated([spin |-> TRUE]) /\ UNCHANGED <<pc, call, waking, holds>>
  BY DEF MutexTimedlockInvalid, ReturnSpinLocked
<1>2. MutexIs(object', TRUE, object.held, object.owner, object.locks, object.queue, object.waiters)
  BY <1>1, MutexSetSpin DEF MutexInv, MutexTypeOK
<1>3. MutexTypeOK'
  BY <1>1, <1>2 DEF MutexInv, MutexTypeOK, MutexIs
<1>4. MutexPlaces'
  BY <1>1, <1>2, MutexUnmoved DEF MutexIs
<1>5. MutexCalls' /\ MutexWaits'
  BY <1>1, <1>2 DEF MutexInv, MutexIs, MutexCalls, MutexWaits
<1>6. \A u \in Threads : (HandedTo(u))' = HandedTo(u)
  BY <1>1, <1>2 DEF HandedTo, MutexIs
<1>7. MutexExclusion'
  BY <1>1, <1>2, <1>6, MutexFields DEF MutexInv, MutexTypeOK, MutexExclusion, MutexIs
<1> QED BY <1>3, <1>4, <1>5, <1>7 DEF MutexInv

LEMMA MutexTransferInv ==
  ASSUME MutexInv, NEW t \in Threads, NEW u \in Threads, MutexTransfer(t, u)
  PROVE  MutexInv'
<1>1. object' = Updated([owner |-> u]) /\ UNCHANGED <<pc, call, waking>> /\ t # u
      /\ holds' = [holds EXCEPT ![t] = 0, ![u] = holds[t]]
      /\ pc[t] = "run" /\ pc[u] = "run" /\ object.owner = t
  BY DEF MutexTransfer, Running
<1>2. MutexIs(object', object.spin, object.held, u, object.locks, object.queue, object.waiters)
  BY <1>1, MutexSetOwner DEF MutexInv, MutexTypeOK
<1>3. MutexTypeOK'
  BY <1>1, <1>2 DEF MutexInv, MutexTypeOK, MutexIs
<1>4. MutexPlaces'
  BY <1>1, <1>2, MutexUnmoved DEF MutexIs
<1>5. MutexCalls' /\ MutexWaits'
  BY <1>1, <1>2 DEF MutexInv, MutexTypeOK, MutexIs, MutexCalls, MutexWaits
<1>6. \A v \in Threads : (HandedTo(v))' = HandedTo(v)
  BY <1>1, <1>2 DEF HandedTo, MutexIs
<1>7. object.kind = Mutex /\ call[t] = "none" /\ call[u] = "none"
  BY <1>1, MutexFields DEF MutexInv, MutexTypeOK, MutexCalls
<1>8. /\ holds[t] > 0 /\ holds'[u] = holds[t] /\ holds'[t] = 0
      /\ \A v \in Threads : v \notin {t, u} => holds'[v] = holds[v]
  BY <1>1, <1>7 DEF MutexInv, MutexTypeOK, MutexExclusion, HandedTo
<1>9. \A v \in Threads : v # t => holds[v] = 0 /\ ~HandedTo(v)
  BY <1>1, <1>7 DEF MutexInv, MutexTypeOK, MutexExclusion
<1>10. ~HandedTo(t) /\ object.held
  BY <1>1, <1>7, NoneNotThread DEF HandedTo, MutexInv, MutexExclusion
<1>11. MutexExclusion'
  <2>1. \A v \in Threads : (holds'[v] > 0 \/ (HandedTo(v))') <=> object'.owner = v
    <3> TAKE v \in Threads
    <3>1. CASE v = t
      BY <1>1, <1>2, <1>6, <1>8, <1>10, <3>1 DEF MutexIs
    <3>2. CASE v = u
      BY <1>1, <1>2, <1>8, <3>2 DEF MutexIs
    <3>3. CASE v \notin {t, u}
      BY <1>2, <1>6, <1>8, <1>9, <3>3 DEF MutexIs
    <3> QED BY <3>1, <3>2, <3>3
  <2>2. object'.held <=> object'.owner # None
    BY <1>2, <1>10, NoneNotThread DEF MutexIs
  <2>3. object'.type = "recursive" => object'.locks = holds'[object'.owner]
    BY <1>1, <1>2, <1>7, <1>8, NoneNotThread DEF MutexIs, MutexInv, MutexExclusion
  <2> QED BY <2>1, <2>2, <2>3 DEF MutexExclusion
<1> QED BY <1>3, <1>4, <1>5, <1>11 DEF MutexInv

LEMMA MutexLockBusyInv == ASSUME MutexInv, NEW t \in Threads, MutexLockBusy(t) PROVE MutexInv'
<1> DEFINE q == <<t>> \o object.queue
<1>1. /\ object' = Updated([queue |-> q]) /\ UNCHANGED <<waking, holds>>
      /\ pc' = [pc EXCEPT ![t] = "enqueued"] /\ call' = [call EXCEPT ![t] = "lock"]
      /\ pc[t] = "run" /\ object.held /\ object.owner # t
  BY DEF MutexLockBusy, Enqueue, Enqueued, MutexMustWait, Running
<1>2. t \notin Parked /\ Parked' = Parked \cup {t}
  BY <1>1 DEF Parked, MutexInv, MutexTypeOK
<1>3. Places(q, object.waiters, waking, Parked')
  BY <1>2, PlacesEnter DEF MutexInv, MutexPlaces
<1>4. q \in Seq(Threads) /\ ToSet(q) = ToSet(object.queue) \cup {t}
  BY <1>2, Enqueueing DEF MutexInv, MutexPlaces, Places, IsQueue
<1> HIDE DEF q
<1>5. MutexIs(object', object.spin, object.held, object.owner, object.locks, q, object.waiters)
  BY <1>1, <1>4, MutexSetQueue DEF MutexInv, MutexTypeOK
<1>6. MutexTypeOK'
  BY <1>1, <1>5 DEF MutexInv, MutexTypeOK, MutexIs
<1>7. MutexPlaces'
  BY <1>1, <1>3, <1>5 DEF MutexPlaces, MutexIs
<1>8. object.kind = Mutex /\ holds[t] = 0 /\ ~HandedTo(t)
  BY <1>1, MutexFields DEF MutexInv, MutexTypeOK, MutexExclusion
<1>9. t \notin ToSet(object.waiters)
  BY <1>2 DEF MutexInv, MutexPlaces, Places
<1>10. MutexCalls'
  BY <1>1, <1>4, <1>5, <1>8, <1>9 DEF MutexInv, MutexTypeOK, MutexIs, MutexCalls
<1>11. MutexWaits'
  BY <1>1, <1>5 DEF MutexInv, MutexIs, MutexWaits
<1>12. \A u \in Threads : (HandedTo(u))' = HandedTo(u)
  BY <1>1, <1>4, <1>5, <1>8 DEF HandedTo, MutexIs, MutexInv, MutexTypeOK
<1>13. MutexExclusion'
  BY <1>1, <1>5, <1>8, <1>12 DEF MutexInv, MutexExclusion, MutexIs
<1> QED BY <1>6, <1>7, <1>10, <1>11, <1>13 DEF MutexInv

LEMMA MutexLockResumedInv == ASSUME MutexInv, NEW t \in Threads, MutexLockResumed(t) PROVE MutexInv'
<1> DEFINE n == IF object.type = "recursive" THEN 1 ELSE object.locks
<1>1. /\ pc[t] = "resumed" /\ call[t] = "lock" /\ UNCHANGED waking
      /\ pc' = [pc EXCEPT ![t] = "run"] /\ call' = [call EXCEPT ![t] = "none"]
      /\ holds' = [holds EXCEPT ![t] = 1]
  BY DEF MutexLockResumed, Resumed, Return, Hold
<1>2. t \notin Parked /\ Parked' = Parked
  BY <1>1 DEF Parked, MutexInv, MutexTypeOK
<1>3. object.kind = Mutex /\ t \notin ToSet(object.queue) /\ t \notin ToSet(object.waiters)
  BY <1>2, MutexFields DEF MutexInv, MutexTypeOK, MutexPlaces, Places
<1>4. object.owner = t /\ object.held /\ HandedTo(t)
  BY <1>1, <1>3, NoneNotThread DEF MutexInv, MutexExclusion, HandedTo
<1>5. n \in Nat /\ object' = Updated([owner |-> t, locks |-> n])
  BY <1>4, MutexFields DEF MutexInv, MutexTypeOK, MutexLockResumed
<1>6. MutexIs(object', object.spin, object.held, t, n, object.queue, object.waiters)
  <2> HIDE DEF n
  <2> QED BY <1>5, MutexSetOwnerLocks DEF MutexInv, MutexTypeOK
<1>7. MutexTypeOK'
  BY <1>1, <1>6 DEF MutexInv, MutexTypeOK, MutexIs
<1>8. MutexPlaces'
  BY <1>1, <1>2, <1>6 DEF MutexInv, MutexPlaces, MutexIs
<1>9. MutexCalls' /\ MutexWaits'
  BY <1>1, <1>3, <1>6 DEF MutexInv, MutexTypeOK, MutexIs, MutexCalls, MutexWaits
<1>10. \A u \in Threads : u # t => holds'[u] = holds[u] /\ (HandedTo(u))' = HandedTo(u)
  BY <1>1, <1>6 DEF HandedTo, MutexIs, MutexInv, MutexTypeOK
<1>11. holds'[t] = 1
  BY <1>1 DEF MutexInv, MutexTypeOK
<1>12. MutexExclusion'
  BY <1>3, <1>4, <1>6, <1>10, <1>11, NoneNotThread DEF MutexInv, MutexExclusion, MutexIs
<1> QED BY <1>7, <1>8, <1>9, <1>12 DEF MutexInv

\* The last unlock, in pthread_mutex_unlock and in pthread_cond_wait.
LEMMA MutexReleased ==
  ASSUME MutexInv, NEW t \in Threads, waking[t] = <<>>, MutexRelease(t)
  PROVE  /\ object' \in MutexObject /\ object'.type = object.type /\ object'.locks = 0
         /\ object'.waiters = object.waiters
         /\ Places(object'.queue, object'.waiters, waking', Parked)
         /\ \A u \in Threads : u # t => waking'[u] = waking[u]
         /\ ToSet(object'.queue) = ToSet(object.queue) \ {object'.owner}
         /\ \/ object'.owner = None /\ ~object'.held /\ object'.queue = <<>>
            \/ object'.owner \in ToSet(object.queue) /\ object'.held
<1>1. waking' = [waking EXCEPT ![t] = First(object.queue)]
  BY DEF MutexRelease
<1>2. Places(object.queue, object.waiters, waking, Parked) /\ object \in MutexObject
  BY DEF MutexInv, MutexPlaces, MutexTypeOK
<1>3. \A u \in Threads : u # t => waking'[u] = waking[u]
  BY <1>1, <1>2 DEF Places
<1>4. CASE object.queue = <<>>
  <2>1. object' = Updated([held |-> FALSE, owner |-> None, locks |-> 0]) /\ waking' = waking
    BY <1>1, <1>2, <1>4 DEF MutexRelease, First, Places
  <2>2. MutexIs(object', object.spin, FALSE, None, 0, object.queue, object.waiters)
    BY <2>1, <1>2, MutexSetHeld
  <2>3. ToSet(object.queue) = {}
    BY <1>4, EmptyQueue
  <2> QED BY <1>2, <1>3, <1>4, <2>1, <2>2, <2>3 DEF MutexIs
<1>5. CASE object.queue # <<>>
  <2> DEFINE h == Head(object.queue)
             q == Tail(object.queue)
  <2>1. object' = Updated([owner |-> h, locks |-> 0, queue |-> q])
        /\ waking' = [waking EXCEPT ![t] = <<h>>]
    BY <1>1, <1>5 DEF MutexRelease, First
  <2>2. /\ h \in Threads /\ h \in ToSet(object.queue)
        /\ IsQueue(q, Threads) /\ ToSet(q) = ToSet(object.queue) \ {h}
    BY <1>2, <1>5, Dequeueing DEF Places
  <2>3. Places(q, object.waiters, waking', Parked)
    BY <1>2, <1>5, <2>1, PlacesTakeFirst
  <2>4. q \in Seq(Threads) /\ object.held
    BY <1>5, <2>2 DEF IsQueue, MutexInv, MutexWaits
  <2> HIDE DEF h, q
  <2>5. MutexIs(object', object.spin, object.held, h, 0, q, object.waiters)
    BY <1>2, <2>1, <2>2, <2>4, MutexSetHanded
  <2> QED BY <1>3, <2>2, <2>3, <2>4, <2>5 DEF MutexIs
<1> QED BY <1>4, <1>5

\* t gives up what it holds: nobody, or the first of the queue, has the mutex.
LEMMA MutexReleasedExclusion ==
  ASSUME MutexInv, NEW t \in Threads, waking[t] = <<>>, MutexRelease(t), object.owner = t,
         t \notin ToSet(object.queue), holds' = [holds EXCEPT ![t] = 0],
         call'[t] # "lock", \A u \in Threads : u # t => call'[u] = call[u]
  PROVE  MutexExclusion'
<1> DEFINE w == object'.owner
<1>1. /\ object'.kind = Mutex /\ object.kind = Mutex
      /\ object'.type = object.type /\ object'.locks = 0
      /\ ToSet(object'.queue) = ToSet(object.queue) \ {w}
      /\ \/ w = None /\ ~object'.held /\ object'.queue = <<>>
         \/ w \in ToSet(object.queue) /\ object'.held
  BY MutexReleased, MutexFields DEF MutexObject, MutexInv, MutexTypeOK
<1>2. holds'[t] = 0 /\ \A u \in Threads : u # t => holds'[u] = holds[u]
  BY DEF MutexInv, MutexTypeOK
<1>3. \A u \in Threads : u # t => holds[u] = 0 /\ ~HandedTo(u)
  BY <1>1 DEF MutexInv, MutexTypeOK, MutexExclusion
<1>4. \A u \in ToSet(object.queue) : u \in Threads /\ call[u] = "lock"
  BY QueueRange, MutexFields DEF MutexInv, MutexTypeOK, MutexCalls
<1>5. ASSUME NEW u \in Threads PROVE (HandedTo(u))' <=> w = u
  <2>1. CASE u = t
    BY <1>1, <2>1, NoneNotThread DEF HandedTo
  <2>2. CASE u # t
    BY <1>1, <1>3, <1>4, <2>2, NoneNotThread DEF HandedTo
  <2> QED BY <2>1, <2>2
<1>6. \A u \in Threads : holds'[u] = 0
  BY <1>2, <1>3
<1>7. w # None => w \in Threads
  BY <1>1, <1>4
<1>8. object'.held <=> w # None
  BY <1>1, <1>4, NoneNotThread
<1> QED BY <1>1, <1>5, <1>6, <1>7, <1>8 DEF MutexExclusion

LEMMA MutexUnlockInv == ASSUME MutexInv, NEW t \in Threads, MutexUnlock(t) PROVE MutexInv'
<1>1. /\ MutexRelease(t) /\ holds' = [holds EXCEPT ![t] = 0] /\ UNCHANGED <<pc, call>>
      /\ pc[t] = "run" /\ waking[t] = <<>> /\ object.owner = t
  BY DEF MutexUnlock, Running, Hold
<1>2. call[t] = "none" /\ t \notin ToSet(object.queue)
  BY <1>1 DEF MutexInv, MutexCalls
<1>3. MutexExclusion'
  BY <1>1, <1>2, MutexReleasedExclusion
<1>4. Parked' = Parked
  BY <1>1 DEF Parked
<1>5. MutexPlaces'
  BY <1>1, <1>4, MutexReleased DEF MutexPlaces
<1>6. MutexTypeOK'
  BY <1>1, MutexReleased DEF MutexInv, MutexTypeOK
<1>7. MutexCalls'
  BY <1>1, <1>2, MutexReleased DEF MutexInv, MutexTypeOK, MutexCalls
<1>8. MutexWaits'
  BY <1>1, MutexReleased DEF MutexWaits
<1> QED BY <1>3, <1>5, <1>6, <1>7, <1>8 DEF MutexInv

LEMMA CondWaitUnlockInv == ASSUME MutexInv, NEW t \in Threads, CondWaitUnlock(t) PROVE MutexInv'
<1>1. /\ MutexRelease(t) /\ holds' = [holds EXCEPT ![t] = 0] /\ pc[t] = "unlock"
      /\ pc' = [pc EXCEPT ![t] = "enqueued"] /\ call' = [call EXCEPT ![t] = "cond"]
  BY DEF CondWaitUnlock, Enqueued, Hold
<1>2. call[t] = "cond" /\ holds[t] = 1 /\ waking[t] = <<>> /\ t \notin ToSet(object.queue)
  BY <1>1 DEF MutexInv, MutexCalls
<1>3. object.owner = t /\ call' = call
  BY <1>1, <1>2, MutexFields DEF MutexInv, MutexTypeOK, MutexExclusion
<1>4. MutexExclusion'
  BY <1>1, <1>2, <1>3, MutexReleasedExclusion
<1>5. Parked' = Parked
  BY <1>1 DEF Parked, MutexInv, MutexTypeOK
<1>6. MutexPlaces'
  BY <1>1, <1>2, <1>5, MutexReleased DEF MutexPlaces
<1>7. MutexTypeOK'
  BY <1>1, <1>2, MutexReleased DEF MutexInv, MutexTypeOK
<1>8. MutexCalls'
  BY <1>1, <1>2, <1>3, MutexReleased DEF MutexInv, MutexTypeOK, MutexCalls
<1>9. MutexWaits'
  BY <1>1, <1>2, MutexReleased DEF MutexWaits
<1> QED BY <1>4, <1>6, <1>7, <1>8, <1>9 DEF MutexInv

LEMMA CondWaitInv == ASSUME MutexInv, NEW t \in Threads, CondWait(t) PROVE MutexInv'
<1> DEFINE q == <<t>> \o object.waiters
<1>1. /\ object' = Updated([waiters |-> q]) /\ UNCHANGED <<waking, holds>>
      /\ pc' = [pc EXCEPT ![t] = "unlock"] /\ call' = [call EXCEPT ![t] = "cond"]
      /\ pc[t] = "run" /\ waking[t] = <<>> /\ object.owner = t /\ holds[t] = 1
  BY DEF CondWait, Enqueue, Running
<1>2. t \notin Parked /\ Parked' = Parked \cup {t}
  BY <1>1 DEF Parked, MutexInv, MutexTypeOK
<1>3. Places(object.queue, q, waking, Parked')
  BY <1>2, PlacesEnter, PlacesSwap DEF MutexInv, MutexPlaces
<1>4. q \in Seq(Threads) /\ ToSet(q) = ToSet(object.waiters) \cup {t} /\ t \notin ToSet(object.queue)
  BY <1>2, Enqueueing DEF MutexInv, MutexPlaces, Places, IsQueue
<1> HIDE DEF q
<1>5. MutexIs(object', object.spin, object.held, object.owner, object.locks, object.queue, q)
  BY <1>1, <1>4, MutexSetWaiters DEF MutexInv, MutexTypeOK
<1>6. MutexTypeOK'
  BY <1>1, <1>5 DEF MutexInv, MutexTypeOK, MutexIs
<1>7. MutexPlaces'
  BY <1>1, <1>3, <1>5 DEF MutexPlaces, MutexIs
<1>8. MutexCalls'
  BY <1>1, <1>4, <1>5 DEF MutexInv, MutexTypeOK, MutexIs, MutexCalls
<1>9. MutexWaits'
  BY <1>1, <1>5 DEF MutexInv, MutexIs, MutexWaits
<1>10. object.kind = Mutex /\ call[t] = "none"
  BY <1>1, MutexFields DEF MutexInv, MutexTypeOK, MutexCalls
<1>11. \A u \in Threads : (HandedTo(u))' = HandedTo(u)
  BY <1>1, <1>5, <1>10 DEF HandedTo, MutexIs, MutexInv, MutexTypeOK
<1>12. MutexExclusion'
  BY <1>1, <1>5, <1>10, <1>11 DEF MutexInv, MutexExclusion, MutexIs
<1> QED BY <1>6, <1>7, <1>8, <1>9, <1>12 DEF MutexInv

LEMMA CondWaitResumedInv == ASSUME MutexInv, NEW t \in Threads, CondWaitResumed(t) PROVE MutexInv'
<1>1. pc[t] = "resumed" /\ call[t] = "cond" /\ UNCHANGED waking
  BY DEF CondWaitResumed, Resumed
<1>2. t \notin Parked /\ waking[t] = <<>> /\ holds[t] = 0
  BY <1>1 DEF Parked, MutexInv, MutexCalls
<1>3. object.kind = Mutex /\ t \notin ToSet(object.queue) /\ t \notin ToSet(object.waiters)
      /\ ~HandedTo(t)
  BY <1>1, <1>2, MutexFields DEF MutexInv, MutexTypeOK, MutexPlaces, Places, HandedTo
<1>4. object.owner # t
  BY <1>2, <1>3 DEF MutexInv, MutexExclusion
<1>5. CASE object.held
  <2> DEFINE q == <<t>> \o object.queue
  <2>1. /\ object' = Updated([queue |-> q]) /\ UNCHANGED holds
        /\ pc' = [pc EXCEPT ![t] = "enqueued"] /\ call' = [call EXCEPT ![t] = "lock"]
    BY <1>5 DEF CondWaitResumed, Enqueue, Enqueued
  <2>2. Parked' = Parked \cup {t}
    BY <2>1 DEF Parked, MutexInv, MutexTypeOK
  <2>3. Places(q, object.waiters, waking, Parked')
    BY <1>2, <2>2, PlacesEnter DEF MutexInv, MutexPlaces
  <2>4. q \in Seq(Threads) /\ ToSet(q) = ToSet(object.queue) \cup {t}
    BY <1>3, Enqueueing DEF MutexInv, MutexPlaces, Places, IsQueue
  <2> HIDE DEF q
  <2>5. MutexIs(object', object.spin, object.held, object.owner, object.locks, q, object.waiters)
    BY <2>1, <2>4, MutexSetQueue DEF MutexInv, MutexTypeOK
  <2>6. MutexTypeOK'
    BY <2>1, <2>5 DEF MutexInv, MutexTypeOK, MutexIs
  <2>7. MutexPlaces'
    BY <1>1, <2>3, <2>5 DEF MutexPlaces, MutexIs
  <2>8. MutexCalls'
    BY <1>1, <1>2, <1>3, <2>1, <2>4, <2>5 DEF MutexInv, MutexTypeOK, MutexIs, MutexCalls
  <2>9. MutexWaits'
    BY <1>5, <2>1, <2>5 DEF MutexInv, MutexIs, MutexWaits
  <2>10. \A u \in Threads : (HandedTo(u))' = HandedTo(u)
    BY <1>3, <2>1, <2>4, <2>5 DEF HandedTo, MutexIs, MutexInv, MutexTypeOK
  <2>11. MutexExclusion'
    BY <1>3, <2>1, <2>5, <2>10 DEF MutexInv, MutexExclusion, MutexIs
  <2> QED BY <2>6, <2>7, <2>8, <2>9, <2>11 DEF MutexInv
<1>6. CASE ~object.held
  <2> DEFINE n == IF object.type = "recursive" THEN 1 ELSE object.locks
  <2>1. /\ n \in Nat /\ object' = Updated([held |-> TRUE, owner |-> t, locks |-> n])
        /\ holds' = [holds EXCEPT ![t] = 1]
        /\ pc' = [pc EXCEPT ![t] = "run"] /\ call' = [call EXCEPT ![t] = "none"]
    BY <1>6, MutexFields DEF MutexInv, MutexTypeOK, CondWaitResumed, Taken, Hold, Return
  <2>2. MutexIs(object', object.spin, TRUE, t, n, object.queue, object.waiters)
    <3> HIDE DEF n
    <3> QED BY <2>1, MutexSetHeld DEF MutexInv, MutexTypeOK
  <2>3. Parked' = Parked
    BY <1>1, <2>1 DEF Parked, MutexInv, MutexTypeOK
  <2>4. MutexPlaces'
    BY <1>1, <2>2, <2>3 DEF MutexInv, MutexPlaces, MutexIs
  <2>5. MutexTypeOK'
    BY <2>1, <2>2 DEF MutexInv, MutexTypeOK, MutexIs
  <2>6. MutexCalls' /\ MutexWaits'
    BY <1>1, <1>3, <2>1, <2>2 DEF MutexInv, MutexTypeOK, MutexIs, MutexCalls, MutexWaits
  <2>7. object.owner = None
    BY <1>3, <1>6 DEF MutexInv, MutexExclusion
  <2>8. \A u \in Threads : ~(holds[u] > 0) /\ ~HandedTo(u)
    BY <1>3, <2>7, NoneNotThread DEF MutexInv, MutexExclusion
  <2>9. holds'[t] = 1 /\ \A u \in Threads : u # t => ~(holds'[u] > 0) /\ ~(HandedTo(u))'
    BY <2>1, <2>2, <2>8 DEF MutexInv, MutexTypeOK, MutexIs, HandedTo
  <2>10. MutexExclusion'
    BY <2>2, <2>9, NoneNotThread DEF MutexExclusion, MutexIs
  <2> QED BY <2>4, <2>5, <2>6, <2>10 DEF MutexInv
<1> QED BY <1>5, <1>6

LEMMA CondWakeInv ==
  ASSUME MutexInv, NEW t \in Threads, NEW woken, NEW left, CondWake(t, woken, left),
         IsQueue(left, Threads), ToSet(left) \subseteq ToSet(object.waiters),
         Places(left, object.queue, [waking EXCEPT ![t] = woken], Parked)
  PROVE  MutexInv'
<1>1. /\ object' = Updated([waiters |-> left]) /\ waking' = [waking EXCEPT ![t] = woken]
      /\ UNCHANGED <<pc, call, holds>> /\ pc[t] = "run"
  BY DEF CondWake, Running
<1>2. MutexIs(object', object.spin, object.held, object.owner, object.locks, object.queue, left)
  BY <1>1, MutexSetWaiters DEF MutexInv, MutexTypeOK, IsQueue
<1>3. MutexTypeOK'
  BY <1>1, <1>2 DEF MutexInv, MutexTypeOK, MutexIs
<1>4. Parked' = Parked
  BY <1>1 DEF Parked
<1>5. MutexPlaces'
  BY <1>1, <1>2, <1>4, PlacesSwap DEF MutexPlaces, MutexIs
<1>6. \A u \in Threads : u # t => waking'[u] = waking[u]
  BY <1>1 DEF MutexInv, MutexPlaces, Places
<1>7. MutexCalls'
  BY <1>1, <1>2, <1>6 DEF MutexInv, MutexTypeOK, MutexIs, MutexCalls
<1>8. MutexWaits'
  BY <1>2 DEF MutexInv, MutexIs, MutexWaits
<1>9. \A u \in Threads : (HandedTo(u))' = HandedTo(u)
  BY <1>1, <1>2 DEF HandedTo, MutexIs
<1>10. MutexExclusion'
  BY <1>1, <1>2, <1>9, MutexFields DEF MutexInv, MutexTypeOK, MutexExclusion, MutexIs
<1> QED BY <1>3, <1>5, <1>7, <1>8, <1>10 DEF MutexInv

LEMMA CondSignalInv ==
  ASSUME MutexInv, NEW t \in Threads, CondSignal(t) \/ CondBroadcast(t)
  PROVE  MutexInv'
<1>1. Places(object.waiters, object.queue, waking, Parked)
  BY PlacesSwap DEF MutexInv, MutexPlaces
<1>2. waking[t] = <<>> /\ object.waiters # <<>>
  BY DEF CondSignal, CondBroadcast, CondWake, Running
<1>3. CASE CondSignal(t)
  <2> DEFINE left == Tail(object.waiters)
             woken == <<Head(object.waiters)>>
  <2>1. CondWake(t, woken, left)
    BY <1>2, <1>3 DEF CondSignal, First, Others
  <2>2. IsQueue(left, Threads) /\ ToSet(left) \subseteq ToSet(object.waiters)
    <3>1. IsQueue(object.waiters, Threads)
      BY <1>1 DEF Places
    <3> QED BY <1>2, <3>1, Dequeueing
  <2>3. Places(left, object.queue, [waking EXCEPT ![t] = woken], Parked)
    BY <1>1, <1>2, PlacesTakeFirst
  <2> HIDE DEF left, woken
  <2> QED BY <2>1, <2>2, <2>3, CondWakeInv
<1>4. CASE CondBroadcast(t)
  <2>1. IsQueue(<<>>, Threads) /\ ToSet(<<>>) \subseteq ToSet(object.waiters)
    BY EmptyQueue
  <2>2. Places(<<>>, object.queue, [waking EXCEPT ![t] = object.waiters], Parked)
    BY <1>1, <1>2, PlacesTakeAll
  <2> QED BY <1>4, <2>1, <2>2, CondWakeInv DEF CondBroadcast
<1> QED BY <1>3, <1>4

LEMMA MutexBlockInv == ASSUME MutexInv, NEW t \in Threads, Block(t) PROVE MutexInv'
<1>1. /\ pc[t] = "enqueued" /\ waking[t] = <<>> /\ pc' = [pc EXCEPT ![t] = "asleep"]
      /\ UNCHANGED <<object, call, waking, holds>>
  BY DEF Block
<1>2. Parked' = Parked
  BY <1>1 DEF Parked, MutexInv, MutexTypeOK
<1>3. MutexTypeOK' /\ MutexPlaces' /\ MutexWaits'
  BY <1>1, <1>2 DEF MutexInv, MutexTypeOK, MutexPlaces, MutexWaits
<1>4. MutexCalls'
  BY <1>1 DEF MutexInv, MutexTypeOK, MutexCalls
<1>5. MutexExclusion'
  BY <1>1 DEF MutexInv, MutexExclusion, HandedTo
<1> QED BY <1>3, <1>4, <1>5 DEF MutexInv

LEMMA MutexWakeupInv == ASSUME MutexInv, NEW t \in Threads, Wakeup(t) PROVE MutexInv'
<1> DEFINE u == Head(waking[t])
<1>1. /\ waking[t] # <<>> /\ pc[u] = "asleep" /\ pc' = [pc EXCEPT ![u] = "resumed"]
      /\ waking' = [waking EXCEPT ![t] = Tail(waking[t])] /\ UNCHANGED <<object, call, holds>>
  BY DEF Wakeup
<1>2. u \in Threads /\ Places(object.queue, object.waiters, waking', Parked \ {u})
  BY <1>1, PlacesWake DEF MutexInv, MutexPlaces
<1> HIDE DEF u
<1>3. Parked' = Parked \ {u}
  BY <1>1, <1>2 DEF Parked, MutexInv, MutexTypeOK
<1>4. MutexTypeOK' /\ MutexPlaces' /\ MutexWaits'
  BY <1>1, <1>2, <1>3 DEF MutexInv, MutexTypeOK, MutexPlaces, MutexWaits
<1>5. \A v \in Threads : v # t => waking'[v] = waking[v]
  BY <1>1 DEF MutexInv, MutexPlaces, Places
<1>6. MutexCalls'
  BY <1>1, <1>2, <1>5 DEF MutexInv, MutexTypeOK, MutexCalls
<1>7. MutexExclusion'
  BY <1>1 DEF MutexInv, MutexExclusion, HandedTo
<1> QED BY <1>4, <1>6, <1>7 DEF MutexInv

\* No other object's functions are called on a mutex.
LEMMA MutexStepInv == MutexInv /\ [Next]_vars => MutexInv'
<1> SUFFICES ASSUME MutexInv, [Next]_vars PROVE MutexInv'
  OBVIOUS
<1>1. object.kind = Mutex /\ \A t \in Threads : pc[t] \notin {"oncelock", "onceinit"}
  BY MutexFields DEF MutexInv, MutexTypeOK
<1>2. ~RwlockNext /\ ~SemNext /\ ~LifeNext
  BY <1>1, NotRwlockStep, NotSemStep, NotLifeStep DEF Mutex, Rwlock, Sem, Barrier, Once, Life
<1>3. ASSUME UNCHANGED vars PROVE MutexInv'
  <2>1. Parked' = Parked
    BY <1>3 DEF Parked, vars
  <2>2. MutexTypeOK' /\ MutexPlaces' /\ MutexWaits' /\ MutexCalls'
    BY <1>3, <2>1 DEF vars, MutexInv, MutexTypeOK, MutexPlaces, MutexWaits, MutexCalls
  <2>3. MutexExclusion'
    BY <1>3 DEF vars, MutexInv, MutexExclusion, HandedTo
  <2> QED BY <2>2, <2>3 DEF MutexInv
<1>4. CASE MutexNext
  BY <1>3, <1>4, MutexLockFreeInv, MutexLockAgainInv, MutexLockBusyInv, MutexTimedlockInvalidInv,
     MutexLockResumedInv, MutexUnlockInnerInv, MutexUnlockInv, MutexTransferInv, CondWaitInv,
     CondWaitUnlockInv, CondWaitResumedInv, CondSignalInv DEF MutexNext, MutexBusy
<1> QED BY <1>2, <1>3, <1>4, MutexBlockInv, MutexWakeupInv DEF Next

-----------------------------------------------------------------------------
(***************************************************************************)
(* Readers-writer locks.                                                   *)
(***************************************************************************)
RwlockObject ==
    [kind : {Rwlock}, spin : BOOLEAN, held : BOOLEAN, readers : Nat,
     readerqueue : Seq(Threads), writerqueue : Seq(Threads)]

RwlockTypeOK ==
    /\ object \in RwlockObject
    /\ pc \in [Threads -> {"run", "enqueued", "asleep", "resumed"}]
    /\ call \in [Threads -> {"none", "read", "write"}]
    /\ holds \in [Threads -> {"no", "read", "write"}]

RwlockCalls ==
    \A t \in Threads :
        /\ pc[t] # "run" => waking[t] = <<>>
        /\ pc[t] = "run" <=> call[t] = "none"
        /\ call[t] # "none" => holds[t] = "no"
        /\ t \in ToSet(object.readerqueue) => call[t] = "read"
        /\ t \in ToSet(object.writerqueue) => call[t] = "write"

RwlockPlaces == Places(object.readerqueue, object.writerqueue, waking, Parked)

RwlockWaits ==
    /\ object.readerqueue # <<>> => object.held /\ object.readers = 0
    /\ object.writerqueue # <<>> => object.held

RwlockInv == RwlockTypeOK /\ RwlockPlaces /\ RwlockCalls /\ RwlockExclusion /\ RwlockWaits

LEMMA RwlockFields ==
  ASSUME object \in RwlockObject
  PROVE  /\ object.kind = Rwlock /\ object.readers \in Nat
         /\ object.held \in BOOLEAN /\ object.spin \in BOOLEAN
         /\ object.readerqueue \in Seq(Threads) /\ object.writerqueue \in Seq(Threads)
BY DEF RwlockObject

RwlockIs(o, s, h, n, r, w) ==
    /\ o \in RwlockObject /\ o.spin = s /\ o.held = h
    /\ o.readers = n /\ o.readerqueue = r /\ o.writerqueue = w

LEMMA RwlockSetSpin ==
  ASSUME object \in RwlockObject, NEW s \in BOOLEAN,
         object' = Updated([spin |-> s])
  PROVE  RwlockIs(object', s, object.held, object.readers, object.readerqueue, object.writerqueue)
BY DEF RwlockObject, RwlockIs, Updated, With

LEMMA RwlockSetHeld ==
  ASSUME object \in RwlockObject, NEW h \in BOOLEAN,
         object' = Updated([held |-> h])
  PROVE  RwlockIs(object', object.spin, h, object.readers, object.readerqueue, object.writerqueue)
BY DEF RwlockObject, RwlockIs, Updated, With

LEMMA RwlockSetReaders ==
  ASSUME object \in RwlockObject, NEW n \in Nat,
         object' = Updated([readers |-> n])
  PROVE  RwlockIs(object', object.spin, object.held, n, object.readerqueue, object.writerqueue)
BY DEF RwlockObject, RwlockIs, Updated, With

LEMMA RwlockSetHeldReaders ==
  ASSUME object \in RwlockObject, NEW h \in BOOLEAN, NEW n \in Nat,
         object' = Updated([held |-> h, readers |-> n])
  PROVE  RwlockIs(object', object.spin, h, n, object.readerqueue, object.writerqueue)
BY DEF RwlockObject, RwlockIs, Updated, With

LEMMA RwlockSetReaderQueue ==
  ASSUME object \in RwlockObject, NEW q \in Seq(Threads),
         object' = Updated([readerqueue |-> q])
  PROVE  RwlockIs(object', object.spin, object.held, object.readers, q, object.writerqueue)
BY DEF RwlockObject, RwlockIs, Updated, With

LEMMA RwlockSetWriterQueue ==
  ASSUME object \in RwlockObject, NEW q \in Seq(Threads),
         object' = Updated([writerqueue |-> q])
  PROVE  RwlockIs(object', object.spin, object.held, object.readers, object.readerqueue, q)
BY DEF RwlockObject, RwlockIs, Updated, With

LEMMA RwlockSetWakeReaders ==
  ASSUME object \in RwlockObject, NEW n \in Nat, NEW q \in Seq(Threads),
         object' = Updated([readers |-> n, readerqueue |-> q])
  PROVE  RwlockIs(object', object.spin, object.held, n, q, object.writerqueue)
BY DEF RwlockObject, RwlockIs, Updated, With

LEMMA RwlockSetWakeWriter ==
  ASSUME object \in RwlockObject, NEW n \in Nat, NEW q \in Seq(Threads),
         object' = Updated([readers |-> n, writerqueue |-> q])
  PROVE  RwlockIs(object', object.spin, object.held, n, object.readerqueue, q)
BY DEF RwlockObject, RwlockIs, Updated, With

LEMMA HasFinite ==
  ASSUME NEW mode
  PROVE  /\ IsFiniteSet(Has(mode)) /\ Cardinality(Has(mode)) \in Nat
         /\ Cardinality(Has(mode)) = 0 <=> Has(mode) = {}
<1>1. Has(mode) \subseteq Threads
  BY DEF Has
<1>2. IsFiniteSet(Has(mode))
  BY <1>1, ThreadsFinite, FS_Subset
<1> QED BY <1>2, FS_CardinalityType, FS_EmptySet

LEMMA RwlockInitInv ==
  ASSUME RwlockInit, pc = [t \in Threads |-> "run"], call = [t \in Threads |-> "none"],
         waking = [t \in Threads |-> <<>>]
  PROVE  RwlockInv
<1>1. RwlockTypeOK
  <2>1. object \in RwlockObject
    BY DEF RwlockInit, RwlockObject
  <2> QED BY <2>1 DEF RwlockInit, RwlockTypeOK
<1>2. /\ object.readerqueue = <<>> /\ object.writerqueue = <<>>
      /\ object.readers = 0 /\ ~object.held
      /\ holds = [t \in Threads |-> "no"]
  BY DEF RwlockInit
<1>3. IsQueue(<<>>, Threads) /\ ToSet(<<>>) = {}
  BY EmptyQueue
<1>4. RwlockPlaces
  BY <1>2, <1>3 DEF RwlockPlaces, Places, Parked, IsQueue
<1>5. RwlockCalls /\ RwlockWaits
  BY <1>2, <1>3 DEF RwlockCalls, RwlockWaits
<1>6. Has("read") = {} /\ Has("write") = {}
  BY <1>2 DEF Has
<1>7. Cardinality(Has("read")) = 0 /\ Cardinality(Has("write")) = 0
  BY <1>6, HasFinite
<1>8. RwlockExclusion
  BY <1>2, <1>6, <1>7 DEF RwlockExclusion
<1> QED BY <1>1, <1>4, <1>5, <1>8 DEF RwlockInv

\* What the counts of RwlockExclusion say about who has the lock.
LEMMA HasFacts ==
  ASSUME RwlockInv
  PROVE  /\ object.kind = Rwlock /\ object.readers \in Nat
         /\ object.readers = 0 <=> Has("read") = {}
         /\ object.readers = Cardinality(Has("read"))
         /\ Has("write") # {} => Has("read") = {}
         /\ object.held <=> Has("read") \cup Has("write") # {}
         /\ \A t, u \in Has("write") : t = u
<1>1. object.kind = Rwlock /\ object.readers \in Nat
  BY RwlockFields DEF RwlockInv, RwlockTypeOK
<1>2. /\ Cardinality(Has("write")) <= 1 /\ object.readers = Cardinality(Has("read"))
      /\ Has("write") # {} => Has("read") = {}
      /\ object.held <=> Has("read") \cup Has("write") # {}
  BY <1>1 DEF RwlockInv, RwlockExclusion
<1>3. object.readers = 0 <=> Has("read") = {}
  BY <1>2, HasFinite
<1>4. ASSUME NEW t \in Has("write"), NEW u \in Has("write") PROVE t = u
  <2>1. Cardinality(Has("write")) = 1 /\ IsFiniteSet(Has("write"))
    BY <1>2, HasFinite
  <2>2. PICK x : Has("write") = {x}
    BY <2>1, FS_Singleton
  <2> QED BY <2>2
<1> QED BY <1>1, <1>2, <1>3, <1>4

\* The other way: who has the lock after a step.
LEMMA HasExclusion ==
  ASSUME object' \in RwlockObject,
         object'.readers = Cardinality(Has("read")'),
         Has("write")' # {} => Has("read")' = {},
         Has("write")' = {} \/ \E t : Has("write")' = {t},
         object'.held <=> Has("read")' \cup Has("write")' # {}
  PROVE  RwlockExclusion'
<1> DEFINE H == Has("write")'
<1>1. H = {} \/ \E t : H = {t}
  OBVIOUS
<1> HIDE DEF H
<1>2. CASE H = {}
  <2>1. Cardinality({}) = 0
    BY FS_EmptySet
  <2>2. Cardinality(H) <= 1
    BY <1>2, <2>1
  <2> QED BY <2>2 DEF RwlockExclusion, H
<1>3. CASE \E t : H = {t}
  <2>1. PICK t : H = {t}
    BY <1>3
  <2>2. Cardinality({t}) = 1
    BY FS_Singleton
  <2>3. Cardinality(H) <= 1
    BY <2>1, <2>2
  <2> QED BY <2>3 DEF RwlockExclusion, H
<1> QED BY <1>1, <1>2, <1>3

\* A step that leaves the queues and the sleepers alone.
LEMMA RwlockUnmoved ==
  ASSUME RwlockInv, UNCHANGED <<pc, call, waking>>,
         object'.readerqueue = object.readerqueue, object'.writerqueue = object.writerqueue
  PROVE  RwlockPlaces'
<1>1. Parked' = Parked
  BY DEF Parked
<1> QED BY <1>1 DEF RwlockInv, RwlockPlaces

LEMMA RdlockInv == ASSUME RwlockInv, NEW t \in Threads, Rdlock(t) PROVE RwlockInv'
<1>1. /\ pc[t] = "run" /\ waking[t] = <<>> /\ holds[t] = "no"
      /\ ~object.held \/ object.readers > 0
      /\ object' = Updated([held |-> TRUE, readers |-> object.readers + 1])
      /\ holds' = [holds EXCEPT ![t] = "read"]
      /\ UNCHANGED <<pc, call, waking>>
  BY DEF Rdlock, MayLock, Running, Given
<1>2. object \in RwlockObject /\ object.readers + 1 \in Nat
  BY RwlockFields DEF RwlockInv, RwlockTypeOK
<1>3. RwlockIs(object', object.spin, TRUE, object.readers + 1, object.readerqueue, object.writerqueue)
  <2> DEFINE n == object.readers + 1
  <2>1. n \in Nat /\ object' = Updated([held |-> TRUE, readers |-> n])
    BY <1>1, <1>2
  <2> HIDE DEF n
  <2>2. RwlockIs(object', object.spin, TRUE, n, object.readerqueue, object.writerqueue)
    BY <1>2, <2>1, RwlockSetHeldReaders
  <2> QED BY <2>2 DEF n
<1>4. RwlockTypeOK'
  BY <1>1, <1>3 DEF RwlockInv, RwlockTypeOK, RwlockIs
<1>5. RwlockPlaces'
  BY <1>1, <1>3, RwlockUnmoved DEF RwlockIs
<1>6. call[t] = "none" /\ t \notin Has("read") /\ t \notin Has("write")
  BY <1>1 DEF RwlockInv, RwlockCalls, Has
<1>7. RwlockCalls'
  BY <1>1, <1>3, <1>6 DEF RwlockInv, RwlockTypeOK, RwlockCalls, RwlockIs
<1>8. Has("write") = {} /\ object.readers = Cardinality(Has("read"))
  BY <1>1, <1>2, HasFacts
<1>9. Has("read")' = Has("read") \cup {t} /\ Has("write")' = {}
  BY <1>1, <1>3, <1>6, <1>8 DEF RwlockInv, RwlockTypeOK, Has, RwlockIs
<1>10. Cardinality(Has("read") \cup {t}) = object.readers + 1
  BY <1>6, <1>8, HasFinite, FS_AddElement
<1>11. RwlockExclusion'
  BY <1>3, <1>9, <1>10, HasExclusion DEF RwlockIs
<1>12. RwlockWaits'
  BY <1>1, <1>2, <1>3 DEF RwlockInv, RwlockWaits, RwlockIs
<1> QED BY <1>4, <1>5, <1>7, <1>11, <1>12 DEF RwlockInv

LEMMA WrlockInv == ASSUME RwlockInv, NEW t \in Threads, Wrlock(t) PROVE RwlockInv'
<1>1. /\ pc[t] = "run" /\ waking[t] = <<>> /\ holds[t] = "no"
      /\ ~object.held
      /\ object' = Updated([held |-> TRUE])
      /\ holds' = [holds EXCEPT ![t] = "write"]
      /\ UNCHANGED <<pc, call, waking>>
  BY DEF Wrlock, MayLock, Running, Given
<1>2. object \in RwlockObject
  BY DEF RwlockInv, RwlockTypeOK
<1>3. RwlockIs(object', object.spin, TRUE, object.readers, object.readerqueue, object.writerqueue)
  BY <1>1, <1>2, RwlockSetHeld
<1>4. RwlockTypeOK'
  BY <1>1, <1>3 DEF RwlockInv, RwlockTypeOK, RwlockIs
<1>5. RwlockPlaces'
  BY <1>1, <1>3, RwlockUnmoved DEF RwlockIs
<1>6. call[t] = "none"
  BY <1>1 DEF RwlockInv, RwlockCalls
<1>7. RwlockCalls'
  BY <1>1, <1>3, <1>6 DEF RwlockInv, RwlockTypeOK, RwlockCalls, RwlockIs
<1>8. Has("write") = {} /\ Has("read") = {} /\ object.readers = Cardinality(Has("read"))
  BY <1>1, HasFacts
<1>9. Has("read")' = {} /\ Has("write")' = {t}
  BY <1>1, <1>3, <1>6, <1>8 DEF RwlockInv, RwlockTypeOK, Has, RwlockIs
<1>10. RwlockExclusion'
  BY <1>3, <1>8, <1>9, HasExclusion DEF RwlockIs
<1>11. RwlockWaits'
  BY <1>1, <1>2, <1>3 DEF RwlockInv, RwlockWaits, RwlockIs
<1> QED BY <1>4, <1>5, <1>7, <1>10, <1>11 DEF RwlockInv

\* A step that takes the lock from nobody and gives it to nobody.
LEMMA HasUnchanged ==
  ASSUME RwlockInv, Has("read")' = Has("read"), Has("write")' = Has("write"),
         object' \in RwlockObject, object'.held = object.held, object'.readers = object.readers
  PROVE  RwlockExclusion'
BY RwlockFields DEF RwlockInv, RwlockTypeOK, RwlockExclusion

LEMMA RdlockBusyInv == ASSUME RwlockInv, NEW t \in Threads, RdlockBusy(t) PROVE RwlockInv'
<1> DEFINE q == <<t>> \o object.readerqueue
<1>1. /\ pc[t] = "run" /\ waking[t] = <<>> /\ holds[t] = "no"
      /\ object.held /\ object.readers = 0
      /\ object' = Updated([readerqueue |-> q])
      /\ pc' = [pc EXCEPT ![t] = "enqueued"] /\ call' = [call EXCEPT ![t] = "read"]
      /\ UNCHANGED <<holds, waking>>
  BY DEF RdlockBusy, MayLock, Running, RdlockMustWait, Enqueue, Enqueued
<1>2. /\ object \in RwlockObject /\ t \notin Parked
      /\ Places(object.readerqueue, object.writerqueue, waking, Parked)
  BY <1>1 DEF RwlockInv, RwlockTypeOK, Parked, RwlockPlaces
<1>3. Places(q, object.writerqueue, waking, Parked \cup {t})
  BY <1>2, PlacesEnter
<1>4. t \notin ToSet(object.readerqueue) /\ t \notin ToSet(object.writerqueue)
  BY <1>2 DEF Places
<1>5. IsQueue(q, Threads) /\ ToSet(q) = ToSet(object.readerqueue) \cup {t}
  BY <1>2, <1>4, Enqueueing DEF Places
<1> HIDE DEF q
<1>6. RwlockIs(object', object.spin, object.held, object.readers, q, object.writerqueue)
  BY <1>1, <1>2, <1>5, RwlockSetReaderQueue DEF IsQueue
<1>7. Parked' = Parked \cup {t}
  BY <1>1 DEF Parked, RwlockInv, RwlockTypeOK
<1>8. RwlockTypeOK' /\ RwlockPlaces' /\ RwlockWaits'
  BY <1>1, <1>3, <1>6, <1>7 DEF RwlockInv, RwlockTypeOK, RwlockPlaces, RwlockWaits, RwlockIs
<1>9. RwlockCalls'
  BY <1>1, <1>4, <1>5, <1>6 DEF RwlockInv, RwlockTypeOK, RwlockCalls, RwlockIs
<1>10. call[t] = "none"
  BY <1>1 DEF RwlockInv, RwlockCalls
<1>11. Has("read")' = Has("read") /\ Has("write")' = Has("write")
  BY <1>1, <1>5, <1>6, <1>10 DEF RwlockInv, RwlockTypeOK, Has, RwlockIs
<1>12. RwlockExclusion'
  BY <1>6, <1>11, HasUnchanged DEF RwlockIs
<1> QED BY <1>8, <1>9, <1>12 DEF RwlockInv

LEMMA WrlockBusyInv == ASSUME RwlockInv, NEW t \in Threads, WrlockBusy(t) PROVE RwlockInv'
<1> DEFINE q == <<t>> \o object.writerqueue
<1>1. /\ pc[t] = "run" /\ waking[t] = <<>> /\ holds[t] = "no" /\ object.held
      /\ object' = Updated([writerqueue |-> q])
      /\ pc' = [pc EXCEPT ![t] = "enqueued"] /\ call' = [call EXCEPT ![t] = "write"]
      /\ UNCHANGED <<holds, waking>>
  BY DEF WrlockBusy, MayLock, Running, Enqueue, Enqueued
<1>2. /\ object \in RwlockObject /\ t \notin Parked
      /\ Places(object.writerqueue, object.readerqueue, waking, Parked)
  BY <1>1, PlacesSwap DEF RwlockInv, RwlockTypeOK, Parked, RwlockPlaces
<1>3. Places(object.readerqueue, q, waking, Parked \cup {t})
  BY <1>2, PlacesEnter, PlacesSwap
<1>4. t \notin ToSet(object.readerqueue) /\ t \notin ToSet(object.writerqueue)
  BY <1>2 DEF Places
<1>5. IsQueue(q, Threads) /\ ToSet(q) = ToSet(object.writerqueue) \cup {t}
  BY <1>2, <1>4, Enqueueing DEF Places
<1> HIDE DEF q
<1>6. RwlockIs(object', object.spin, object.held, object.readers, object.readerqueue, q)
  BY <1>1, <1>2, <1>5, RwlockSetWriterQueue DEF IsQueue
<1>7. Parked' = Parked \cup {t}
  BY <1>1 DEF Parked, RwlockInv, RwlockTypeOK
<1>8. RwlockTypeOK' /\ RwlockPlaces' /\ RwlockWaits'
  BY <1>1, <1>3, <1>6, <1>7 DEF RwlockInv, RwlockTypeOK, RwlockPlaces, RwlockWaits, RwlockIs
<1>9. RwlockCalls'
  BY <1>1, <1>4, <1>5, <1>6 DEF RwlockInv, RwlockTypeOK, RwlockCalls, RwlockIs
<1>10. call[t] = "none"
  BY <1>1 DEF RwlockInv, RwlockCalls
<1>11. Has("read")' = Has("read") /\ Has("write")' = Has("write")
  BY <1>1, <1>5, <1>6, <1>10 DEF RwlockInv, RwlockTypeOK, Has, RwlockIs
<1>12. RwlockExclusion'
  BY <1>6, <1>11, HasUnchanged DEF RwlockIs
<1> QED BY <1>8, <1>9, <1>12 DEF RwlockInv

LEMMA RwlockTimedlockInvalidInv ==
  ASSUME RwlockInv, NEW t \in Threads, RwlockTimedlockInvalid(t) PROVE RwlockInv'
<1>1. object' = Updated([spin |-> TRUE]) /\ UNCHANGED <<pc, call, waking, holds>>
  BY DEF RwlockTimedlockInvalid, ReturnSpinLocked
<1>2. RwlockIs(object', TRUE, object.held, object.readers, object.readerqueue, object.writerqueue)
  BY <1>1, RwlockSetSpin DEF RwlockInv, RwlockTypeOK
<1>3. RwlockPlaces'
  BY <1>1, <1>2, RwlockUnmoved DEF RwlockIs
<1>4. RwlockTypeOK' /\ RwlockCalls' /\ RwlockWaits'
  BY <1>1, <1>2 DEF RwlockInv, RwlockTypeOK, RwlockCalls, RwlockWaits, RwlockIs
<1>5. Has("read")' = Has("read") /\ Has("write")' = Has("write")
  BY <1>1, <1>2 DEF Has, RwlockIs
<1>6. RwlockExclusion'
  BY <1>2, <1>5, HasUnchanged DEF RwlockIs
<1> QED BY <1>3, <1>4, <1>6 DEF RwlockInv

LEMMA RwlockResumedInv == ASSUME RwlockInv, NEW t \in Threads, RwlockResumed(t) PROVE RwlockInv'
<1>1. /\ pc[t] = "resumed" /\ holds' = [holds EXCEPT ![t] = call[t]]
      /\ pc' = [pc EXCEPT ![t] = "run"] /\ call' = [call EXCEPT ![t] = "none"]
      /\ UNCHANGED <<object, waking>>
  BY DEF RwlockResumed, Given, Return
<1>2. t \notin ToSet(object.readerqueue) /\ t \notin ToSet(object.writerqueue)
  BY <1>1 DEF RwlockInv, RwlockTypeOK, RwlockPlaces, Places, Parked
<1>3. Parked' = Parked
  BY <1>1 DEF Parked, RwlockInv, RwlockTypeOK
<1>4. call[t] \in {"read", "write"} /\ holds[t] = "no"
  BY <1>1 DEF RwlockInv, RwlockTypeOK, RwlockCalls
<1>5. RwlockTypeOK' /\ RwlockPlaces' /\ RwlockWaits'
  BY <1>1, <1>3, <1>4 DEF RwlockInv, RwlockTypeOK, RwlockPlaces, RwlockWaits
<1>6. RwlockCalls'
  BY <1>1, <1>2 DEF RwlockInv, RwlockTypeOK, RwlockCalls
<1>7. Has("read")' = Has("read") /\ Has("write")' = Has("write")
  BY <1>1, <1>2, <1>4 DEF RwlockInv, RwlockTypeOK, Has
<1>8. RwlockExclusion'
  BY <1>1, <1>7, HasUnchanged DEF RwlockInv, RwlockTypeOK
<1> QED BY <1>5, <1>6, <1>8 DEF RwlockInv

\* The hand-over of the lock to all the readers that wait.
LEMMA RwlockWakeReadersInv ==
  ASSUME RwlockInv, NEW t \in Threads, RwlockUnlock(t), RwlockWakeReaders(t) PROVE RwlockInv'
<1> DEFINE q == object.readerqueue
           n == Len(q)
<1>1. /\ pc[t] = "run" /\ waking[t] = <<>> /\ holds[t] # "no" /\ q # <<>> /\ object.writerqueue = <<>>
      /\ object' = Updated([readers |-> n, readerqueue |-> <<>>])
      /\ waking' = [waking EXCEPT ![t] = q]
      /\ holds' = [holds EXCEPT ![t] = "no"]
      /\ UNCHANGED <<pc, call>>
  BY DEF RwlockUnlock, RwlockWakeReaders, Running, Given
<1>2. /\ object \in RwlockObject /\ q \in Seq(Threads) /\ object.held /\ object.readers = 0
      /\ Places(q, object.writerqueue, waking, Parked)
  BY <1>1, RwlockFields DEF RwlockInv, RwlockTypeOK, RwlockPlaces, RwlockWaits
<1>3. Places(<<>>, object.writerqueue, waking', Parked)
  BY <1>1, <1>2, PlacesTakeAll
<1>4. /\ Cardinality(ToSet(q)) = n /\ n \in Nat /\ ToSet(q) # {}
      /\ ToSet(<<>>) = {} /\ <<>> \in Seq(Threads)
  BY <1>1, <1>2, QueueLength, NotEmptyQueue, EmptyQueue DEF Places, IsQueue
<1> HIDE DEF q, n
<1>5. RwlockIs(object', object.spin, object.held, n, <<>>, object.writerqueue)
  <2> DEFINE e == <<>>
  <2>1. e \in Seq(Threads) /\ object' = Updated([readers |-> n, readerqueue |-> e])
    BY <1>1, <1>4
  <2> HIDE DEF e
  <2>2. RwlockIs(object', object.spin, object.held, n, e, object.writerqueue)
    BY <1>2, <1>4, <2>1, RwlockSetWakeReaders
  <2> QED BY <2>2 DEF e
<1>6. Has("read") = {} /\ Has("write") # {} /\ \A u, v \in Has("write") : u = v
  BY <1>2, HasFacts
<1>7. holds[t] = "write" /\ Has("write") = {t}
  <2>1. t \notin Has("read")
    BY <1>6
  <2>2. holds[t] = "write"
    BY <1>1, <2>1 DEF Has, RwlockInv, RwlockTypeOK
  <2>3. t \in Has("write")
    BY <2>2 DEF Has
  <2> QED BY <2>2, <2>3, <1>6
<1>8. call[t] = "none" /\ \A u \in ToSet(q) : call[u] = "read"
  <2>1. ToSet(q) \subseteq Threads
    BY <1>2, QueueRange
  <2> QED BY <1>1, <2>1 DEF RwlockInv, RwlockCalls, q
<1>9. Parked' = Parked
  BY <1>1 DEF Parked
<1>10. RwlockTypeOK' /\ RwlockPlaces' /\ RwlockWaits'
  BY <1>1, <1>2, <1>3, <1>5, <1>9 DEF RwlockInv, RwlockTypeOK, RwlockPlaces, RwlockWaits, RwlockIs
<1>11. \A u \in Threads : u # t => waking'[u] = waking[u]
  BY <1>1, <1>2 DEF Places
<1>12. RwlockCalls'
  BY <1>1, <1>4, <1>5, <1>11 DEF RwlockInv, RwlockTypeOK, RwlockCalls, RwlockIs
<1>13. Has("write")' = {}
  <2>1. \A u \in Threads : call[u] = "write" => u \notin ToSet(q)
    BY <1>8
  <2>2. \A u \in Threads : u # t => holds[u] # "write"
          /\ ~(call[u] = "write" /\ u \notin ToSet(q) \cup ToSet(object.writerqueue))
    BY <1>7 DEF Has, q
  <2> QED BY <1>1, <1>4, <1>5, <1>8, <2>1, <2>2 DEF RwlockInv, RwlockTypeOK, Has, RwlockIs
<1>14. Has("read")' = ToSet(q)
  <2>1. \A u \in Threads : holds[u] # "read" /\ (call[u] = "read" => u \in ToSet(q))
    BY <1>1, <1>4, <1>6 DEF Has, q
  <2>2. \A u \in Threads : holds'[u] # "read"
    BY <1>1, <2>1 DEF RwlockInv, RwlockTypeOK
  <2>3. Has("read")' = {u \in Threads : call[u] = "read"}
    BY <1>1, <1>4, <1>5, <2>2 DEF Has, RwlockIs
  <2>4. ToSet(q) \subseteq Threads
    BY <1>2, QueueRange
  <2> QED BY <1>8, <2>1, <2>3, <2>4
<1>15. RwlockExclusion'
  BY <1>2, <1>4, <1>5, <1>13, <1>14, HasExclusion DEF RwlockIs
<1> QED BY <1>10, <1>12, <1>15 DEF RwlockInv

\* The unlocking thread alone has the lock, when at most one reader is left.
LEMMA RwlockLastHolder ==
  ASSUME RwlockInv, NEW t \in Threads, holds[t] # "no", object.readers <= 1
  PROVE  Has("read") \cup Has("write") = {t}
<1>1. /\ object.readers \in Nat /\ object.readers = Cardinality(Has("read"))
      /\ Has("write") # {} => Has("read") = {} /\ object.readers = 0
      /\ \A u, v \in Has("write") : u = v
  BY HasFacts
<1>2. t \in Has("read") \cup Has("write")
  BY DEF RwlockInv, RwlockTypeOK, Has
<1>3. CASE t \in Has("write")
  BY <1>1, <1>3
<1>4. CASE t \in Has("read")
  <2>1. Cardinality(Has("read")) = 1 /\ IsFiniteSet(Has("read"))
    BY <1>1, <1>4, HasFinite
  <2>2. PICK x : Has("read") = {x}
    BY <2>1, FS_Singleton
  <2> QED BY <1>1, <1>4, <2>2
<1> QED BY <1>2, <1>3, <1>4

\* The hand-over of the lock to the first writer that waits.
LEMMA RwlockWakeWriterInv ==
  ASSUME RwlockInv, NEW t \in Threads, RwlockUnlock(t), RwlockWakeWriter(t) PROVE RwlockInv'
<1> DEFINE q == object.writerqueue
           h == Head(q)
           r == Tail(q)
<1>1. /\ pc[t] = "run" /\ waking[t] = <<>> /\ holds[t] # "no" /\ q # <<>> /\ object.readers <= 1
      /\ object' = Updated([readers |-> 0, writerqueue |-> r])
      /\ waking' = [waking EXCEPT ![t] = <<h>>]
      /\ holds' = [holds EXCEPT ![t] = "no"]
      /\ UNCHANGED <<pc, call>>
  BY DEF RwlockUnlock, RwlockWakeWriter, Running, Given
<1>2. /\ object \in RwlockObject /\ object.held
      /\ Places(q, object.readerqueue, waking, Parked)
  BY <1>1, PlacesSwap DEF RwlockInv, RwlockTypeOK, RwlockPlaces, RwlockWaits
<1>3. Places(object.readerqueue, r, waking', Parked)
  BY <1>1, <1>2, PlacesTakeFirst, PlacesSwap
<1>4. h \in Threads /\ h \in ToSet(q) /\ IsQueue(r, Threads) /\ ToSet(r) = ToSet(q) \ {h}
  BY <1>1, <1>2, Dequeueing DEF Places
<1> HIDE DEF q, h, r
<1>5. RwlockIs(object', object.spin, object.held, 0, object.readerqueue, r)
  <2> DEFINE n == 0
  <2>1. n \in Nat /\ object' = Updated([readers |-> n, writerqueue |-> r])
    BY <1>1
  <2> HIDE DEF n
  <2>2. RwlockIs(object', object.spin, object.held, n, object.readerqueue, r)
    BY <1>2, <1>4, <2>1, RwlockSetWakeWriter DEF IsQueue
  <2> QED BY <2>2 DEF n
<1>6. Has("read") \cup Has("write") = {t}
  BY <1>1, RwlockLastHolder
<1>7. call[t] = "none" /\ call[h] = "write" /\ holds[h] = "no" /\ h \notin ToSet(object.readerqueue)
  BY <1>1, <1>2, <1>4 DEF RwlockInv, RwlockCalls, Places, q
<1>8. Parked' = Parked
  BY <1>1 DEF Parked
<1>9. RwlockTypeOK' /\ RwlockPlaces' /\ RwlockWaits'
  BY <1>1, <1>2, <1>3, <1>5, <1>8 DEF RwlockInv, RwlockTypeOK, RwlockPlaces, RwlockWaits, RwlockIs
<1>10. \A u \in Threads : u # t => waking'[u] = waking[u]
  BY <1>1, <1>2 DEF Places
<1>11. RwlockCalls'
  BY <1>1, <1>4, <1>5, <1>10 DEF RwlockInv, RwlockTypeOK, RwlockCalls, RwlockIs, q
<1>12. \A u \in Threads : u # t =>
          /\ holds[u] \notin {"read", "write"}
          /\ call[u] = "none" \/ u \in ToSet(object.readerqueue) \/ u \in ToSet(q)
  BY <1>6 DEF RwlockInv, RwlockTypeOK, Has, q
<1>13. \A u \in Threads : holds'[u] = "no"
  BY <1>1, <1>12 DEF RwlockInv, RwlockTypeOK
<1>14. Has("read")' = {}
  <2> SUFFICES ASSUME NEW u \in Threads, call[u] = "read",
                      u \notin ToSet(object.readerqueue) \cup ToSet(r)
               PROVE  FALSE
    BY <1>1, <1>5, <1>13 DEF Has, RwlockIs
  <2>1. u # t /\ u # h
    BY <1>7
  <2>2. u \in ToSet(q)
    BY <1>12, <2>1
  <2> QED BY <1>4, <2>1, <2>2
<1>15. Has("write")' = {h}
  <2>1. Has("write")' = {u \in Threads : call[u] = "write"
          /\ u \notin ToSet(object.readerqueue) \cup ToSet(r)}
    BY <1>1, <1>5, <1>13 DEF Has, RwlockIs
  <2>2. ASSUME NEW u \in Threads, call[u] = "write", u \notin ToSet(object.readerqueue) \cup ToSet(r)
        PROVE  u = h
    BY <1>4, <1>7, <1>12, <2>2
  <2> QED BY <1>4, <1>7, <2>1, <2>2
<1>16. Cardinality(Has("read")') = 0
  BY <1>14, FS_EmptySet
<1>17. RwlockExclusion'
  BY <1>2, <1>5, <1>14, <1>15, <1>16, HasExclusion DEF RwlockIs
<1> QED BY <1>9, <1>11, <1>17 DEF RwlockInv

LEMMA RwlockReleaseInv ==
  ASSUME RwlockInv, NEW t \in Threads, RwlockUnlock(t), RwlockRelease PROVE RwlockInv'
<1>1. /\ pc[t] = "run" /\ waking[t] = <<>> /\ holds[t] # "no"
      /\ holds' = [holds EXCEPT ![t] = "no"]
      /\ UNCHANGED <<pc, call, waking>>
  BY DEF RwlockUnlock, RwlockRelease, Running, Given
<1>2. object \in RwlockObject /\ object.readers \in Nat /\ call[t] = "none"
  BY <1>1, RwlockFields DEF RwlockInv, RwlockTypeOK, RwlockCalls
<1>3. CASE object.readers > 1 /\ object' = Updated([readers |-> object.readers - 1])
  <2> DEFINE n == object.readers - 1
  <2>1. n \in Nat /\ n > 0 /\ object' = Updated([readers |-> n])
    BY <1>2, <1>3
  <2> HIDE DEF n
  <2>2. RwlockIs(object', object.spin, object.held, n, object.readerqueue, object.writerqueue)
    BY <1>2, <2>1, RwlockSetReaders
  <2>3. RwlockPlaces'
    BY <1>1, <2>2, RwlockUnmoved DEF RwlockIs
  <2>4. Has("read") # {} /\ Has("write") = {} /\ object.held /\ object.readers = Cardinality(Has("read"))
    BY <1>2, <1>3, HasFacts
  <2>5. object.readerqueue = <<>>
    BY <1>3 DEF RwlockInv, RwlockWaits
  <2>6. RwlockTypeOK' /\ RwlockCalls' /\ RwlockWaits'
    BY <1>1, <2>2, <2>5 DEF RwlockInv, RwlockTypeOK, RwlockCalls, RwlockWaits, RwlockIs
  <2>7. t \in Has("read") /\ holds[t] = "read"
    BY <1>1, <2>4 DEF RwlockInv, RwlockTypeOK, Has
  <2>8. Has("read")' = Has("read") \ {t} /\ Has("write")' = {}
    BY <1>1, <1>2, <2>2, <2>4 DEF RwlockInv, RwlockTypeOK, Has, RwlockIs
  <2>9. Cardinality(Has("read") \ {t}) = n
    BY <2>4, <2>7, HasFinite, FS_RemoveElement DEF n
  <2>10. Has("read") \ {t} # {}
    <3>1. Cardinality({}) = 0
      BY FS_EmptySet
    <3> QED BY <2>1, <2>9, <3>1
  <2>11. RwlockExclusion'
    BY <2>2, <2>4, <2>8, <2>9, <2>10, HasExclusion DEF RwlockIs
  <2> QED BY <2>3, <2>6, <2>11 DEF RwlockInv
<1>4. CASE /\ object.readers <= 1 /\ object.writerqueue = <<>> /\ object.readerqueue = <<>>
           /\ object' = Updated([readers |-> 0, held |-> FALSE])
  <2> DEFINE n == 0
             e == FALSE
  <2>1. n \in Nat /\ e \in BOOLEAN /\ object' = Updated([held |-> e, readers |-> n])
    BY <1>4 DEF Updated, With
  <2> HIDE DEF n, e
  <2>2. RwlockIs(object', object.spin, e, n, object.readerqueue, object.writerqueue)
    BY <1>2, <2>1, RwlockSetHeldReaders
  <2>3. RwlockPlaces'
    BY <1>1, <2>2, RwlockUnmoved DEF RwlockIs
  <2>4. Has("read") \cup Has("write") = {t}
    BY <1>1, <1>4, RwlockLastHolder
  <2>5. RwlockTypeOK' /\ RwlockCalls' /\ RwlockWaits'
    BY <1>1, <1>4, <2>2 DEF RwlockInv, RwlockTypeOK, RwlockCalls, RwlockWaits, RwlockIs
  <2>6. Has("read")' = {} /\ Has("write")' = {}
    BY <1>1, <1>2, <2>2, <2>4 DEF RwlockInv, RwlockTypeOK, Has, RwlockIs
  <2>7. Cardinality(Has("read")') = 0
    BY <2>6, FS_EmptySet
  <2>8. RwlockExclusion'
    BY <2>2, <2>6, <2>7, HasExclusion DEF RwlockIs, n, e
  <2> QED BY <2>3, <2>5, <2>8 DEF RwlockInv
<1> QED BY <1>3, <1>4 DEF RwlockRelease

LEMMA RwlockBlockInv == ASSUME RwlockInv, NEW t \in Threads, Block(t) PROVE RwlockInv'
<1>1. pc[t] = "enqueued" /\ pc' = [pc EXCEPT ![t] = "asleep"] /\ UNCHANGED <<object, call, waking, holds>>
  BY DEF Block
<1>2. Parked' = Parked
  BY <1>1 DEF Parked, RwlockInv, RwlockTypeOK
<1>3. RwlockTypeOK' /\ RwlockPlaces' /\ RwlockWaits' /\ RwlockCalls'
  BY <1>1, <1>2 DEF RwlockInv, RwlockTypeOK, RwlockPlaces, RwlockWaits, RwlockCalls
<1>4. RwlockExclusion'
  BY <1>1 DEF RwlockInv, RwlockExclusion, Has
<1> QED BY <1>3, <1>4 DEF RwlockInv

LEMMA RwlockWakeupInv == ASSUME RwlockInv, NEW t \in Threads, Wakeup(t) PROVE RwlockInv'
<1> DEFINE u == Head(waking[t])
<1>1. /\ waking[t] # <<>> /\ pc[u] = "asleep" /\ pc' = [pc EXCEPT ![u] = "resumed"]
      /\ waking' = [waking EXCEPT ![t] = Tail(waking[t])] /\ UNCHANGED <<object, call, holds>>
  BY DEF Wakeup
<1>2. u \in Threads /\ Places(object.readerqueue, object.writerqueue, waking', Parked \ {u})
  BY <1>1, PlacesWake DEF RwlockInv, RwlockPlaces
<1> HIDE DEF u
<1>3. Parked' = Parked \ {u}
  BY <1>1, <1>2 DEF Parked, RwlockInv, RwlockTypeOK
<1>4. RwlockTypeOK' /\ RwlockPlaces' /\ RwlockWaits'
  BY <1>1, <1>2, <1>3 DEF RwlockInv, RwlockTypeOK, RwlockPlaces, RwlockWaits
<1>5. \A v \in Threads : v # t => waking'[v] = waking[v]
  BY <1>1 DEF RwlockInv, RwlockPlaces, Places
<1>6. RwlockCalls'
  BY <1>1, <1>2, <1>5 DEF RwlockInv, RwlockTypeOK, RwlockCalls
<1>7. RwlockExclusion'
  BY <1>1 DEF RwlockInv, RwlockExclusion, Has
<1> QED BY <1>4, <1>6, <1>7 DEF RwlockInv

\* No other object's functions are called on a readers-writer lock.
LEMMA RwlockStepInv == RwlockInv /\ [Next]_vars => RwlockInv'
<1> SUFFICES ASSUME RwlockInv, [Next]_vars PROVE RwlockInv'
  OBVIOUS
<1>1. /\ object.kind = Rwlock
      /\ \A t \in Threads : /\ pc[t] \notin {"oncelock", "onceinit", "unlock"}
                            /\ call[t] \notin {"lock", "cond"}
  BY RwlockFields DEF RwlockInv, RwlockTypeOK
<1>2. ~MutexNext /\ ~SemNext /\ ~LifeNext
  BY <1>1, NotMutexStep, NotSemStep, NotLifeStep DEF Mutex, Rwlock, Sem, Barrier, Once, Life
<1>3. ASSUME UNCHANGED vars PROVE RwlockInv'
  <2>1. Parked' = Parked
    BY <1>3 DEF Parked, vars
  <2>2. RwlockTypeOK' /\ RwlockPlaces' /\ RwlockWaits' /\ RwlockCalls'
    BY <1>3, <2>1 DEF vars, RwlockInv, RwlockTypeOK, RwlockPlaces, RwlockWaits, RwlockCalls
  <2>3. RwlockExclusion'
    BY <1>3 DEF vars, RwlockInv, RwlockExclusion, Has
  <2> QED BY <2>2, <2>3 DEF RwlockInv
<1>4. CASE RwlockNext
  BY <1>4, RdlockInv, WrlockInv, RdlockBusyInv, WrlockBusyInv, RwlockTimedlockInvalidInv,
     RwlockResumedInv, RwlockWakeReadersInv, RwlockWakeWriterInv, RwlockReleaseInv
     DEF RwlockNext, RwlockUnlock
<1> QED BY <1>2, <1>3, <1>4, RwlockBlockInv, RwlockWakeupInv DEF Next

-----------------------------------------------------------------------------
(***************************************************************************)
(* Semaphores and barriers: calls that are counted when they return.       *)
(***************************************************************************)
CountingTypeOK(c) ==
    /\ pc \in [Threads -> {"run", "enqueued", "asleep", "resumed"}]
    /\ call \in [Threads -> {"none", c}]
    /\ holds \in [Threads -> 0..MaxCalls]

CountingCalls ==
    \A t \in Threads :
        /\ pc[t] # "run" => waking[t] = <<>>
        /\ pc[t] = "run" <=> call[t] = "none"
        /\ call[t] # "none" => holds[t] < MaxCalls

QueuePlaces == Places(object.queue, <<>>, waking, Parked)

CountingInv(c) == CountingTypeOK(c) /\ CountingCalls /\ QueuePlaces

\* The calls that returned, and the threads that are about to.
Returned == {c \in Threads \X (1..MaxCalls) : c[2] <= holds[c[1]]}
Leaving == {t \in Threads : call[t] # "none" /\ t \notin ToSet(object.queue)}

LEMMA GrantedIs ==
  /\ Granted = Cardinality(Returned) + Cardinality(Leaving)
  /\ IsFiniteSet(Returned) /\ Cardinality(Returned) \in Nat
  /\ IsFiniteSet(Leaving) /\ Cardinality(Leaving) \in Nat
<1>1. Granted = Cardinality(Returned) + Cardinality(Leaving)
  BY DEF Granted, Returned, Leaving
<1>2. IsFiniteSet(1..MaxCalls)
  BY SemAssumption, FS_Interval
<1>3. IsFiniteSet(Threads \X (1..MaxCalls))
  BY <1>2, ThreadsFinite, FS_Product
<1>4. IsFiniteSet(Returned)
  <2>1. Returned \subseteq Threads \X (1..MaxCalls)
    BY DEF Returned
  <2> QED BY <1>3, <2>1, FS_Subset
<1>5. IsFiniteSet(Leaving)
  <2>1. Leaving \subseteq Threads
    BY DEF Leaving
  <2> QED BY <2>1, ThreadsFinite, FS_Subset
<1> QED BY <1>1, <1>4, <1>5, FS_CardinalityType

LEMMA OneMoreReturned ==
  ASSUME holds \in [Threads -> 0..MaxCalls], NEW t \in Threads, holds[t] < MaxCalls, Count(t)
  PROVE  /\ holds' \in [Threads -> 0..MaxCalls]
         /\ Cardinality(Returned') = Cardinality(Returned) + 1
<1> DEFINE c == <<t, holds[t] + 1>>
<1>1. MaxCalls \in Nat /\ holds' = [holds EXCEPT ![t] = holds[t] + 1] /\ holds[t] \in 0..MaxCalls
  BY SemAssumption DEF Count
<1>2. holds' \in [Threads -> 0..MaxCalls] /\ holds'[t] = holds[t] + 1
      /\ \A u \in Threads : u # t => holds'[u] = holds[u]
  BY <1>1
<1>3. c \in Threads \X (1..MaxCalls) /\ c \notin Returned
  BY <1>1 DEF Returned
<1>4. Returned' = Returned \cup {c}
  <2>1. ASSUME NEW u \in Threads, NEW n \in 1..MaxCalls
        PROVE  n <= holds'[u] <=> n <= holds[u] \/ (u = t /\ n = holds[t] + 1)
    BY <1>1, <1>2
  <2>2. ASSUME NEW d \in Threads \X (1..MaxCalls)
        PROVE  d \in Returned' <=> d \in Returned \cup {c}
    <3>1. PICK u \in Threads, n \in 1..MaxCalls : d = <<u, n>>
      OBVIOUS
    <3> QED BY <2>1, <3>1 DEF Returned
  <2>3. Returned' \subseteq Threads \X (1..MaxCalls) /\ Returned \subseteq Threads \X (1..MaxCalls)
    BY DEF Returned
  <2> QED BY <1>3, <2>2, <2>3
<1> HIDE DEF c
<1>5. Cardinality(Returned \cup {c}) = Cardinality(Returned) + 1
  BY <1>3, GrantedIs, FS_AddElement
<1> QED BY <1>2, <1>4, <1>5

\* A call that returns at once.
LEMMA CountingAtOnce ==
  ASSUME NEW c, c # "none", CountingInv(c), NEW t \in Threads, pc[t] = "run",
         holds[t] < MaxCalls, Count(t),
         UNCHANGED <<pc, call, waking>>, object'.queue = object.queue
  PROVE  CountingInv(c)' /\ Granted' = Granted + 1
<1>1. /\ holds' \in [Threads -> 0..MaxCalls]
      /\ Cardinality(Returned') = Cardinality(Returned) + 1
  BY OneMoreReturned DEF CountingInv, CountingTypeOK
<1>2. \A u \in Threads : u # t => holds'[u] = holds[u]
  BY DEF Count, CountingInv, CountingTypeOK
<1>3. Leaving' = Leaving /\ Parked' = Parked
  BY DEF Leaving, Parked
<1>4. Granted' = Cardinality(Returned') + Cardinality(Leaving')
  BY DEF Granted, Returned, Leaving
<1>5. Granted' = Granted + 1
  BY <1>1, <1>3, <1>4, GrantedIs
<1>6. CountingTypeOK(c)' /\ QueuePlaces'
  BY <1>1, <1>3 DEF CountingInv, CountingTypeOK, QueuePlaces
<1>7. CountingCalls'
  BY <1>2 DEF CountingInv, CountingTypeOK, CountingCalls
<1> QED BY <1>5, <1>6, <1>7 DEF CountingInv

\* A call that joins the queue.
LEMMA CountingWait ==
  ASSUME NEW c, c # "none", CountingInv(c), NEW t \in Threads, pc[t] = "run", waking[t] = <<>>,
         holds[t] < MaxCalls, Enqueued(t, c), UNCHANGED <<waking, holds>>,
         object'.queue = <<t>> \o object.queue
  PROVE  CountingInv(c)' /\ Granted' = Granted /\ Len(object'.queue) = Len(object.queue) + 1
<1> DEFINE q == <<t>> \o object.queue
<1>1. /\ pc' = [pc EXCEPT ![t] = "enqueued"] /\ call' = [call EXCEPT ![t] = c]
      /\ Places(object.queue, <<>>, waking, Parked) /\ t \notin Parked
      /\ object'.queue = q
  BY DEF Enqueued, CountingInv, CountingTypeOK, QueuePlaces, Parked
<1>2. t \notin ToSet(object.queue) /\ IsQueue(object.queue, Threads)
  BY <1>1 DEF Places
<1>3. ToSet(q) = ToSet(object.queue) \cup {t} /\ Len(q) = Len(object.queue) + 1
  BY <1>2, Enqueueing
<1>4. Places(q, <<>>, waking, Parked \cup {t})
  BY <1>1, PlacesEnter
<1> HIDE DEF q
<1>5. Parked' = Parked \cup {t}
  BY <1>1 DEF Parked, CountingInv, CountingTypeOK
<1>6. Leaving' = Leaving
  <2>1. call[t] = "none"
    BY DEF CountingInv, CountingCalls
  <2> QED BY <1>1, <1>3, <2>1 DEF Leaving, CountingInv, CountingTypeOK
<1>7. Granted' = Granted
  <2>1. Granted' = Cardinality(Returned') + Cardinality(Leaving') /\ Returned' = Returned
    BY DEF Granted, Returned, Leaving
  <2> QED BY <1>6, <2>1, GrantedIs
<1>8. CountingTypeOK(c)' /\ QueuePlaces'
  BY <1>1, <1>4, <1>5 DEF CountingInv, CountingTypeOK, QueuePlaces
<1>9. CountingCalls'
  BY <1>1 DEF CountingInv, CountingTypeOK, CountingCalls
<1> QED BY <1>1, <1>3, <1>7, <1>8, <1>9 DEF CountingInv

\* The return of a call that has waited.
LEMMA CountingResumed ==
  ASSUME NEW c, c # "none", CountingInv(c), NEW t \in Threads, pc[t] = "resumed", Count(t), Return(t),
         UNCHANGED <<object, waking>>
  PROVE  CountingInv(c)' /\ Granted' = Granted
<1>1. /\ pc' = [pc EXCEPT ![t] = "run"] /\ call' = [call EXCEPT ![t] = "none"]
      /\ holds[t] < MaxCalls /\ call[t] # "none" /\ t \notin Parked
  BY DEF Return, CountingInv, CountingTypeOK, CountingCalls, Parked
<1>2. /\ holds' \in [Threads -> 0..MaxCalls]
      /\ Cardinality(Returned') = Cardinality(Returned) + 1
  BY <1>1, OneMoreReturned DEF CountingInv, CountingTypeOK
<1>3. \A u \in Threads : u # t => holds'[u] = holds[u]
  BY DEF Count, CountingInv, CountingTypeOK
<1>4. t \notin ToSet(object.queue)
  BY <1>1 DEF CountingInv, QueuePlaces, Places
<1>5. t \in Leaving /\ Leaving' = Leaving \ {t}
  BY <1>1, <1>4 DEF Leaving, CountingInv, CountingTypeOK
<1>6. Cardinality(Leaving \ {t}) = Cardinality(Leaving) - 1
  BY <1>5, GrantedIs, FS_RemoveElement
<1>7. Parked' = Parked
  BY <1>1 DEF Parked, CountingInv, CountingTypeOK
<1>8. Granted' = Granted
  <2>1. Granted' = Cardinality(Returned') + Cardinality(Leaving')
    BY DEF Granted, Returned, Leaving
  <2> QED BY <1>2, <1>5, <1>6, <2>1, GrantedIs
<1>9. CountingTypeOK(c)' /\ QueuePlaces'
  BY <1>1, <1>2, <1>7 DEF CountingInv, CountingTypeOK, QueuePlaces
<1>10. CountingCalls'
  BY <1>1, <1>3 DEF CountingInv, CountingTypeOK, CountingCalls
<1> QED BY <1>8, <1>9, <1>10 DEF CountingInv

\* Some of those who wait are let go: they are dequeued, and t will wake them.
LEMMA CountingRelease ==
  ASSUME NEW c, c # "none", CountingInv(c), NEW t \in Threads, pc[t] = "run", waking[t] = <<>>,
         NEW w, NEW q, IsQueue(w, Threads), IsQueue(q, Threads), ToSet(w) \cap ToSet(q) = {},
         ToSet(w) \cup ToSet(q) = ToSet(object.queue),
         object'.queue = q, waking' = [waking EXCEPT ![t] = w], UNCHANGED <<pc, call>>
  PROVE  /\ QueuePlaces'
         /\ \A u \in Threads : pc'[u] # "run" => waking'[u] = <<>>
         /\ Cardinality(Leaving') = Cardinality(Leaving) + Len(w)
<1>1. Places(object.queue, <<>>, waking, Parked) /\ Parked' = Parked
  BY DEF CountingInv, QueuePlaces, Parked
<1>2. QueuePlaces'
  BY <1>1, PlacesTake DEF QueuePlaces
<1>3. \A u \in Threads : pc'[u] # "run" => waking'[u] = <<>>
  BY <1>1 DEF CountingInv, CountingCalls, Places
<1>4. \A u \in ToSet(object.queue) : u \in Threads /\ call[u] # "none"
  <2>1. ToSet(object.queue) \subseteq Parked
    BY <1>1 DEF Places
  <2> QED BY <2>1 DEF Parked, CountingInv, CountingTypeOK, CountingCalls
<1>5. Leaving' = Leaving \cup ToSet(w) /\ Leaving \cap ToSet(w) = {}
  BY <1>4 DEF Leaving
<1>6. Cardinality(ToSet(w)) = Len(w) /\ IsFiniteSet(ToSet(w)) /\ Len(w) \in Nat
  BY QueueLength
<1>7. Cardinality(Leaving \cup ToSet(w)) = Cardinality(Leaving) + Len(w)
  <2>1. Cardinality({}) = 0
    BY FS_EmptySet
  <2>2. Cardinality(Leaving \cup ToSet(w))
           = Cardinality(Leaving) + Cardinality(ToSet(w)) - Cardinality(Leaving \cap ToSet(w))
    BY <1>6, GrantedIs, FS_Union
  <2>3. Cardinality(Leaving \cap ToSet(w)) = 0
    BY <1>5, <2>1
  <2> QED BY <1>6, <2>2, <2>3, GrantedIs
<1> QED BY <1>2, <1>3, <1>5, <1>7

\* A step of the scheduler.
LEMMA CountingBlock ==
  ASSUME NEW c, c # "none", CountingInv(c), NEW t \in Threads, Block(t)
  PROVE  CountingInv(c)' /\ Granted' = Granted /\ UNCHANGED object
<1>1. pc[t] = "enqueued" /\ pc' = [pc EXCEPT ![t] = "asleep"] /\ UNCHANGED <<object, call, waking, holds>>
  BY DEF Block
<1>2. Parked' = Parked
  BY <1>1 DEF Parked, CountingInv, CountingTypeOK
<1>3. CountingTypeOK(c)' /\ QueuePlaces' /\ CountingCalls'
  BY <1>1, <1>2 DEF CountingInv, CountingTypeOK, QueuePlaces, CountingCalls
<1>4. Granted' = Granted
  BY <1>1 DEF Granted
<1> QED BY <1>1, <1>3, <1>4 DEF CountingInv

LEMMA CountingWakeup ==
  ASSUME NEW c, c # "none", CountingInv(c), NEW t \in Threads, Wakeup(t)
  PROVE  CountingInv(c)' /\ Granted' = Granted /\ UNCHANGED object
<1> DEFINE u == Head(waking[t])
<1>1. /\ waking[t] # <<>> /\ pc[u] = "asleep" /\ pc' = [pc EXCEPT ![u] = "resumed"]
      /\ waking' = [waking EXCEPT ![t] = Tail(waking[t])] /\ UNCHANGED <<object, call, holds>>
  BY DEF Wakeup
<1>2. u \in Threads /\ Places(object.queue, <<>>, waking', Parked \ {u})
  BY <1>1, PlacesWake DEF CountingInv, QueuePlaces
<1> HIDE DEF u
<1>3. Parked' = Parked \ {u}
  BY <1>1, <1>2 DEF Parked, CountingInv, CountingTypeOK
<1>4. CountingTypeOK(c)' /\ QueuePlaces'
  BY <1>1, <1>2, <1>3 DEF CountingInv, CountingTypeOK, QueuePlaces
<1>5. \A v \in Threads : v # t => waking'[v] = waking[v]
  BY <1>1 DEF CountingInv, QueuePlaces, Places
<1>6. CountingCalls'
  BY <1>1, <1>2, <1>5 DEF CountingInv, CountingTypeOK, CountingCalls
<1>7. Granted' = Granted
  BY <1>1 DEF Granted
<1> QED BY <1>1, <1>4, <1>6, <1>7 DEF CountingInv

LEMMA CountingInit ==
  ASSUME NEW c, c # "none", object.queue = <<>>, pc = [t \in Threads |-> "run"],
         call = [t \in Threads |-> "none"], waking = [t \in Threads |-> <<>>],
         holds = [t \in Threads |-> 0]
  PROVE  CountingInv(c) /\ Granted = 0
<1>1. IsQueue(<<>>, Threads) /\ ToSet(<<>>) = {}
  BY EmptyQueue
<1>2. CountingTypeOK(c) /\ CountingCalls
  BY SemAssumption DEF CountingTypeOK, CountingCalls
<1>3. QueuePlaces
  BY <1>1 DEF QueuePlaces, Places, Parked, IsQueue
<1>4. Returned = {} /\ Leaving = {}
  <2>1. Leaving = {}
    BY DEF Leaving
  <2>2. ASSUME NEW d \in Returned PROVE FALSE
    <3>1. PICK u \in Threads, n \in 1..MaxCalls : d = <<u, n>> /\ n <= holds[u]
      BY DEF Returned
    <3> QED BY <3>1
  <2> QED BY <2>1, <2>2
<1>5. Cardinality({}) = 0
  BY FS_EmptySet
<1>6. Granted = 0
  BY <1>4, <1>5, GrantedIs
<1> QED BY <1>2, <1>3, <1>6 DEF CountingInv

-----------------------------------------------------------------------------
(***************************************************************************)
(* Semaphores.                                                             *)
(***************************************************************************)
SemObject ==
    [kind : {Sem}, spin : BOOLEAN, value : Nat, queue : Seq(Threads), posted : Nat]

SemInv ==
    /\ object \in SemObject
    /\ CountingInv("sem")
    /\ object.value + Granted = object.posted
    /\ object.value > 0 => object.queue = <<>>

LEMMA SemFields ==
  ASSUME object \in SemObject
  PROVE  /\ object.kind = Sem /\ object.spin \in BOOLEAN /\ object.value \in Nat
         /\ object.queue \in Seq(Threads) /\ object.posted \in Nat
BY DEF SemObject

SemIs(o, s, v, q, p) ==
    o \in SemObject /\ o.spin = s /\ o.value = v /\ o.queue = q /\ o.posted = p

LEMMA SemSetSpin ==
  ASSUME object \in SemObject, NEW s \in BOOLEAN, object' = Updated([spin |-> s])
  PROVE  SemIs(object', s, object.value, object.queue, object.posted)
BY DEF SemObject, SemIs, Updated, With

LEMMA SemSetValue ==
  ASSUME object \in SemObject, NEW v \in Nat, object' = Updated([value |-> v])
  PROVE  SemIs(object', object.spin, v, object.queue, object.posted)
BY DEF SemObject, SemIs, Updated, With

LEMMA SemSetQueue ==
  ASSUME object \in SemObject, NEW q \in Seq(Threads), object' = Updated([queue |-> q])
  PROVE  SemIs(object', object.spin, object.value, q, object.posted)
BY DEF SemObject, SemIs, Updated, With

LEMMA SemSetValuePosted ==
  ASSUME object \in SemObject, NEW v \in Nat, NEW p \in Nat,
         object' = Updated([value |-> v, posted |-> p])
  PROVE  SemIs(object', object.spin, v, object.queue, p)
BY DEF SemObject, SemIs, Updated, With

LEMMA SemSetQueuePosted ==
  ASSUME object \in SemObject, NEW q \in Seq(Threads), NEW p \in Nat,
         object' = Updated([queue |-> q, posted |-> p])
  PROVE  SemIs(object', object.spin, object.value, q, p)
BY DEF SemObject, SemIs, Updated, With

LEMMA GrantedNat == Granted \in Nat
BY GrantedIs

LEMMA SemDownInv == ASSUME SemInv, NEW t \in Threads, SemDown(t) PROVE SemInv'
<1> DEFINE v == object.value - 1
<1>1. /\ pc[t] = "run" /\ holds[t] < MaxCalls /\ object.value > 0
      /\ object' = Updated([value |-> v]) /\ Count(t) /\ UNCHANGED <<pc, call, waking>>
  BY DEF SemDown, MayCall, Running
<1>2. v \in Nat /\ object.value \in Nat /\ object.posted \in Nat
  BY <1>1, SemFields DEF SemInv
<1> HIDE DEF v
<1>3. SemIs(object', object.spin, v, object.queue, object.posted)
  BY <1>1, <1>2, SemSetValue DEF SemInv
<1>4. CountingInv("sem")' /\ Granted' = Granted + 1
  BY <1>1, <1>3, CountingAtOnce DEF SemInv, SemIs
<1>5. v + (Granted + 1) = object.posted
  BY <1>2, GrantedNat DEF SemInv, v
<1>6. object.queue = <<>>
  BY <1>1 DEF SemInv
<1> QED BY <1>3, <1>4, <1>5, <1>6 DEF SemInv, SemIs

LEMMA SemWaitInv == ASSUME SemInv, NEW t \in Threads, SemWait(t) PROVE SemInv'
<1> DEFINE q == <<t>> \o object.queue
<1>1. /\ pc[t] = "run" /\ waking[t] = <<>> /\ holds[t] < MaxCalls /\ object.value = 0
      /\ object' = Updated([queue |-> q]) /\ Enqueued(t, "sem") /\ UNCHANGED <<waking, holds>>
  BY DEF SemWait, MayCall, Running, Enqueue
<1>2. q \in Seq(Threads)
  BY SemFields DEF SemInv
<1>3. SemIs(object', object.spin, object.value, q, object.posted)
  <2> HIDE DEF q
  <2> QED BY <1>1, <1>2, SemSetQueue DEF SemInv
<1>4. CountingInv("sem")' /\ Granted' = Granted
  BY <1>1, <1>3, CountingWait DEF SemInv, SemIs
<1> HIDE DEF q
<1> QED BY <1>1, <1>3, <1>4 DEF SemInv, SemIs

LEMMA SemTimedwaitInvalidInv == ASSUME SemInv, NEW t \in Threads, SemTimedwaitInvalid(t) PROVE SemInv'
<1>1. object' = Updated([spin |-> TRUE]) /\ UNCHANGED <<pc, call, waking, holds>>
  BY DEF SemTimedwaitInvalid, ReturnSpinLocked
<1>2. SemIs(object', TRUE, object.value, object.queue, object.posted)
  BY <1>1, SemSetSpin DEF SemInv
<1>3. Parked' = Parked
  BY <1>1 DEF Parked
<1>4. CountingInv("sem")'
  BY <1>1, <1>2, <1>3 DEF SemInv, SemIs, CountingInv, CountingTypeOK, CountingCalls, QueuePlaces
<1>5. Granted' = Granted
  BY <1>1, <1>2 DEF Granted, SemIs
<1> QED BY <1>2, <1>4, <1>5 DEF SemInv, SemIs

LEMMA SemResumedInv == ASSUME SemInv, NEW t \in Threads, SemResumed(t) PROVE SemInv'
<1>1. pc[t] = "resumed" /\ Count(t) /\ Return(t) /\ UNCHANGED <<object, waking>>
  BY DEF SemResumed
<1>2. CountingInv("sem")' /\ Granted' = Granted
  BY <1>1, CountingResumed DEF SemInv
<1> QED BY <1>1, <1>2 DEF SemInv

LEMMA SemPostInv == ASSUME SemInv, NEW t \in Threads, SemPost(t) PROVE SemInv'
<1> DEFINE p == object.posted + 1
<1>1. /\ pc[t] = "run" /\ waking[t] = <<>> /\ SemUp(t) /\ UNCHANGED <<pc, call, holds>>
  BY DEF SemPost, Running
<1>2. /\ object.value \in Nat /\ object.posted \in Nat /\ p \in Nat /\ object \in SemObject
      /\ object.queue \in Seq(Threads)
      /\ Places(object.queue, <<>>, waking, Parked) /\ CountingInv("sem")
  BY SemFields DEF SemInv, CountingInv, QueuePlaces
<1>3. Returned' = Returned /\ Granted' = Cardinality(Returned') + Cardinality(Leaving')
  BY <1>1 DEF Granted, Returned, Leaving
<1>4. CASE object.value > 0 \/ object.queue = <<>>
  <2> DEFINE v == object.value + 1
  <2>0. object.queue = <<>> /\ v \in Nat
    BY <1>2, <1>4 DEF SemInv
  <2>1. object' = Updated([value |-> v, posted |-> p]) /\ waking' = [waking EXCEPT ![t] = <<>>]
    <3>1. First(object.queue) = <<>>
      BY <2>0 DEF First
    <3> QED BY <1>1, <1>4, <3>1 DEF SemUp
  <2>2. waking' = waking
    BY <1>1, <1>2, <2>1 DEF Places
  <2> HIDE DEF v, p
  <2>3. SemIs(object', object.spin, v, object.queue, p)
    BY <1>2, <2>0, <2>1, SemSetValuePosted
  <2>4. Parked' = Parked /\ Leaving' = Leaving
    BY <1>1, <2>3 DEF Parked, Leaving, SemIs
  <2>5. CountingInv("sem")'
    BY <1>1, <2>2, <2>3, <2>4 DEF SemInv, SemIs, CountingInv, CountingTypeOK, CountingCalls, QueuePlaces
  <2>6. Granted' = Granted
    BY <1>3, <2>4, GrantedIs
  <2>7. v + Granted = p
    BY <1>2, GrantedNat DEF SemInv, v, p
  <2> QED BY <2>0, <2>3, <2>5, <2>6, <2>7 DEF SemInv, SemIs
<1>5. CASE object.value = 0 /\ object.queue # <<>>
  <2> DEFINE h == Head(object.queue)
             r == Tail(object.queue)
             w == <<h>>
  <2>1. object' = Updated([queue |-> r, posted |-> p]) /\ waking' = [waking EXCEPT ![t] = w]
    BY <1>1, <1>5 DEF SemUp, First
  <2>2. h \in Threads /\ h \in ToSet(object.queue) /\ IsQueue(r, Threads)
        /\ ToSet(r) = ToSet(object.queue) \ {h}
    BY <1>2, <1>5, Dequeueing DEF Places
  <2>3. IsQueue(w, Threads) /\ ToSet(w) = {h} /\ Len(w) = 1
    BY <2>2, QueueOfOne
  <2> HIDE DEF h, r, w, p
  <2>4. SemIs(object', object.spin, object.value, r, p)
    BY <1>2, <2>1, <2>2, SemSetQueuePosted DEF IsQueue
  <2>5. /\ QueuePlaces'
        /\ \A u \in Threads : pc'[u] # "run" => waking'[u] = <<>>
        /\ Cardinality(Leaving') = Cardinality(Leaving) + Len(w)
    BY <1>1, <1>2, <2>1, <2>2, <2>3, <2>4, CountingRelease DEF SemIs
  <2>6. CountingInv("sem")'
    BY <1>1, <2>5 DEF SemInv, CountingInv, CountingTypeOK, CountingCalls
  <2>7. Granted' = Granted + 1
    BY <1>3, <2>3, <2>5, GrantedIs
  <2>8. object.value + (Granted + 1) = p
    BY <1>2, GrantedNat DEF SemInv, p
  <2> QED BY <1>5, <2>4, <2>6, <2>7, <2>8 DEF SemInv, SemIs
<1> QED BY <1>2, <1>4, <1>5

\* No other object's functions are called on a semaphore.
LEMMA SemStepInv == SemInv /\ [Next]_vars => SemInv'
<1> SUFFICES ASSUME SemInv, [Next]_vars PROVE SemInv'
  OBVIOUS
<1>1. /\ object.kind = Sem
      /\ \A t \in Threads : /\ pc[t] \notin {"oncelock", "onceinit", "unlock"}
                            /\ call[t] \notin {"lock", "cond"}
  BY SemFields DEF SemInv, CountingInv, CountingTypeOK
<1>2. ~MutexNext /\ ~RwlockNext /\ ~LifeNext
  BY <1>1, NotMutexStep, NotRwlockStep, NotLifeStep DEF Mutex, Rwlock, Sem, Life
<1>3. CASE UNCHANGED vars
  <2>1. Parked' = Parked /\ Granted' = Granted
    BY <1>3 DEF Parked, Granted, vars
  <2> QED BY <1>3, <2>1 DEF vars, SemInv, CountingInv, CountingTypeOK, CountingCalls, QueuePlaces
<1>4. CASE SemNext
  <2>1. PICK t \in Threads : SemDown(t) \/ SemWait(t) \/ SemTimedwaitInvalid(t) \/ SemPost(t)
          \/ SemResumed(t)
    BY <1>1, <1>4 DEF SemNext, BarrierWait, BarrierLast, OnceDone, OnceTest, OnceLock, OnceUnlock,
       MayCall, Running, Sem, Barrier, Once
  <2> QED BY <2>1, SemDownInv, SemWaitInv, SemTimedwaitInvalidInv, SemPostInv, SemResumedInv
<1>5. ASSUME NEW t \in Threads, Block(t) \/ Wakeup(t) PROVE SemInv'
  BY <1>5, CountingBlock, CountingWakeup DEF SemInv
<1> QED BY <1>2, <1>3, <1>4, <1>5 DEF Next

-----------------------------------------------------------------------------
(***************************************************************************)
(* Barriers.                                                               *)
(***************************************************************************)
BarrierObject ==
    [kind : {Barrier}, spin : BOOLEAN, count : Nat \ {0}, pending : Nat \ {0},
     queue : Seq(Threads), arrived : Nat, serial : Nat]

\* The threads that wait are those of the round that has begun, and all those
\* of the rounds before have been let go.
BarrierInv ==
    /\ object \in BarrierObject
    /\ CountingInv("barrier")
    /\ object.pending + Len(object.queue) = object.count
    /\ object.arrived = object.count * object.serial + Len(object.queue)
    /\ Granted = object.count * object.serial

LEMMA BarrierFields ==
  ASSUME object \in BarrierObject
  PROVE  /\ object.kind = Barrier /\ object.spin \in BOOLEAN
         /\ object.count \in Nat \ {0} /\ object.pending \in Nat \ {0}
         /\ object.queue \in Seq(Threads) /\ object.arrived \in Nat /\ object.serial \in Nat
         /\ Len(object.queue) \in Nat
BY DEF BarrierObject

BarrierIs(o, s, p, q, a, n) ==
    /\ o \in BarrierObject /\ o.count = object.count /\ o.spin = s /\ o.pending = p
    /\ o.queue = q /\ o.arrived = a /\ o.serial = n

LEMMA BarrierSetWait ==
  ASSUME object \in BarrierObject, NEW p \in Nat \ {0}, NEW a \in Nat, NEW q \in Seq(Threads),
         object' = Updated([pending |-> p, arrived |-> a, queue |-> q])
  PROVE  BarrierIs(object', object.spin, p, q, a, object.serial)
BY DEF BarrierObject, BarrierIs, Updated, With

LEMMA BarrierSetLast ==
  ASSUME object \in BarrierObject, NEW a \in Nat, NEW n \in Nat, NEW s \in BOOLEAN,
         NEW p \in Nat \ {0}, NEW q \in Seq(Threads),
         object' = With(Updated([arrived |-> a, serial |-> n, spin |-> s]),
                        [pending |-> p, queue |-> q])
  PROVE  BarrierIs(object', s, p, q, a, n)
<1> DEFINE o == Updated([arrived |-> a, serial |-> n, spin |-> s])
<1>1. /\ o \in BarrierObject /\ o.count = object.count /\ o.spin = s
      /\ o.arrived = a /\ o.serial = n
  BY DEF BarrierObject, Updated, With
<1> HIDE DEF o
<1>2. object' = With(o, [pending |-> p, queue |-> q])
  BY DEF o
<1> QED BY <1>1, <1>2 DEF BarrierObject, BarrierIs, With

LEMMA Rounds ==
  ASSUME NEW c \in Nat, NEW s \in Nat PROVE c * s \in Nat /\ c * (s + 1) = c * s + c
OBVIOUS

LEMMA RoundsBegun ==
  ASSUME NEW c \in Nat \ {0}, NEW s \in Nat, NEW r \in Nat, r < c
  PROVE  (c * s + r) \div c = s
OBVIOUS

LEMMA BarrierWaitInv == ASSUME BarrierInv, NEW t \in Threads, BarrierWait(t) PROVE BarrierInv'
<1> DEFINE q == <<t>> \o object.queue
           p == object.pending - 1
           a == object.arrived + 1
<1>1. /\ pc[t] = "run" /\ waking[t] = <<>> /\ holds[t] < MaxCalls /\ object.pending > 1
      /\ object' = Updated([pending |-> p, arrived |-> a, queue |-> q])
      /\ Enqueued(t, "barrier") /\ UNCHANGED <<waking, holds>>
  BY DEF BarrierWait, MayCall, Running, Enqueue
<1>2. q \in Seq(Threads) /\ p \in Nat \ {0} /\ a \in Nat
  <2>1. object.queue \in Seq(Threads) /\ object.pending \in Nat /\ object.arrived \in Nat
    BY BarrierFields DEF BarrierInv
  <2>2. q \in Seq(Threads)
    BY <2>1
  <2> QED BY <1>1, <2>1, <2>2
<1>3. BarrierIs(object', object.spin, p, q, a, object.serial)
  <2> HIDE DEF q, p, a
  <2> QED BY <1>1, <1>2, BarrierSetWait DEF BarrierInv
<1>4. CountingInv("barrier")' /\ Granted' = Granted /\ Len(object'.queue) = Len(object.queue) + 1
  BY <1>1, <1>3, CountingWait DEF BarrierInv, BarrierIs
<1>5. /\ p + (Len(object.queue) + 1) = object.count
      /\ a = object.count * object.serial + (Len(object.queue) + 1)
  <2> DEFINE m == object.count * object.serial
  <2>1. m \in Nat
    BY BarrierFields, Rounds DEF BarrierInv
  <2>2. object.arrived = m + Len(object.queue)
    BY DEF BarrierInv
  <2> HIDE DEF m
  <2>3. a = m + (Len(object.queue) + 1)
    BY <2>1, <2>2, BarrierFields DEF BarrierInv
  <2>4. p + (Len(object.queue) + 1) = object.count
    <3>1. /\ object.pending + Len(object.queue) = object.count
          /\ object.pending \in Nat /\ Len(object.queue) \in Nat
      BY BarrierFields DEF BarrierInv
    <3> QED BY <3>1
  <2> QED BY <2>3, <2>4 DEF m
<1> HIDE DEF q, p, a
<1> QED BY <1>3, <1>4, <1>5 DEF BarrierInv, BarrierIs

LEMMA BarrierLastInv == ASSUME BarrierInv, NEW t \in Threads, BarrierLast(t) PROVE BarrierInv'
<1> DEFINE w == object.queue
           e == <<>>
           a == object.arrived + 1
           n == object.serial + 1
           s == (object.count = 1)
<1>1. /\ pc[t] = "run" /\ waking[t] = <<>> /\ holds[t] < MaxCalls /\ object.pending = 1
      /\ object' = With(Updated([arrived |-> a, serial |-> n, spin |-> s]),
                        [pending |-> object.count, queue |-> e])
      /\ waking' = [waking EXCEPT ![t] = w] /\ Count(t) /\ UNCHANGED <<pc, call>>
  BY DEF BarrierLast, MayCall, Running, BarrierRound
<1>2. a \in Nat /\ n \in Nat /\ s \in BOOLEAN /\ e \in Seq(Threads) /\ object.count \in Nat \ {0}
      /\ Places(w, <<>>, waking, Parked) /\ CountingInv("barrier") /\ object \in BarrierObject
  BY BarrierFields DEF BarrierInv, CountingInv, QueuePlaces
<1>3. IsQueue(e, Threads) /\ ToSet(e) = {} /\ IsQueue(w, Threads) /\ Len(e) = 0
  BY <1>2, EmptyQueue DEF Places
<1> HIDE DEF w, e, a, n, s
<1>4. BarrierIs(object', s, object.count, e, a, n)
  BY <1>1, <1>2, BarrierSetLast
<1>5. /\ QueuePlaces'
      /\ \A u \in Threads : pc'[u] # "run" => waking'[u] = <<>>
      /\ Cardinality(Leaving') = Cardinality(Leaving) + Len(w)
  <2>1. ToSet(w) \cap ToSet(e) = {} /\ ToSet(w) \cup ToSet(e) = ToSet(object.queue)
    BY <1>3 DEF w
  <2> QED BY <1>1, <1>2, <1>3, <1>4, <2>1, CountingRelease DEF BarrierIs
<1>6. /\ holds' \in [Threads -> 0..MaxCalls]
      /\ Cardinality(Returned') = Cardinality(Returned) + 1
  BY <1>1, <1>2, OneMoreReturned DEF CountingInv, CountingTypeOK
<1>7. \A u \in Threads : u # t => holds'[u] = holds[u]
  BY <1>1, <1>2 DEF Count, CountingInv, CountingTypeOK
<1>8. CountingInv("barrier")'
  <2>1. CountingTypeOK("barrier")'
    BY <1>1, <1>2, <1>6 DEF CountingInv, CountingTypeOK
  <2>2. CountingCalls'
    BY <1>1, <1>2, <1>5, <1>7 DEF CountingInv, CountingTypeOK, CountingCalls
  <2> QED BY <1>5, <2>1, <2>2 DEF CountingInv
<1>9. Granted' = Granted + 1 + Len(w) /\ Len(w) \in Nat
  <2>1. Granted' = Cardinality(Returned') + Cardinality(Leaving')
    BY DEF Granted, Returned, Leaving
  <2>2. Len(w) \in Nat
    BY BarrierFields DEF BarrierInv, w
  <2> QED BY <1>5, <1>6, <2>1, <2>2, GrantedIs
<1>10. Len(w) + 1 = object.count
  BY <1>1, <1>2, <1>9 DEF BarrierInv, w
<1>11. /\ object.count * n = object.count * object.serial + object.count
       /\ object.count * object.serial \in Nat
  <2>1. object.count \in Nat /\ object.serial \in Nat
    BY BarrierFields DEF BarrierInv
  <2> QED BY <2>1, Rounds DEF n
<1>12. /\ a = object.count * n + Len(e) /\ Granted' = object.count * n
       /\ object.count + Len(e) = object.count
  <2> DEFINE m == object.count * object.serial
  <2>1. m \in Nat /\ object.arrived = m + Len(w) /\ Granted = m /\ object.count * n = m + object.count
    BY <1>11 DEF BarrierInv, w
  <2> HIDE DEF m
  <2>2. a = m + object.count
    BY <1>9, <1>10, <2>1 DEF a
  <2>3. Granted' = m + object.count
    BY <1>9, <1>10, <2>1
  <2> QED BY <1>2, <1>3, <2>1, <2>2, <2>3
<1> QED BY <1>4, <1>8, <1>12 DEF BarrierInv, BarrierIs

LEMMA BarrierResumedInv == ASSUME BarrierInv, NEW t \in Threads, SemResumed(t) PROVE BarrierInv'
<1>1. pc[t] = "resumed" /\ Count(t) /\ Return(t) /\ UNCHANGED <<object, waking>>
  BY DEF SemResumed
<1>2. CountingInv("barrier")' /\ Granted' = Granted
  BY <1>1, CountingResumed DEF BarrierInv
<1> QED BY <1>1, <1>2 DEF BarrierInv

\* No other object's functions are called on a barrier.
LEMMA BarrierStepInv == BarrierInv /\ [Next]_vars => BarrierInv'
<1> SUFFICES ASSUME BarrierInv, [Next]_vars PROVE BarrierInv'
  OBVIOUS
<1>1. /\ object.kind = Barrier
      /\ \A t \in Threads : /\ pc[t] \notin {"oncelock", "onceinit", "unlock"}
                            /\ call[t] \notin {"lock", "cond"}
  BY BarrierFields DEF BarrierInv, CountingInv, CountingTypeOK
<1>2. ~MutexNext /\ ~RwlockNext /\ ~LifeNext
  BY <1>1, NotMutexStep, NotRwlockStep, NotLifeStep DEF Mutex, Rwlock, Barrier, Life
<1>3. CASE UNCHANGED vars
  <2>1. Parked' = Parked /\ Granted' = Granted
    BY <1>3 DEF Parked, Granted, vars
  <2> QED BY <1>3, <2>1 DEF vars, BarrierInv, CountingInv, CountingTypeOK, CountingCalls, QueuePlaces
<1>4. CASE SemNext
  <2>1. PICK t \in Threads : BarrierWait(t) \/ BarrierLast(t) \/ SemResumed(t)
    BY <1>1, <1>4 DEF SemNext, SemDown, SemWait, SemTimedwaitInvalid, SemPost, OnceDone, OnceTest,
       OnceLock, OnceUnlock, MayCall, Running, Sem, Barrier, Once
  <2> QED BY <2>1, BarrierWaitInv, BarrierLastInv, BarrierResumedInv
<1>5. ASSUME NEW t \in Threads, Block(t) \/ Wakeup(t) PROVE BarrierInv'
  BY <1>5, CountingBlock, CountingWakeup DEF BarrierInv
<1> QED BY <1>2, <1>3, <1>4, <1>5 DEF Next

-----------------------------------------------------------------------------
(***************************************************************************)
(* pthread_once.                                                           *)
(***************************************************************************)
OnceObject == [kind : {Once}, spin : BOOLEAN, run : BOOLEAN, routines : Nat]

\* The lock is held exactly while a thread is in the init routine; the routine
\* has been called if it has been completed or a thread is in it.
OnceInv ==
    /\ object \in OnceObject
    /\ pc \in [Threads -> {"run", "oncelock", "onceinit"}]
    /\ holds \in [Threads -> Nat]
    /\ AllAwake
    /\ object.spin <=> \E t \in Threads : pc[t] = "onceinit"
    /\ \A t, u \in Threads : pc[t] = "onceinit" /\ pc[u] = "onceinit" => t = u
    /\ object.spin => ~object.run
    /\ object.routines = IF object.spin \/ object.run THEN 1 ELSE 0
    /\ \A t \in Threads : holds[t] > 0 => object.run

LEMMA OnceSetEnter ==
  ASSUME object \in OnceObject, NEW s \in BOOLEAN, NEW n \in Nat,
         object' = Updated([spin |-> s, routines |-> n])
  PROVE  object' \in OnceObject /\ object'.spin = s /\ object'.run = object.run /\ object'.routines = n
BY DEF OnceObject, Updated, With

LEMMA OnceSetRun ==
  ASSUME object \in OnceObject, NEW s \in BOOLEAN, NEW r \in BOOLEAN,
         object' = Updated([spin |-> s, run |-> r])
  PROVE  object' \in OnceObject /\ object'.spin = s /\ object'.run = r
        /\ object'.routines = object.routines
BY DEF OnceObject, Updated, With

LEMMA OnceStepInv == OnceInv /\ [Next]_vars => OnceInv'
<1> SUFFICES ASSUME OnceInv, [Next]_vars PROVE OnceInv'
  OBVIOUS
<1>1. /\ object.kind = Once /\ object \in OnceObject /\ object.routines \in Nat
      /\ object.run \in BOOLEAN /\ object.spin \in BOOLEAN
      /\ pc \in [Threads -> {"run", "oncelock", "onceinit"}] /\ holds \in [Threads -> Nat]
  BY DEF OnceInv, OnceObject
<1>2. \A t \in Threads : call[t] = "none" /\ waking[t] = <<>>
  BY DEF OnceInv, AllAwake
<1>3. ~MutexNext /\ ~RwlockNext /\ ~LifeNext
  <2>1. \A t \in Threads : pc[t] # "unlock" /\ call[t] \notin {"lock", "cond"}
    BY <1>1, <1>2
  <2> QED BY <1>1, <2>1, NotMutexStep, NotRwlockStep, NotLifeStep DEF Mutex, Rwlock, Once, Life
<1>4. \A t \in Threads : ~Block(t) /\ ~Wakeup(t)
  BY <1>1, <1>2 DEF Block, Wakeup
<1>5. CASE UNCHANGED vars
  BY <1>5 DEF vars, OnceInv, AllAwake
<1>6. ASSUME NEW t \in Threads, OnceDone(t) PROVE OnceInv'
  <2>1. object.run /\ holds' = [holds EXCEPT ![t] = holds[t] + 1]
          /\ UNCHANGED <<object, pc, call, waking>>
    BY <1>6 DEF OnceDone, Count
  <2>2. holds' \in [Threads -> Nat]
    BY <1>1, <2>1
  <2> QED BY <1>1, <2>1, <2>2 DEF OnceInv, AllAwake
<1>7. ASSUME NEW t \in Threads, OnceTest(t) PROVE OnceInv'
  <2>1. /\ pc[t] = "run" /\ pc' = [pc EXCEPT ![t] = "oncelock"]
        /\ UNCHANGED <<object, call, waking, holds>>
    BY <1>7 DEF OnceTest, MayCall, Running
  <2>2. pc' \in [Threads -> {"run", "oncelock", "onceinit"}]
        /\ \A u \in Threads : pc'[u] = "onceinit" <=> pc[u] = "onceinit"
    BY <1>1, <2>1
  <2> QED BY <2>1, <2>2 DEF OnceInv, AllAwake
<1>8. ASSUME NEW t \in Threads, OnceLock(t), ~object.run PROVE OnceInv'
  <2> DEFINE n == object.routines + 1
  <2>1. /\ pc[t] = "oncelock" /\ ~object.spin /\ object' = Updated([spin |-> TRUE, routines |-> n])
        /\ pc' = [pc EXCEPT ![t] = "onceinit"] /\ UNCHANGED <<call, waking, holds>>
    BY <1>8 DEF OnceLock, SpinLock
  <2>2. n = 1
    BY <1>8, <2>1 DEF OnceInv
  <2> HIDE DEF n
  <2>3. object' \in OnceObject /\ object'.spin = TRUE /\ object'.run = object.run /\ object'.routines = n
    BY <1>1, <2>1, <2>2, OnceSetEnter
  <2>4. pc' \in [Threads -> {"run", "oncelock", "onceinit"}]
        /\ \A u \in Threads : pc'[u] = "onceinit" <=> u = t
    BY <1>1, <2>1 DEF OnceInv
  <2> QED BY <1>8, <2>1, <2>2, <2>3, <2>4 DEF OnceInv, AllAwake
<1>9. ASSUME NEW t \in Threads, OnceLock(t), object.run PROVE OnceInv'
  <2>1. /\ pc[t] = "oncelock" /\ pc' = [pc EXCEPT ![t] = "run"]
        /\ holds' = [holds EXCEPT ![t] = holds[t] + 1] /\ UNCHANGED <<object, call, waking>>
    BY <1>9 DEF OnceLock, Count
  <2>2. /\ pc' \in [Threads -> {"run", "oncelock", "onceinit"}] /\ holds' \in [Threads -> Nat]
        /\ \A u \in Threads : pc'[u] = "onceinit" <=> pc[u] = "onceinit"
    BY <1>1, <2>1
  <2> QED BY <1>9, <2>1, <2>2 DEF OnceInv, AllAwake
<1>10. ASSUME NEW t \in Threads, OnceUnlock(t) PROVE OnceInv'
  <2>1. /\ pc[t] = "onceinit" /\ object' = Updated([spin |-> FALSE, run |-> TRUE])
        /\ pc' = [pc EXCEPT ![t] = "run"]
        /\ holds' = [holds EXCEPT ![t] = holds[t] + 1] /\ UNCHANGED <<call, waking>>
    BY <1>10 DEF OnceUnlock, Count
  <2>2. /\ object' \in OnceObject /\ object'.spin = FALSE /\ object'.run = TRUE
        /\ object'.routines = object.routines
    BY <1>1, <2>1, OnceSetRun
  <2>3. object.spin /\ object.routines = 1 /\ \A u \in Threads : pc[u] = "onceinit" => u = t
    BY <2>1 DEF OnceInv
  <2>4. /\ pc' \in [Threads -> {"run", "oncelock", "onceinit"}] /\ holds' \in [Threads -> Nat]
        /\ \A u \in Threads : pc'[u] # "onceinit"
    BY <1>1, <2>1, <2>3
  <2> QED BY <2>1, <2>2, <2>3, <2>4 DEF OnceInv, AllAwake
<1>11. CASE SemNext
  <2>1. PICK t \in Threads : OnceDone(t) \/ OnceTest(t) \/ OnceLock(t) \/ OnceUnlock(t)
    BY <1>1, <1>11 DEF SemNext, SemDown, SemWait, SemTimedwaitInvalid, SemPost, BarrierWait, BarrierLast,
       SemResumed, MayCall, Running, Sem, Barrier, Once
  <2> QED BY <2>1, <1>6, <1>7, <1>8, <1>9, <1>10
<1> QED BY <1>3, <1>4, <1>5, <1>11 DEF Next

-----------------------------------------------------------------------------
LEMMA SemInitInv ==
  ASSUME SemInit, pc = [t \in Threads |-> "run"], call = [t \in Threads |-> "none"],
         waking = [t \in Threads |-> <<>>]
  PROVE  SemInv \/ BarrierInv \/ OnceInv
<1>1. holds = [t \in Threads |-> 0]
  BY DEF SemInit
<1>2. ASSUME NEW v \in SemValues,
             object = [kind |-> Sem, spin |-> FALSE, value |-> v, queue |-> <<>>, posted |-> v]
      PROVE  SemInv
  <2>1. v \in Nat
    BY SemAssumption
  <2>2. object \in SemObject /\ object.queue = <<>> /\ object.value = v /\ object.posted = v
    BY <1>2, <2>1 DEF SemObject
  <2>3. CountingInv("sem") /\ Granted = 0
    BY <1>1, <2>2, CountingInit
  <2> QED BY <2>1, <2>2, <2>3 DEF SemInv
<1>3. ASSUME NEW c \in BarrierCounts,
             object = [kind |-> Barrier, spin |-> FALSE, count |-> c, pending |-> c,
                       queue |-> <<>>, arrived |-> 0, serial |-> 0]
      PROVE  BarrierInv
  <2>1. c \in Nat \ {0}
    BY SemAssumption
  <2>2. /\ object \in BarrierObject /\ object.queue = <<>> /\ object.count = c
        /\ object.pending = c /\ object.arrived = 0 /\ object.serial = 0
    BY <1>3, <2>1 DEF BarrierObject
  <2>3. CountingInv("barrier") /\ Granted = 0
    BY <1>1, <2>2, CountingInit
  <2>4. Len(object.queue) = 0 /\ c * 0 = 0
    BY <2>1, <2>2
  <2> QED BY <2>1, <2>2, <2>3, <2>4 DEF BarrierInv
<1>4. ASSUME object = [kind |-> Once, spin |-> FALSE, run |-> FALSE, routines |-> 0]
      PROVE  OnceInv
  <2>1. object \in OnceObject /\ object.spin = FALSE /\ object.run = FALSE /\ object.routines = 0
    BY <1>4 DEF OnceObject
  <2> QED BY <1>1, <2>1 DEF OnceInv, AllAwake
<1> QED BY <1>2, <1>3, <1>4 DEF SemInit

LEMMA LifeNextInv == LifeInv /\ [Next]_vars => LifeInv'
<1> SUFFICES ASSUME LifeInv, [Next]_vars PROVE LifeInv'
  OBVIOUS
<1>1. object.kind = Life /\ pc \in [Threads -> LifePlaces] /\ AllAwake
  BY LifeFacts
<1>2. \A t \in Threads : /\ call[t] = "none" /\ waking[t] = <<>>
                         /\ pc[t] \notin {"unlock", "enqueued", "oncelock", "onceinit"}
  BY <1>1 DEF AllAwake, LifePlaces, Idle, Ending
<1>3. ~MutexNext /\ ~RwlockNext /\ ~SemNext
  BY <1>1, <1>2, NotMutexStep, NotRwlockStep, NotSemStep DEF Mutex, Rwlock, Sem, Barrier, Once, Life
<1>4. \A t \in Threads : ~Block(t) /\ ~Wakeup(t)
  BY <1>2 DEF Block, Wakeup
<1>5. CASE UNCHANGED vars
  BY <1>5 DEF vars, LifeInv, LifeTypeOK, AllAwake
<1>6. CASE LifeNext
  BY <1>6, LifeStepInv
<1> QED BY <1>3, <1>4, <1>5, <1>6 DEF Next

(***************************************************************************)
(* The inductive invariant of the whole: the object keeps its kind, and    *)
(* with it the invariant of that kind.                                     *)
(***************************************************************************)
IInv == MutexInv \/ RwlockInv \/ SemInv \/ BarrierInv \/ OnceInv \/ LifeInv

LEMMA InitInv == Init => IInv
<1> SUFFICES ASSUME Init PROVE IInv
  OBVIOUS
<1>1. /\ pc = [t \in Threads |-> "run"] /\ call = [t \in Threads |-> "none"]
      /\ waking = [t \in Threads |-> <<>>]
  BY DEF Init
<1>2. CASE MutexInit
  BY <1>1, <1>2, MutexInitInv DEF IInv
<1>3. CASE RwlockInit
  BY <1>1, <1>3, RwlockInitInv DEF IInv
<1>4. CASE SemInit
  BY <1>1, <1>4, SemInitInv DEF IInv
<1>5. CASE LifeInit
  BY <1>1, <1>5, LifeInitInv DEF IInv, AllAwake
<1> QED BY <1>2, <1>3, <1>4, <1>5 DEF Init

LEMMA StepInv == IInv /\ [Next]_vars => IInv'
BY MutexStepInv, RwlockStepInv, SemStepInv, BarrierStepInv, OnceStepInv, LifeNextInv DEF IInv

LEMMA Kinds ==
  /\ MutexInv => object.kind = Mutex
  /\ RwlockInv => object.kind = Rwlock
  /\ SemInv => object.kind = Sem
  /\ BarrierInv => object.kind = Barrier
  /\ OnceInv => object.kind = Once
  /\ LifeInv => object.kind = Life
BY MutexFields, RwlockFields, SemFields, BarrierFields, LifeFacts
   DEF MutexInv, MutexTypeOK, RwlockInv, RwlockTypeOK, SemInv, BarrierInv, OnceInv, OnceObject

LEMMA KindsDiffer ==
  /\ Mutex \notin {Rwlock, Sem, Barrier, Once, Life} /\ Rwlock \notin {Sem, Barrier, Once, Life}
  /\ Sem \notin {Barrier, Once, Life} /\ Barrier \notin {Once, Life} /\ Once # Life
BY DEF Mutex, Rwlock, Sem, Barrier, Once, Life

-----------------------------------------------------------------------------
LEMMA BarrierExclusion ==
  ASSUME BarrierInv
  PROVE  /\ Granted = object.count * (object.arrived \div object.count)
         /\ object.serial = object.arrived \div object.count
<1> DEFINE c == object.count
           s == object.serial
           r == Len(object.queue)
<1>1. c \in Nat \ {0} /\ s \in Nat /\ r \in Nat /\ object.pending \in Nat \ {0}
  BY BarrierFields DEF BarrierInv
<1>2. object.pending + r = c /\ object.arrived = c * s + r /\ Granted = c * s
  BY DEF BarrierInv
<1> HIDE DEF c, s, r
<1>3. r < c
  BY <1>1, <1>2
<1>4. object.arrived \div c = s
  BY <1>1, <1>2, <1>3, RoundsBegun
<1> QED BY <1>2, <1>4 DEF c, s

LEMMA InvExclusion == IInv => Exclusion
<1>1. MutexInv => Exclusion
  BY Kinds, KindsDiffer DEF MutexInv, Exclusion, RwlockExclusion, SemExclusion
<1>2. RwlockInv => Exclusion
  BY Kinds, KindsDiffer DEF RwlockInv, Exclusion, MutexExclusion, SemExclusion
<1>3. SemInv => Exclusion
  BY Kinds, KindsDiffer DEF SemInv, Exclusion, MutexExclusion, RwlockExclusion, SemExclusion
<1>4. BarrierInv => Exclusion
  BY Kinds, KindsDiffer, BarrierExclusion DEF Exclusion, MutexExclusion, RwlockExclusion, SemExclusion
<1>5. OnceInv => Exclusion
  <2> SUFFICES ASSUME OnceInv PROVE Exclusion
    OBVIOUS
  <2>1. object.routines <= 1 /\ \A t \in Threads : holds[t] > 0 => object.run
    BY DEF OnceInv
  <2> QED BY <2>1, Kinds, KindsDiffer DEF Exclusion, MutexExclusion, RwlockExclusion, SemExclusion
<1>6. LifeInv => Exclusion
  BY Kinds, KindsDiffer DEF Exclusion, MutexExclusion, RwlockExclusion, SemExclusion
<1> QED BY <1>1, <1>2, <1>3, <1>4, <1>5, <1>6 DEF IInv

\* A thread that resumes a lock call is not on the queue any more.
LEMMA MutexInvAssertions ==
  ASSUME MutexInv
  PROVE  MutexAssertions
<1>1. /\ object.kind = Mutex /\ object.owner \in Threads \cup {None} /\ holds \in [Threads -> Nat]
      /\ object.locks \in Nat
  BY MutexFields DEF MutexInv, MutexTypeOK
<1>2. ~object.held => object.owner = None
  BY <1>1 DEF MutexInv, MutexExclusion
<1>3. ASSUME NEW t \in Threads, Resumed(t, "lock")
      PROVE  object.owner = t /\ (object.type = "recursive" => object.locks = 0)
  <2>1. t \notin Parked
    BY <1>3 DEF Resumed, Parked
  <2>2. t \notin ToSet(object.queue)
    BY <2>1 DEF MutexInv, MutexPlaces, Places
  <2>3. object.owner = t
    BY <1>1, <1>3, <2>2 DEF MutexInv, MutexExclusion, HandedTo, Resumed
  <2>4. holds[t] = 0
    BY <1>3 DEF MutexInv, MutexCalls, Resumed
  <2>5. object.owner # None
    BY <2>3, NoneNotThread
  <2>6. object.type = "recursive" => object.locks = holds[object.owner]
    BY <1>1, <2>5 DEF MutexInv, MutexExclusion
  <2> QED BY <2>3, <2>4, <2>6
<1> QED BY <1>2, <1>3 DEF MutexAssertions

LEMMA RwlockInvAssertions ==
  ASSUME RwlockInv
  PROVE  RwlockAssertions
<1>1. /\ object.kind = Rwlock /\ object.readers \in Nat
      /\ object.readers = 0 <=> Has("read") = {}
      /\ Has("write") # {} => Has("read") = {}
      /\ object.held <=> Has("read") \cup Has("write") # {}
  BY HasFacts
<1>2. /\ object.readerqueue # <<>> => object.held /\ object.readers = 0
      /\ object.writerqueue # <<>> => object.held
  BY DEF RwlockInv, RwlockWaits
<1>3. ASSUME NEW t \in Threads, pc[t] = "resumed"
             PROVE call[t] \in {"read", "write"} => t \in Has(call[t])
  <2>1. t \notin Parked
    BY <1>3 DEF Parked
  <2>2. t \notin ToSet(object.readerqueue) \cup ToSet(object.writerqueue)
    BY <2>1 DEF RwlockInv, RwlockPlaces, Places
  <2> QED BY <2>2 DEF Has
<1>4. \A t \in Threads : Resumed(t, "read") => object.readers > 0
  BY <1>1, <1>3 DEF Resumed
<1>5. \A t \in Threads : Resumed(t, "write") => object.readers = 0
  BY <1>1, <1>3 DEF Resumed
<1>6. ~object.held => object.readers = 0
  BY <1>1
<1>7. object.readers > 0 => object.readerqueue = <<>>
  BY <1>1, <1>2
<1> QED BY <1>2, <1>4, <1>5, <1>6, <1>7 DEF RwlockAssertions

LEMMA InvAssertions == IInv => Assertions
<1>1. MutexInv => Assertions
  BY Kinds, KindsDiffer, MutexInvAssertions DEF Assertions, RwlockAssertions, SemAssertions
<1>2. RwlockInv => Assertions
  BY Kinds, KindsDiffer, RwlockInvAssertions DEF Assertions, MutexAssertions, SemAssertions
<1>3. SemInv => Assertions
  BY Kinds, KindsDiffer DEF SemInv, Assertions, MutexAssertions, RwlockAssertions, SemAssertions
<1>4. BarrierInv => Assertions
  BY Kinds, KindsDiffer DEF BarrierInv, Assertions, MutexAssertions, RwlockAssertions, SemAssertions
<1>5. OnceInv \/ LifeInv => Assertions
  BY Kinds, KindsDiffer DEF Assertions, MutexAssertions, RwlockAssertions, SemAssertions
<1> QED BY <1>1, <1>2, <1>3, <1>4, <1>5 DEF IInv

\* Places, in the words of NobodyForgotten.
LEMMA PlacesForgetNobody ==
  ASSUME NEW A, NEW B, Places(A, B, waking, Parked),
         Queues \subseteq {A, B}, \A q \in {A, B} : ToSet(q) # {} => q \in Queues
  PROVE  /\ \A q \in Queues : IsInjective(q)
         /\ \A t \in Threads : IsInjective(waking[t])
         /\ \A u \in Threads :
               LET on == {q \in Queues : u \in ToSet(q)} IN
               Cardinality(on) + Cardinality(InList(u))
                   = IF Sleeping(u) \/ pc[u] = "unlock" THEN 1 ELSE 0
<1>1. \A q \in Queues : IsInjective(q)
  BY DEF Places, IsQueue
<1>2. \A t \in Threads : IsInjective(waking[t])
  BY DEF Places, IsQueue
<1>3. \A u \in Threads : u \in Parked <=> Sleeping(u) \/ pc[u] = "unlock"
  BY DEF Parked, Sleeping
<1>4. \A u \in Threads : Cardinality({q \in Queues : u \in ToSet(q)}) + Cardinality(InList(u))
                            = IF u \in Parked THEN 1 ELSE 0
  BY PlacesCount
<1> QED BY <1>1, <1>2, <1>3, <1>4

LEMMA AwakePlaces ==
  ASSUME AllAwake, Parked = {}
  PROVE  Places(<<>>, <<>>, waking, Parked)
BY EmptyQueue DEF AllAwake, Places, IsQueue

LEMMA InvForgotten == IInv => NobodyForgotten
<1>1. ToSet(<<>>) = {}
  BY EmptyQueue
<1>2. ASSUME MutexInv PROVE NobodyForgotten
  <2>1. object.kind = Mutex /\ Queues = {object.queue, object.waiters}
    BY <1>2, Kinds, KindsDiffer DEF Queues, MutexQueues, RwlockQueues, SemQueues
  <2>2. Places(object.queue, object.waiters, waking, Parked)
    BY <1>2 DEF MutexInv, MutexPlaces
  <2>3. object.queue # <<>> => object.held
    BY <1>2 DEF MutexInv, MutexWaits
  <2> QED BY <2>1, <2>2, <2>3, PlacesForgetNobody, KindsDiffer DEF NobodyForgotten
<1>3. ASSUME RwlockInv PROVE NobodyForgotten
  <2>1. object.kind = Rwlock /\ Queues = {object.readerqueue, object.writerqueue}
    BY <1>3, Kinds, KindsDiffer DEF Queues, MutexQueues, RwlockQueues, SemQueues
  <2>2. Places(object.readerqueue, object.writerqueue, waking, Parked)
    BY <1>3 DEF RwlockInv, RwlockPlaces
  <2>3. /\ object.writerqueue # <<>> => object.held
        /\ object.readerqueue # <<>> => object.held /\ object.readers = 0
    BY <1>3 DEF RwlockInv, RwlockWaits
  <2> QED BY <2>1, <2>2, <2>3, PlacesForgetNobody, KindsDiffer DEF NobodyForgotten
<1>4. ASSUME SemInv \/ BarrierInv PROVE NobodyForgotten
  <2>1. object.kind \in {Sem, Barrier} /\ Queues = {object.queue}
    BY <1>4, Kinds, KindsDiffer DEF Queues, MutexQueues, RwlockQueues, SemQueues
  <2>2. Places(object.queue, <<>>, waking, Parked)
    BY <1>4 DEF SemInv, BarrierInv, CountingInv, QueuePlaces
  <2> QED BY <1>1, <2>1, <2>2, PlacesForgetNobody, KindsDiffer DEF NobodyForgotten
<1>5. ASSUME OnceInv \/ LifeInv PROVE NobodyForgotten
  <2>1. object.kind \in {Once, Life} /\ Queues = {}
    BY <1>5, Kinds, KindsDiffer DEF Queues, MutexQueues, RwlockQueues, SemQueues
  <2>2. AllAwake
    BY <1>5, LifeFacts DEF OnceInv
  <2>3. Parked = {}
    <3>1. CASE OnceInv
      BY <3>1 DEF OnceInv, Parked
    <3>2. CASE LifeInv
      <4>1. pc \in [Threads -> LifePlaces]
        BY <3>2, LifeFacts
      <4> QED BY <4>1 DEF LifePlaces, Idle, Ending, Parked
    <3> QED BY <1>5, <3>1, <3>2
  <2>4. Places(<<>>, <<>>, waking, Parked)
    BY <2>2, <2>3, AwakePlaces
  <2> QED BY <1>1, <2>1, <2>4, PlacesForgetNobody, KindsDiffer DEF NobodyForgotten
<1> QED BY <1>2, <1>3, <1>4, <1>5 DEF IInv

LEMMA InvLivesWell == IInv => LivesWell
<1>1. LifeInv => LivesWell
  BY LifeCounted, LifeOwned DEF LivesWell
<1>2. object.kind # Life => LivesWell
  BY DEF LivesWell, CountedOnce, ResourcesOwned
<1> QED BY <1>1, <1>2, Kinds, KindsDiffer DEF IInv

LEMMA Invariance == Spec => []IInv
BY InitInv, StepInv, PTL DEF Spec

-----------------------------------------------------------------------------
\* For any number of threads and every object of libpthread: what the
\* functions keep in the object (owner, recursion count, reader count, value,
\* pending, run) is what the callers have been given, also while a mutex, a
\* lock or a unit is on its way from the thread that gives it up to the one
\* that has been taken off the queue and has not run yet.
THEOREM ExclusionHolds == Spec => []Exclusion
BY Invariance, InvExclusion, PTL

\* The assertions of pthread_mutex_lock, of the readers-writer locks, of
\* sem_post and of the barrier hold wherever they are evaluated, also by a
\* thread that resumes after others have run with the spin lock.
THEOREM AssertionsHold == Spec => []Assertions
BY Invariance, InvAssertions, PTL

\* A thread that has given up the processor in a blocking call is on exactly
\* one queue or one waker's list, once, and nobody else is on one; nobody
\* waits for a mutex or a readers-writer lock that is free.
THEOREM NobodyForgottenHolds == Spec => []NobodyForgotten
BY Invariance, InvForgotten, PTL

\* pthread_create, pthread_exit, pthread_join and pthread_detach, by any
\* number of threads and with any recycling of control blocks: stacks, kernel
\* threads, thread IDs and blocks are never in use twice, and __pthread_total
\* counts every thread once, so that the process exits with the last one.
THEOREM LivesWellHolds == Spec => []LivesWell
BY Invariance, InvLivesWell, PTL
=============================================================================
