--------------------------- MODULE KernelWaitProofs ---------------------------
(***************************************************************************)
(* The wait queues of the kernel, for any threads, objects and counts.     *)
(* First the operations of WaitQueue: they keep the linked lists in        *)
(* agreement with the sequences they stand for.  Then the messages of      *)
(* KernelWait: whoever is blocked is on a queue, under which conditions    *)
(* exactly the blocked threads are, and that every waiter can be found.    *)
(***************************************************************************)
EXTENDS KernelWait, FiniteSetTheorems, SequenceTheorems, WellFoundedInduction, TLAPS

Queues == [Oids -> Seq(Threads)]

\* A thread that is not marked as waiting is on no queue.
LEMMA NotQueued ==
  ASSUME NEW w \in Fields, NEW q \in Queues, Represents(w, q),
         NEW t \in Threads, ~w.p[t],
         NEW x \in Oids, NEW i \in 1..Len(q[x])
  PROVE  q[x][i] # t
  BY DEF Represents, Linked

\* Every waiter is a thread.
LEMMA WaiterIsThread ==
  ASSUME NEW q \in Queues, NEW x \in Oids, NEW i \in 1..Len(q[x])
  PROVE  q[x][i] \in Threads /\ q[x] \in Seq(Threads) /\ Len(q[x]) \in Nat
  BY DEF Queues

(***************************************************************************)
(* The first waiter of an object.                                          *)
(***************************************************************************)
LEMMA EnqueueFirstOK ==
  ASSUME NEW w \in Fields, NEW q \in Queues, Represents(w, q),
         NEW o \in Oids, NEW t \in Threads, ~w.p[t], ~w.fp[o]
  PROVE  LET v == EnqueueFirst(w, o, t)
             r == [q EXCEPT ![o] = <<t>> \o @]
         IN  v \in Fields /\ r \in Queues /\ Represents(v, r)
<1> DEFINE v == EnqueueFirst(w, o, t)
           r == [q EXCEPT ![o] = <<t>> \o @]
<1>1. q[o] = <<>>
  BY DEF Represents
<1>2. /\ r \in Queues /\ Len(r[o]) = 1 /\ r[o][1] = t /\ r[o] # <<>>
      /\ \A x \in Oids \ {o} : r[x] = q[x]
  BY <1>1 DEF Queues
<1>3. v \in Fields
  BY OidsAssumption DEF Fields, EnqueueFirst
<1>4. /\ \A y \in Threads : /\ v.p[y] <=> y = t \/ w.p[y]
                            /\ v.head[y] <=> y = t \/ w.head[y]
                            /\ v.tail[y] <=> y = t \/ w.tail[y]
                            /\ y # t => v.next[y] = w.next[y] /\ v.prev[y] = w.prev[y]
      /\ v.next[t] = o /\ v.prev[t] = t
  BY DEF Fields, EnqueueFirst
<1>5. /\ \A x \in Oids : v.fp[x] <=> x = o \/ w.fp[x]
      /\ \A x \in Oids \ {o} : v.fhead[x] = w.fhead[x]
      /\ v.fhead[o] = t
  BY DEF Fields, EnqueueFirst
<1> HIDE DEF v, r
<1>6. ASSUME NEW x \in Oids, NEW i \in 1..Len(r[x]) PROVE Linked(v, r, x, i)
  <2>1. CASE x = o
    <3>1. Len(r[x]) = 1 /\ r[x][1] = t
      BY <1>2, <2>1
    <3>2. i = 1
      BY <3>1
    <3> QED BY <1>4, <2>1, <3>1, <3>2 DEF Linked
  <2>2. CASE x # o
    <3>1. r[x] = q[x] /\ i \in 1..Len(q[x])
      BY <1>2, <1>6, <2>2
    <3>2. q[x][i] # t /\ q[x][i] \in Threads
      BY <3>1, NotQueued, WaiterIsThread
    <3>3. Linked(w, q, x, i)
      BY <3>1 DEF Represents
    <3> QED BY <3>1, <3>2, <3>3, <1>4 DEF Linked
  <2> QED BY <2>1, <2>2
<1>7. ASSUME NEW x \in Oids, NEW y \in Oids,
             NEW i \in 1..Len(r[x]), NEW j \in 1..Len(r[y]), r[x][i] = r[y][j]
      PROVE  x = y /\ i = j
  <2>1. CASE x = o /\ y = o
    <3>1. Len(r[x]) = 1 /\ Len(r[y]) = 1
      BY <1>2, <2>1
    <3> QED BY <2>1, <3>1
  <2>2. CASE x = o /\ y # o
    BY <1>2, <1>7, <2>2, NotQueued
  <2>3. CASE x # o /\ y = o
    BY <1>2, <1>7, <2>3, NotQueued
  <2>4. CASE x # o /\ y # o
    BY <1>2, <1>7, <2>4 DEF Represents
  <2> QED BY <2>1, <2>2, <2>3, <2>4
<1>8. ASSUME NEW y \in Threads, v.p[y]
      PROVE  \E x \in Oids : \E k \in 1..Len(r[x]) : r[x][k] = y
  <2>1. CASE y = t
    BY <1>2, <2>1
  <2>2. CASE y # t
    <3>1. PICK x \in Oids : \E k \in 1..Len(q[x]) : q[x][k] = y
      BY <1>4, <1>8, <2>2 DEF Represents
    <3>2. x # o
      BY <1>1, <3>1
    <3> QED BY <1>2, <3>1, <3>2
  <2> QED BY <2>1, <2>2
<1>9. \A x \in Oids : (v.fp[x] <=> r[x] # <<>>) /\ (r[x] # <<>> => v.fhead[x] = r[x][1])
  BY <1>2, <1>5 DEF Represents
<1> QED BY <1>2, <1>3, <1>6, <1>7, <1>8, <1>9 DEF Represents, v, r

\* What follows from Represents about one waiter, with its definition unfolded.
LEMMA LinkedFacts ==
  ASSUME NEW w \in Fields, NEW q \in Queues, Represents(w, q),
         NEW x \in Oids, NEW i \in 1..Len(q[x])
  PROVE  /\ w.p[q[x][i]]
         /\ w.head[q[x][i]] <=> i = 1
         /\ w.tail[q[x][i]] <=> i = Len(q[x])
         /\ i = Len(q[x]) => w.next[q[x][i]] = x
         /\ i # Len(q[x]) => w.next[q[x][i]] = q[x][i + 1]
         /\ i = 1 => w.prev[q[x][i]] = q[x][Len(q[x])]
         /\ i # 1 => w.prev[q[x][i]] = q[x][i - 1]
  BY DEF Represents, Linked

\* No thread is on two places of the queues.
LEMMA OnePlace ==
  ASSUME NEW w \in Fields, NEW q \in Queues, Represents(w, q),
         NEW x \in Oids, NEW y \in Oids, NEW i \in 1..Len(q[x]), NEW j \in 1..Len(q[y])
  PROVE  q[x][i] = q[y][j] => x = y /\ i = j
  BY DEF Represents

(***************************************************************************)
(* A further waiter of an object goes before the old head.                 *)
(***************************************************************************)
LEMMA EnqueueBeforeOK ==
  ASSUME NEW w \in Fields, NEW q \in Queues, Represents(w, q),
         NEW o \in Oids, NEW t \in Threads, ~w.p[t], w.fp[o]
  PROVE  LET v == EnqueueBefore(w, o, t, w.fhead[o])
             r == [q EXCEPT ![o] = <<t>> \o @]
         IN  v \in Fields /\ r \in Queues /\ Represents(v, r)
<1> DEFINE h == w.fhead[o]
           n == Len(q[o])
           v == EnqueueBefore(w, o, t, h)
           r == [q EXCEPT ![o] = <<t>> \o @]
<1>1. q[o] # <<>> /\ h = q[o][1]
  BY DEF Represents
<1>2. n \in Nat /\ n >= 1 /\ 1 \in 1..n /\ n \in 1..n
  BY <1>1 DEF Queues
<1>3. h \in Threads /\ h # t
  BY <1>1, <1>2, WaiterIsThread, NotQueued
<1>4. /\ r \in Queues /\ Len(r[o]) = n + 1 /\ r[o][1] = t /\ r[o] # <<>>
      /\ \A i \in 2..(n + 1) : r[o][i] = q[o][i - 1]
      /\ \A x \in Oids \ {o} : r[x] = q[x]
  BY <1>2 DEF Queues
<1>5. v \in Fields
  BY <1>3, OidsAssumption DEF Fields, EnqueueBefore
<1>6. w.prev[h] = q[o][n]
  BY <1>1, <1>2, LinkedFacts
<1>7. /\ \A y \in Threads : v.p[y] <=> y = t \/ w.p[y]
      /\ v.head[t] /\ ~v.head[h]
      /\ \A y \in Threads \ {t, h} : v.head[y] <=> w.head[y]
      /\ ~v.tail[t] /\ \A y \in Threads \ {t} : v.tail[y] <=> w.tail[y]
      /\ v.next[t] = h /\ \A y \in Threads \ {t} : v.next[y] = w.next[y]
      /\ v.prev[t] = q[o][n] /\ v.prev[h] = t
      /\ \A y \in Threads \ {t, h} : v.prev[y] = w.prev[y]
  BY <1>3, <1>6 DEF Fields, EnqueueBefore
<1>8. /\ \A x \in Oids : v.fp[x] <=> w.fp[x]
      /\ \A x \in Oids \ {o} : v.fhead[x] = w.fhead[x]
      /\ v.fhead[o] = t
  BY DEF Fields, EnqueueBefore
<1> HIDE DEF v, r, h, n
<1>9. ASSUME NEW x \in Oids, x # o, NEW i \in 1..Len(r[x]) PROVE Linked(v, r, x, i)
  <2>1. r[x] = q[x] /\ i \in 1..Len(q[x])
    BY <1>4, <1>9
  <2>2. q[x][i] # t /\ q[x][i] \in Threads
    BY <2>1, NotQueued, WaiterIsThread
  <2>3. q[x][i] # h
    BY <1>1, <1>2, <1>9, <2>1, OnePlace DEF n
  <2>4. Linked(w, q, x, i)
    BY <2>1 DEF Represents
  <2> QED BY <1>7, <2>1, <2>2, <2>3, <2>4 DEF Linked
<1>10. ASSUME NEW k \in 1..Len(r[o]) PROVE Linked(v, r, o, k)
  <2>1. CASE k = 1
    <3>1. r[o][k] = t /\ k # Len(r[o]) /\ r[o][k + 1] = h /\ r[o][Len(r[o])] = q[o][n]
      BY <1>1, <1>2, <1>4, <2>1
    <3> QED BY <1>3, <1>7, <2>1, <3>1 DEF Linked
  <2>2. CASE k = 2
    <3>1. /\ r[o][k] = h /\ r[o][k - 1] = t
          /\ k = Len(r[o]) <=> n = 1
          /\ k # Len(r[o]) => r[o][k + 1] = q[o][2]
      BY <1>1, <1>2, <1>4, <2>2
    <3>2. /\ w.p[h] /\ (w.tail[h] <=> n = 1)
          /\ n = 1 => w.next[h] = o
          /\ n # 1 => w.next[h] = q[o][2]
      <4>1. 1 \in 1..Len(q[o]) /\ h = q[o][1] /\ n = Len(q[o]) /\ 1 + 1 = 2
        BY <1>1, <1>2 DEF n
      <4>2. \A i \in 1..Len(q[o]) :
              /\ w.p[q[o][i]] /\ (w.tail[q[o][i]] <=> i = Len(q[o]))
              /\ i = Len(q[o]) => w.next[q[o][i]] = o
              /\ i # Len(q[o]) => w.next[q[o][i]] = q[o][i + 1]
        BY LinkedFacts
      <4> QED BY <4>1, <4>2
    <3> QED BY <1>3, <1>7, <2>2, <3>1, <3>2 DEF Linked
  <2>3. CASE k > 2
    <3> DEFINE e == q[o][k - 1]
    <3>1. k - 1 \in 1..n /\ k - 1 # 1 /\ r[o][k] = e
      BY <1>2, <1>4, <2>3
    <3>2. e \in Threads /\ e # t
      BY <3>1, NotQueued, WaiterIsThread DEF n
    <3>3. e # h
      BY <1>1, <1>2, <3>1, OnePlace DEF n
    <3>4. /\ w.p[e] /\ ~w.head[e] /\ (w.tail[e] <=> k - 1 = n)
          /\ k - 1 = n => w.next[e] = o
          /\ k - 1 # n => w.next[e] = q[o][(k - 1) + 1]
          /\ w.prev[e] = q[o][(k - 1) - 1]
      BY <3>1, LinkedFacts DEF n
    <3>5. /\ k = Len(r[o]) <=> k - 1 = n
          /\ k # Len(r[o]) => r[o][k + 1] = q[o][(k - 1) + 1]
          /\ r[o][k - 1] = q[o][(k - 1) - 1]
      BY <1>2, <1>4, <2>3
    <3> HIDE DEF e
    <3> QED BY <1>7, <2>3, <3>1, <3>2, <3>3, <3>4, <3>5 DEF Linked
  <2> QED BY <1>2, <1>4, <2>1, <2>2, <2>3
<1>11. ASSUME NEW x \in Oids, NEW y \in Oids,
              NEW i \in 1..Len(r[x]), NEW j \in 1..Len(r[y]), r[x][i] = r[y][j]
       PROVE  x = y /\ i = j
  <2>1. ASSUME NEW z \in Oids, NEW k \in 1..Len(r[z]), ~(z = o /\ k = 1)
        PROVE  /\ r[z][k] # t
               /\ z # o => k \in 1..Len(q[z]) /\ r[z][k] = q[z][k]
               /\ z = o => k - 1 \in 1..Len(q[z]) /\ r[z][k] = q[z][k - 1]
    <3>1. CASE z = o
      <4>1. k - 1 \in 1..n /\ r[z][k] = q[z][k - 1]
        BY <1>2, <1>4, <2>1, <3>1
      <4> QED BY <4>1, <3>1, NotQueued DEF n
    <3>2. CASE z # o
      <4>1. k \in 1..Len(q[z]) /\ r[z][k] = q[z][k]
        BY <1>4, <3>2
      <4> QED BY <4>1, <3>2, NotQueued
    <3> QED BY <3>1, <3>2
  <2>2. CASE x = o /\ i = 1
    BY <1>4, <1>11, <2>1, <2>2
  <2>3. CASE y = o /\ j = 1
    BY <1>4, <1>11, <2>1, <2>3
  <2>4. CASE ~(x = o /\ i = 1) /\ ~(y = o /\ j = 1)
    <3>1. CASE x # o /\ y # o
      BY <1>11, <2>1, <2>4, <3>1, OnePlace
    <3>2. CASE x = o /\ y # o
      BY <1>11, <2>1, <2>4, <3>2, OnePlace
    <3>3. CASE x # o /\ y = o
      BY <1>11, <2>1, <2>4, <3>3, OnePlace
    <3>4. CASE x = o /\ y = o
      <4>1. i - 1 \in 1..Len(q[o]) /\ j - 1 \in 1..Len(q[o]) /\ q[o][i - 1] = q[o][j - 1]
        BY <1>11, <2>1, <2>4, <3>4
      <4>2. i - 1 = j - 1
        BY <4>1, OnePlace
      <4> QED BY <4>2, <3>4
    <3> QED BY <3>1, <3>2, <3>3, <3>4
  <2> QED BY <2>2, <2>3, <2>4
<1>12. ASSUME NEW y \in Threads, v.p[y]
       PROVE  \E x \in Oids : \E k \in 1..Len(r[x]) : r[x][k] = y
  <2>1. CASE y = t
    BY <1>2, <1>4, <2>1
  <2>2. CASE y # t
    <3>0. PICK x \in Oids : \E k \in 1..Len(q[x]) : q[x][k] = y
      BY <1>7, <1>12, <2>2 DEF Represents
    <3>1. PICK k \in 1..Len(q[x]) : q[x][k] = y
      BY <3>0
    <3>2. CASE x = o
      <4>1. k + 1 \in 1..Len(r[o]) /\ r[o][k + 1] = q[o][(k + 1) - 1] /\ (k + 1) - 1 = k
        BY <1>2, <1>4, <3>1, <3>2 DEF n
      <4> QED BY <3>1, <3>2, <4>1
    <3>3. CASE x # o
      BY <1>4, <3>1, <3>3
    <3> QED BY <3>2, <3>3
  <2> QED BY <2>1, <2>2
<1>13. \A x \in Oids : (v.fp[x] <=> r[x] # <<>>) /\ (r[x] # <<>> => v.fhead[x] = r[x][1])
  BY <1>4, <1>8 DEF Represents
<1>14. \A x \in Oids : \A i \in 1..Len(r[x]) : Linked(v, r, x, i)
  BY <1>9, <1>10
<1> QED BY <1>4, <1>5, <1>11, <1>12, <1>13, <1>14 DEF Represents, v, r, h

(***************************************************************************)
(* The sequences after the k-th waiter of o has left: the ones behind it   *)
(* move up, nobody else does, and everybody else is still there once.      *)
(***************************************************************************)
Removed(q, o, k) == [q EXCEPT ![o] = Without(@, k)]

IsRemoved(q, o, k, r) ==
  /\ r \in Queues /\ Len(r[o]) = Len(q[o]) - 1 /\ Len(q[o]) \in Nat
  /\ \A i \in 1..(Len(q[o]) - 1) : r[o][i] = IF i < k THEN q[o][i] ELSE q[o][i + 1]
  /\ \A x \in Oids \ {o} : r[x] = q[x]
  /\ \A x, y \in Oids : \A i \in 1..Len(r[x]), j \in 1..Len(r[y]) :
        r[x][i] = r[y][j] => x = y /\ i = j
  /\ \A x \in Oids : \A i \in 1..Len(q[x]) :
        q[x][i] # q[o][k] => \E j \in 1..Len(r[x]) : r[x][j] = q[x][i]

LEMMA WithoutFacts ==
  ASSUME NEW w \in Fields, NEW q \in Queues, Represents(w, q),
         NEW o \in Oids, NEW k \in 1..Len(q[o])
  PROVE  IsRemoved(q, o, k, Removed(q, o, k))
<1> DEFINE r == [q EXCEPT ![o] = Without(@, k)]
           n == Len(q[o])
<1>1. n \in Nat /\ n >= 1 /\ q[o] \in Seq(Threads) /\ k \in Nat /\ 1 <= k /\ k <= n
  BY DEF Queues
<1>2. Without(q[o], k) \in Seq(Threads) /\ Len(Without(q[o], k)) = n - 1
  <2>1. n - 1 \in Nat /\ \A i \in 1..(n - 1) : (IF i < k THEN q[o][i] ELSE q[o][i + 1]) \in Threads
    BY <1>1
  <2> QED BY <2>1 DEF Without
<1>3. /\ r \in Queues /\ Len(r[o]) = n - 1
      /\ \A x \in Oids \ {o} : r[x] = q[x]
      /\ r[o] = Without(q[o], k)
  BY <1>2 DEF Queues
<1>4. \A i \in 1..(n - 1) : r[o][i] = IF i < k THEN q[o][i] ELSE q[o][i + 1]
  BY <1>3 DEF Without
<1> DEFINE src(z, i) == IF z = o /\ i >= k THEN i + 1 ELSE i
<1> HIDE DEF r, n
<1>5. ASSUME NEW z \in Oids, NEW i \in 1..Len(r[z])
      PROVE  src(z, i) \in 1..Len(q[z]) /\ r[z][i] = q[z][src(z, i)]
  <2>1. CASE z = o
    <3>1. i \in 1..(n - 1)
      BY <1>3, <2>1
    <3>2. r[o][i] = q[o][src(o, i)] /\ src(o, i) \in 1..n
      BY <1>1, <1>4, <3>1
    <3> QED BY <2>1, <3>2 DEF n
  <2>2. CASE z # o
    BY <1>3, <2>2
  <2> QED BY <2>1, <2>2
<1>6. ASSUME NEW x \in Oids, NEW y \in Oids,
             NEW i \in 1..Len(r[x]), NEW j \in 1..Len(r[y]), r[x][i] = r[y][j]
      PROVE  x = y /\ i = j
  <2>1. x = y /\ src(x, i) = src(y, j)
    <3>1. q[x][src(x, i)] = q[y][src(y, j)] /\ src(x, i) \in 1..Len(q[x]) /\ src(y, j) \in 1..Len(q[y])
      BY <1>5, <1>6
    <3> HIDE DEF src
    <3> QED BY <3>1, OnePlace
  <2>2. i \in Nat /\ j \in Nat /\ k \in Nat
    BY <1>1
  <2> QED BY <2>1, <2>2
<1>7. ASSUME NEW x \in Oids, NEW i \in 1..Len(q[x]), q[x][i] # q[o][k]
      PROVE  \E j \in 1..Len(r[x]) : r[x][j] = q[x][i]
  <2>1. CASE x = o /\ i < k
    <3>1. i \in 1..(n - 1) /\ i \in 1..Len(r[x])
      BY <1>1, <1>3, <2>1 DEF n
    <3>2. r[x][i] = q[x][i]
      BY <1>4, <2>1, <3>1
    <3> QED BY <3>1, <3>2
  <2>2. CASE x = o /\ i > k
    <3>1. i - 1 \in 1..(n - 1) /\ i - 1 \in 1..Len(r[x]) /\ ~(i - 1 < k) /\ (i - 1) + 1 = i
      BY <1>1, <1>3, <2>2 DEF n
    <3>2. r[x][i - 1] = q[x][i]
      BY <1>4, <2>2, <3>1
    <3> QED BY <3>1, <3>2
  <2>3. CASE x # o
    BY <1>3, <2>3
  <2>4. x = o => i # k
    BY <1>7
  <2> QED BY <1>1, <2>1, <2>2, <2>3, <2>4 DEF n
<1> QED BY <1>1, <1>3, <1>4, <1>6, <1>7 DEF r, n, Removed, IsRemoved

(***************************************************************************)
(* The only waiter leaves.                                                 *)
(***************************************************************************)
LEMMA DequeueOnlyOK ==
  ASSUME NEW w \in Fields, NEW q \in Queues, Represents(w, q),
         NEW o \in Oids, Len(q[o]) = 1
  PROVE  LET v == DequeueOnly(w, q[o][1])
             r == [q EXCEPT ![o] = Without(@, 1)]
         IN  v \in Fields /\ r \in Queues /\ Represents(v, r)
<1> DEFINE t == q[o][1]
           v == DequeueOnly(w, t)
           r == [q EXCEPT ![o] = Without(@, 1)]
<1>0. 1 \in 1..Len(q[o])
  OBVIOUS
<1>1a. IsRemoved(q, o, 1, r)
  BY <1>0, WithoutFacts DEF Removed
<1>1. /\ r \in Queues /\ Len(r[o]) = 0
      /\ \A x \in Oids \ {o} : r[x] = q[x]
      /\ \A x, y \in Oids : \A i \in 1..Len(r[x]), j \in 1..Len(r[y]) :
            r[x][i] = r[y][j] => x = y /\ i = j
      /\ \A x \in Oids : \A i \in 1..Len(q[x]) :
            q[x][i] # t => \E j \in 1..Len(r[x]) : r[x][j] = q[x][i]
  <2> HIDE DEF r
  <2> QED BY <1>1a DEF IsRemoved
<1>2. t \in Threads /\ w.next[t] = o
  BY <1>0, WaiterIsThread, LinkedFacts
<1> HIDE DEF r, t
<1>3. v \in Fields
  BY <1>2 DEF Fields, DequeueOnly
<1>4. /\ \A y \in Threads : v.p[y] <=> y # t /\ w.p[y]
      /\ v.head = w.head /\ v.tail = w.tail /\ v.next = w.next /\ v.prev = w.prev
      /\ \A x \in Oids : v.fp[x] <=> x # o /\ w.fp[x]
      /\ v.fhead = w.fhead
  BY <1>2 DEF Fields, DequeueOnly
<1> HIDE DEF v
<1>5. ASSUME NEW x \in Oids, NEW i \in 1..Len(r[x]) PROVE Linked(v, r, x, i)
  <2>1. x # o
    BY <1>1, <1>5
  <2>2. r[x] = q[x] /\ i \in 1..Len(q[x])
    BY <1>1, <2>1
  <2>3. q[x][i] \in Threads /\ q[x][i] # t
    BY <1>0, <2>1, <2>2, OnePlace, WaiterIsThread DEF t
  <2>4. Linked(w, q, x, i)
    BY <2>2 DEF Represents
  <2> QED BY <1>4, <2>2, <2>3, <2>4 DEF Linked
<1>6. \A x \in Oids : (v.fp[x] <=> r[x] # <<>>) /\ (r[x] # <<>> => v.fhead[x] = r[x][1])
  <2>1. r[o] = <<>>
    BY <1>1 DEF Queues
  <2> QED BY <1>1, <1>4, <2>1 DEF Represents
<1>7. ASSUME NEW y \in Threads, v.p[y]
      PROVE  \E x \in Oids : \E j \in 1..Len(r[x]) : r[x][j] = y
  <2>1. y # t /\ \E x \in Oids : \E i \in 1..Len(q[x]) : q[x][i] = y
    BY <1>4, <1>7 DEF Represents
  <2> QED BY <1>1, <2>1
<1> QED BY <1>1, <1>3, <1>5, <1>6, <1>7 DEF Represents, v, r, t

\* v has the fields of w for every thread that does not wait for o.
SameElsewhere(w, v, q, o) ==
  \A y \in Threads : (\A i \in 1..Len(q[o]) : q[o][i] # y) =>
     /\ v.p[y] <=> w.p[y]
     /\ v.head[y] <=> w.head[y]
     /\ v.tail[y] <=> w.tail[y]
     /\ v.next[y] = w.next[y] /\ v.prev[y] = w.prev[y]

(***************************************************************************)
(* What remains to be shown when one of several waiters leaves: the links  *)
(* of the others that wait for the same object, and the folio's head.      *)
(***************************************************************************)
LEMMA RemovedRepresents ==
  ASSUME NEW w \in Fields, NEW q \in Queues, Represents(w, q),
         NEW o \in Oids, NEW k \in 1..Len(q[o]), Len(q[o]) > 1,
         NEW r, IsRemoved(q, o, k, r), NEW v \in Fields,
         \A y \in Threads : v.p[y] <=> y # q[o][k] /\ w.p[y],
         SameElsewhere(w, v, q, o),
         \A x \in Oids : v.fp[x] <=> w.fp[x],
         v.fhead[o] = r[o][1], \A x \in Oids \ {o} : v.fhead[x] = w.fhead[x],
         \A i \in 1..Len(r[o]) : Linked(v, r, o, i)
  PROVE  Represents(v, r)
<1>1. ASSUME NEW x \in Oids, x # o, NEW i \in 1..Len(r[x]) PROVE Linked(v, r, x, i)
  <2>1. r[x] = q[x] /\ i \in 1..Len(q[x])
    BY <1>1 DEF IsRemoved
  <2>2. q[x][i] \in Threads /\ \A j \in 1..Len(q[o]) : q[o][j] # q[x][i]
    BY <1>1, <2>1, WaiterIsThread, OnePlace
  <2>3. Linked(w, q, x, i)
    BY <2>1 DEF Represents
  <2>4. LET y == q[x][i]
        IN  /\ v.p[y] <=> w.p[y]
            /\ v.head[y] <=> w.head[y]
            /\ v.tail[y] <=> w.tail[y]
            /\ v.next[y] = w.next[y] /\ v.prev[y] = w.prev[y]
    BY <2>2 DEF SameElsewhere
  <2> QED BY <2>1, <2>3, <2>4 DEF Linked
<1>2. ASSUME NEW y \in Threads, v.p[y]
      PROVE  \E x \in Oids : \E j \in 1..Len(r[x]) : r[x][j] = y
  <2>1. y # q[o][k] /\ \E x \in Oids : \E i \in 1..Len(q[x]) : q[x][i] = y
    BY <1>2 DEF Represents
  <2>2. PICK x \in Oids : \E i \in 1..Len(q[x]) : q[x][i] = y
    BY <2>1
  <2>3. \A i \in 1..Len(q[x]) :
           q[x][i] # q[o][k] => \E j \in 1..Len(r[x]) : r[x][j] = q[x][i]
    BY DEF IsRemoved
  <2> QED BY <2>1, <2>2, <2>3
<1>3. \A x \in Oids : (v.fp[x] <=> r[x] # <<>>) /\ (r[x] # <<>> => v.fhead[x] = r[x][1])
  <2>1. r[o] # <<>> /\ q[o] # <<>>
    BY DEF IsRemoved, Queues
  <2>2. \A x \in Oids \ {o} : r[x] = q[x]
    BY DEF IsRemoved
  <2> QED BY <2>1, <2>2 DEF Represents
<1>4. \A x \in Oids : \A i \in 1..Len(r[x]) : Linked(v, r, x, i)
  BY <1>1
<1> QED BY <1>2, <1>3, <1>4 DEF Represents, IsRemoved

(***************************************************************************)
(* The tail leaves a queue of several.                                     *)
(***************************************************************************)
LEMMA DequeueTailOK ==
  ASSUME NEW w \in Fields, NEW q \in Queues, Represents(w, q),
         NEW o \in Oids, Len(q[o]) > 1
  PROVE  LET v == DequeueTail(w, q[o][Len(q[o])])
             r == Removed(q, o, Len(q[o]))
         IN  v \in Fields /\ r \in Queues /\ Represents(v, r)
<1> DEFINE n == Len(q[o])
           t == q[o][n]
           v == DequeueTail(w, t)
           r == Removed(q, o, n)
           h == q[o][1]
           b == q[o][n - 1]
<1>0. n \in Nat /\ n > 1 /\ n \in 1..n /\ 1 \in 1..n /\ n - 1 \in 1..n /\ n # 1
  <2>1. n \in Nat
    BY DEF Queues
  <2> HIDE DEF n
  <2>2. n > 1
    BY DEF n
  <2> QED BY <2>1, <2>2
<1>1. IsRemoved(q, o, n, r)
  BY <1>0, WithoutFacts
<1> HIDE DEF r
<1>2. \A i \in 1..n : /\ q[o][i] \in Threads /\ w.p[q[o][i]]
                      /\ w.head[q[o][i]] <=> i = 1
                      /\ w.tail[q[o][i]] <=> i = n
                      /\ i = n => w.next[q[o][i]] = o
                      /\ i # n => w.next[q[o][i]] = q[o][i + 1]
                      /\ i = 1 => w.prev[q[o][i]] = q[o][n]
                      /\ i # 1 => w.prev[q[o][i]] = q[o][i - 1]
  BY LinkedFacts, WaiterIsThread
<1>3. \A i, j \in 1..n : q[o][i] = q[o][j] => i = j
  BY OnePlace
<1>4. /\ t \in Threads /\ h \in Threads /\ b \in Threads
      /\ w.next[t] = o /\ w.prev[t] = b /\ w.fhead[o] = h /\ b # t
  <2>1. q[o] # <<>>
    BY <1>0 DEF Queues
  <2>2. w.fhead[o] = h
    BY <2>1 DEF Represents
  <2> QED BY <1>0, <1>2, <1>3, <2>2
<1> HIDE DEF t, h, b, n
<1>5. /\ v \in Fields
      /\ \A y \in Threads : v.p[y] <=> y # t /\ w.p[y]
      /\ v.head = w.head /\ v.fp = w.fp /\ v.fhead = w.fhead
      /\ v.tail[b] /\ v.next[b] = o /\ v.prev[h] = b
      /\ \A y \in Threads \ {b} : (v.tail[y] <=> w.tail[y]) /\ v.next[y] = w.next[y]
      /\ \A y \in Threads \ {h} : v.prev[y] = w.prev[y]
  BY <1>4, OidsAssumption DEF Fields, DequeueTail
<1> HIDE DEF v
<1>6. /\ Len(r[o]) = n - 1
      /\ \A i \in 1..(n - 1) : r[o][i] = q[o][i]
      /\ r \in Queues
  BY <1>0, <1>1 DEF IsRemoved, n
<1>7. ASSUME NEW i \in 1..Len(r[o]) PROVE Linked(v, r, o, i)
  <2>1. i \in 1..(n - 1) /\ i \in 1..n /\ r[o][i] = q[o][i] /\ i # n /\ q[o][i] # t
    BY <1>0, <1>3, <1>6 DEF t
  <2>2. (q[o][i] = b <=> i = n - 1) /\ (q[o][i] = h <=> i = 1)
    BY <1>0, <1>3, <2>1 DEF b, h
  <2>3. v.p[r[o][i]] /\ (v.head[r[o][i]] <=> i = 1)
    BY <1>2, <1>5, <2>1
  <2>a. q[o][i] \in Threads /\ ~w.tail[q[o][i]] /\ w.next[q[o][i]] = q[o][i + 1]
    BY <1>2, <2>1
  <2>b. i # 1 => w.prev[q[o][i]] = q[o][i - 1]
    BY <1>2, <2>1
  <2>4. v.tail[q[o][i]] <=> i = n - 1
    BY <1>5, <2>2, <2>a
  <2>5. i = n - 1 => v.next[q[o][i]] = o
    BY <1>5, <2>2
  <2>6. i # n - 1 => v.next[q[o][i]] = r[o][i + 1]
    <3>1. i # n - 1 => i + 1 \in 1..(n - 1)
      BY <1>0, <2>1
    <3>2. i # n - 1 => r[o][i + 1] = q[o][i + 1]
      BY <1>6, <3>1
    <3> QED BY <1>5, <2>2, <2>a, <3>2
  <2>7. i = 1 => v.prev[q[o][i]] = r[o][n - 1]
    <3>1. r[o][n - 1] = b
      BY <1>0, <1>6 DEF b
    <3> QED BY <1>5, <2>2, <3>1
  <2>8. i # 1 => v.prev[q[o][i]] = r[o][i - 1]
    <3>1. i # 1 => i - 1 \in 1..(n - 1)
      BY <1>0, <2>1
    <3>2. i # 1 => r[o][i - 1] = q[o][i - 1]
      BY <1>6, <3>1
    <3> QED BY <1>5, <2>2, <2>a, <2>b, <3>2
  <2> QED BY <1>6, <2>1, <2>3, <2>4, <2>5, <2>6, <2>7, <2>8 DEF Linked
<1>8. SameElsewhere(w, v, q, o)
  BY <1>0, <1>5 DEF SameElsewhere, t, h, b, n
<1>9. v.fhead[o] = r[o][1]
  BY <1>0, <1>4, <1>5, <1>6 DEF h
<1>10. Represents(v, r)
  BY <1>0, <1>1, <1>5, <1>7, <1>8, <1>9, RemovedRepresents DEF t, n
<1> QED BY <1>5, <1>6, <1>10 DEF v, r, t, n

(***************************************************************************)
(* The head leaves a queue of several.                                     *)
(***************************************************************************)
LEMMA DequeueHeadOK ==
  ASSUME NEW w \in Fields, NEW q \in Queues, Represents(w, q),
         NEW o \in Oids, Len(q[o]) > 1
  PROVE  LET v == DequeueHead(w, q[o][1])
             r == Removed(q, o, 1)
         IN  v \in Fields /\ r \in Queues /\ Represents(v, r)
<1> DEFINE n == Len(q[o])
           t == q[o][1]
           v == DequeueHead(w, t)
           r == Removed(q, o, 1)
           h == q[o][2]
           l == q[o][n]
<1>0. n \in Nat /\ n > 1 /\ n \in 1..n /\ 1 \in 1..n /\ 2 \in 1..n /\ n # 1
  <2>1. n \in Nat
    BY DEF Queues
  <2> HIDE DEF n
  <2>2. n > 1
    BY DEF n
  <2> QED BY <2>1, <2>2
<1>1. IsRemoved(q, o, 1, r)
  BY <1>0, WithoutFacts
<1> HIDE DEF r
<1>2. \A i \in 1..n : /\ q[o][i] \in Threads /\ w.p[q[o][i]]
                      /\ w.head[q[o][i]] <=> i = 1
                      /\ w.tail[q[o][i]] <=> i = n
                      /\ i = n => w.next[q[o][i]] = o
                      /\ i # n => w.next[q[o][i]] = q[o][i + 1]
                      /\ i = 1 => w.prev[q[o][i]] = q[o][n]
                      /\ i # 1 => w.prev[q[o][i]] = q[o][i - 1]
  BY LinkedFacts, WaiterIsThread
<1>3. \A i, j \in 1..n : q[o][i] = q[o][j] => i = j
  BY OnePlace
<1>4. /\ t \in Threads /\ h \in Threads /\ l \in Threads
      /\ w.next[t] = h /\ w.prev[t] = l /\ w.next[l] = o /\ h # t
  <2>1. 1 # n /\ 1 + 1 = 2
    BY <1>0
  <2> QED BY <1>0, <1>2, <1>3, <2>1
<1> HIDE DEF t, h, l, n
<1>5. /\ v \in Fields
      /\ \A y \in Threads : v.p[y] <=> y # t /\ w.p[y]
      /\ v.tail = w.tail /\ v.next = w.next /\ v.fp = w.fp
      /\ v.fhead[o] = h /\ \A x \in Oids \ {o} : v.fhead[x] = w.fhead[x]
      /\ v.head[h] /\ v.prev[h] = l
      /\ \A y \in Threads \ {h} : (v.head[y] <=> w.head[y]) /\ v.prev[y] = w.prev[y]
  BY <1>4, OidsAssumption DEF Fields, DequeueHead
<1> HIDE DEF v
<1>6. /\ Len(r[o]) = n - 1
      /\ \A i \in 1..(n - 1) : r[o][i] = q[o][i + 1]
      /\ r \in Queues
  BY <1>0, <1>1 DEF IsRemoved, n
<1>7. ASSUME NEW i \in 1..Len(r[o]) PROVE Linked(v, r, o, i)
  <2> DEFINE k == i + 1
             e == q[o][k]
  <2>1. i \in 1..(n - 1) /\ k \in 1..n /\ r[o][i] = e /\ k # 1 /\ (k = n <=> i = n - 1)
    BY <1>0, <1>6
  <2>2. e # t /\ (e = h <=> i = 1)
    <3>1. i = 1 <=> k = 2
      BY <2>1
    <3> HIDE DEF k
    <3> QED BY <1>0, <1>3, <2>1, <3>1 DEF h, t
  <2>3. /\ e \in Threads /\ w.p[e] /\ ~w.head[e] /\ (w.tail[e] <=> k = n)
        /\ k = n => w.next[e] = o
        /\ k # n => w.next[e] = q[o][k + 1]
        /\ w.prev[e] = q[o][k - 1]
    <3> HIDE DEF k
    <3> QED BY <1>2, <2>1
  <2>4. i # n - 1 => r[o][i + 1] = q[o][k + 1]
    <3>1. i # n - 1 => i + 1 \in 1..(n - 1)
      BY <1>0, <2>1
    <3> QED BY <1>6, <3>1
  <2>5. i # 1 => r[o][i - 1] = q[o][k - 1]
    <3>1. i # 1 => i - 1 \in 1..(n - 1) /\ (i - 1) + 1 = k - 1
      BY <1>0, <2>1
    <3> QED BY <1>6, <3>1
  <2>6. r[o][n - 1] = l
    <3>1. n - 1 \in 1..(n - 1) /\ (n - 1) + 1 = n
      BY <1>0
    <3> QED BY <1>6, <3>1 DEF l
  <2> HIDE DEF e, k
  <2>7. /\ v.p[e] /\ (v.head[e] <=> i = 1) /\ (v.tail[e] <=> i = n - 1)
        /\ i = n - 1 => v.next[e] = o
        /\ i # n - 1 => v.next[e] = r[o][i + 1]
    BY <1>5, <2>1, <2>2, <2>3, <2>4
  <2>8. /\ i = 1 => v.prev[e] = r[o][n - 1]
        /\ i # 1 => v.prev[e] = r[o][i - 1]
    BY <1>5, <2>2, <2>3, <2>5, <2>6
  <2> QED BY <1>6, <2>1, <2>7, <2>8 DEF Linked
<1>8. SameElsewhere(w, v, q, o)
  BY <1>0, <1>5 DEF SameElsewhere, t, h, l, n
<1>9. v.fhead[o] = r[o][1]
  <2>1. 1 \in 1..(n - 1) /\ 1 + 1 = 2
    BY <1>0
  <2> QED BY <1>5, <1>6, <2>1 DEF h
<1>10. Represents(v, r)
  BY <1>0, <1>1, <1>5, <1>7, <1>8, <1>9, RemovedRepresents DEF t, n
<1> QED BY <1>5, <1>6, <1>10 DEF v, r, t, n

(***************************************************************************)
(* A waiter between two others leaves.                                     *)
(***************************************************************************)
LEMMA DequeueMiddleOK ==
  ASSUME NEW w \in Fields, NEW q \in Queues, Represents(w, q),
         NEW o \in Oids, NEW k \in 1..Len(q[o]), k # 1, k # Len(q[o])
  PROVE  LET v == DequeueMiddle(w, q[o][k])
             r == Removed(q, o, k)
         IN  v \in Fields /\ r \in Queues /\ Represents(v, r)
<1> DEFINE n == Len(q[o])
           t == q[o][k]
           v == DequeueMiddle(w, t)
           r == Removed(q, o, k)
           a == q[o][k + 1]
           b == q[o][k - 1]
<1>0. /\ n \in Nat /\ n > 1 /\ n \in 1..n /\ 1 \in 1..n
      /\ k \in 1..n /\ k + 1 \in 1..n /\ k - 1 \in 1..n /\ k # 1 /\ k # n /\ n # 1
  <2>1. n \in Nat /\ k \in 1..n /\ k # 1 /\ k # n
    BY DEF Queues
  <2> HIDE DEF n
  <2> QED BY <2>1
<1>1. IsRemoved(q, o, k, r)
  BY WithoutFacts
<1> HIDE DEF r
<1>2. \A i \in 1..n : /\ q[o][i] \in Threads /\ w.p[q[o][i]]
                      /\ w.head[q[o][i]] <=> i = 1
                      /\ w.tail[q[o][i]] <=> i = n
                      /\ i = n => w.next[q[o][i]] = o
                      /\ i # n => w.next[q[o][i]] = q[o][i + 1]
                      /\ i = 1 => w.prev[q[o][i]] = q[o][n]
                      /\ i # 1 => w.prev[q[o][i]] = q[o][i - 1]
  BY LinkedFacts, WaiterIsThread
<1>3. \A i, j \in 1..n : q[o][i] = q[o][j] => i = j
  BY OnePlace
<1>4. /\ t \in Threads /\ a \in Threads /\ b \in Threads
      /\ w.next[t] = a /\ w.prev[t] = b
  BY <1>0, <1>2
<1>4a. w.fhead[o] = q[o][1]
  <2>1. q[o] # <<>>
    BY <1>0 DEF Queues
  <2> QED BY <2>1 DEF Represents
<1> HIDE DEF t, a, b, n
<1>5. /\ v \in Fields
      /\ \A y \in Threads : v.p[y] <=> y # t /\ w.p[y]
      /\ v.head = w.head /\ v.tail = w.tail /\ v.fp = w.fp /\ v.fhead = w.fhead
      /\ v.next[b] = a /\ \A y \in Threads \ {b} : v.next[y] = w.next[y]
      /\ v.prev[a] = b /\ \A y \in Threads \ {a} : v.prev[y] = w.prev[y]
  BY <1>4, OidsAssumption DEF Fields, DequeueMiddle
<1> HIDE DEF v
<1>6. /\ Len(r[o]) = n - 1 /\ r \in Queues
      /\ \A i \in 1..(n - 1) : i < k => r[o][i] = q[o][i]
      /\ \A i \in 1..(n - 1) : ~(i < k) => r[o][i] = q[o][i + 1]
  BY <1>0, <1>1 DEF IsRemoved, n
<1>7. ASSUME NEW i \in 1..Len(r[o]), i < k PROVE Linked(v, r, o, i)
  <2> DEFINE e == q[o][i]
  <2>1. /\ i \in 1..(n - 1) /\ i \in 1..n /\ r[o][i] = e
        /\ i # k /\ i # n /\ i # k + 1 /\ i # n - 1
    BY <1>0, <1>6, <1>7
  <2>2. e # t /\ e # a /\ (e = b <=> i = k - 1)
    BY <1>0, <1>3, <2>1 DEF t, a, b
  <2>3. /\ e \in Threads /\ w.p[e] /\ (w.head[e] <=> i = 1) /\ ~w.tail[e]
        /\ w.next[e] = q[o][i + 1]
        /\ i = 1 => w.prev[e] = q[o][n]
        /\ i # 1 => w.prev[e] = q[o][i - 1]
    BY <1>2, <2>1
  <2>4. i # k - 1 => r[o][i + 1] = q[o][i + 1]
    <3>1. i # k - 1 => i + 1 \in 1..(n - 1) /\ i + 1 < k
      BY <1>0, <1>7, <2>1
    <3> QED BY <1>6, <3>1
  <2>5. i = k - 1 => r[o][i + 1] = a
    <3>1. i = k - 1 => i + 1 \in 1..(n - 1) /\ ~(i + 1 < k) /\ i + 1 = k
      BY <1>0, <2>1
    <3> QED BY <1>6, <3>1 DEF a
  <2>6. i # 1 => r[o][i - 1] = q[o][i - 1]
    <3>1. i # 1 => i - 1 \in 1..(n - 1) /\ i - 1 < k
      BY <1>0, <1>7, <2>1
    <3> QED BY <1>6, <3>1
  <2>7. r[o][n - 1] = q[o][n]
    <3>1. n - 1 \in 1..(n - 1) /\ ~(n - 1 < k) /\ (n - 1) + 1 = n
      BY <1>0
    <3> QED BY <1>6, <3>1
  <2> HIDE DEF e
  <2>8. v.p[e] /\ (v.head[e] <=> i = 1) /\ ~v.tail[e] /\ v.next[e] = r[o][i + 1]
    BY <1>5, <2>2, <2>3, <2>4, <2>5
  <2>9. (i = 1 => v.prev[e] = r[o][n - 1]) /\ (i # 1 => v.prev[e] = r[o][i - 1])
    BY <1>5, <2>2, <2>3, <2>6, <2>7
  <2> QED BY <1>6, <2>1, <2>8, <2>9 DEF Linked
<1>8. ASSUME NEW i \in 1..Len(r[o]), ~(i < k) PROVE Linked(v, r, o, i)
  <2> DEFINE m == i + 1
             e == q[o][m]
  <2>1. /\ i \in 1..(n - 1) /\ m \in 1..n /\ r[o][i] = e
        /\ m # k /\ m # k - 1 /\ m # 1 /\ i # 1
        /\ (m = n <=> i = n - 1) /\ (m = k + 1 <=> i = k)
    BY <1>0, <1>6, <1>8
  <2>2. e # t /\ e # b /\ (e = a <=> m = k + 1)
    <3> HIDE DEF m
    <3> QED BY <1>0, <1>3, <2>1 DEF t, a, b
  <2>3. /\ e \in Threads /\ w.p[e] /\ ~w.head[e] /\ (w.tail[e] <=> m = n)
        /\ m = n => w.next[e] = o
        /\ m # n => w.next[e] = q[o][m + 1]
        /\ w.prev[e] = q[o][m - 1]
    <3> HIDE DEF m
    <3> QED BY <1>2, <2>1
  <2>4. i # n - 1 => r[o][i + 1] = q[o][m + 1]
    <3>1. i # n - 1 => i + 1 \in 1..(n - 1) /\ ~(i + 1 < k)
      BY <1>0, <1>8, <2>1
    <3> QED BY <1>6, <3>1
  <2>5. i # k => r[o][i - 1] = q[o][m - 1]
    <3>1. i # k => i - 1 \in 1..(n - 1) /\ ~(i - 1 < k) /\ (i - 1) + 1 = m - 1
      BY <1>0, <1>8, <2>1
    <3> QED BY <1>6, <3>1
  <2>6. i = k => r[o][i - 1] = b
    <3>1. i = k => i - 1 \in 1..(n - 1) /\ i - 1 < k
      BY <1>0, <2>1
    <3> QED BY <1>6, <3>1 DEF b
  <2> HIDE DEF e, m
  <2>7. /\ v.p[e] /\ ~v.head[e] /\ (v.tail[e] <=> i = n - 1)
        /\ i = n - 1 => v.next[e] = o
        /\ i # n - 1 => v.next[e] = r[o][i + 1]
    BY <1>5, <2>1, <2>2, <2>3, <2>4
  <2>8. v.prev[e] = r[o][i - 1]
    BY <1>5, <2>1, <2>2, <2>3, <2>5, <2>6
  <2> QED BY <1>6, <2>1, <2>7, <2>8 DEF Linked
<1>9. SameElsewhere(w, v, q, o)
  <2> HIDE DEF SameElsewhere
  <2>1. \A i \in {k, k + 1, k - 1} : i \in 1..Len(q[o])
    BY <1>0 DEF n
  <2> QED BY <1>5, <2>1 DEF SameElsewhere, t, a, b
<1>10. v.fhead[o] = r[o][1]
  <2>1. 1 \in 1..(n - 1) /\ 1 < k
    BY <1>0
  <2> QED BY <1>4a, <1>5, <1>6, <2>1
<1>11. Represents(v, r)
  <2>1. Len(q[o]) > 1 /\ k \in 1..Len(q[o])
    BY <1>0 DEF n
  <2>2. \A i \in 1..Len(r[o]) : Linked(v, r, o, i)
    BY <1>7, <1>8
  <2> QED BY <1>1, <1>5, <1>9, <1>10, <2>1, <2>2, RemovedRepresents DEF t
<1> QED BY <1>5, <1>6, <1>11 DEF v, r, t

(***************************************************************************)
(* The two operations.                                                     *)
(***************************************************************************)
LEMMA EnqueueOK ==
  ASSUME NEW w \in Fields, NEW q \in Queues, Represents(w, q),
         NEW o \in Oids, NEW t \in Threads, ~w.p[t]
  PROVE  LET v == EnqueueWaiter(w, o, t)
             r == [q EXCEPT ![o] = <<t>> \o @]
         IN  v \in Fields /\ r \in Queues /\ Represents(v, r)
<1>1. CASE w.fp[o]
  BY <1>1, EnqueueBeforeOK DEF EnqueueWaiter
<1>2. CASE ~w.fp[o]
  BY <1>2, EnqueueFirstOK DEF EnqueueWaiter
<1> QED BY <1>1, <1>2

LEMMA DequeueOK ==
  ASSUME NEW w \in Fields, NEW q \in Queues, Represents(w, q),
         NEW o \in Oids, NEW k \in 1..Len(q[o])
  PROVE  LET v == DequeueWaiter(w, q[o][k])
             r == Removed(q, o, k)
         IN  v \in Fields /\ r \in Queues /\ Represents(v, r)
<1> DEFINE t == q[o][k]
           r == Removed(q, o, k)
           v == DequeueWaiter(w, t)
<1>1. (w.head[t] <=> k = 1) /\ (w.tail[t] <=> k = Len(q[o]))
  BY LinkedFacts
<1>2. Len(q[o]) \in Nat /\ k \in Nat /\ 1 <= k /\ k <= Len(q[o])
  BY DEF Queues
<1>2a. (k # 1 /\ k = Len(q[o])) \/ (k = 1 /\ k # Len(q[o])) => Len(q[o]) > 1
  <2> DEFINE n == Len(q[o])
  <2>1. n \in Nat /\ k \in Nat /\ 1 <= k /\ k <= n
    BY <1>2
  <2> HIDE DEF n
  <2>2. (k # 1 /\ k = n) \/ (k = 1 /\ k # n) => n > 1
    BY <2>1
  <2> QED BY <2>2 DEF n
<1>3. CASE k = 1 /\ k = Len(q[o])
  <2>1. v = DequeueOnly(w, q[o][1]) /\ r = [q EXCEPT ![o] = Without(@, 1)]
    BY <1>1, <1>3 DEF DequeueWaiter, Removed
  <2> HIDE DEF v, r
  <2>2. Len(q[o]) = 1
    BY <1>3
  <2>3. v \in Fields /\ r \in Queues /\ Represents(v, r)
    BY <2>1, <2>2, DequeueOnlyOK
  <2> QED BY <2>3 DEF v, r
<1>4. CASE k # 1 /\ k = Len(q[o])
  <2>1. v = DequeueTail(w, q[o][Len(q[o])]) /\ r = Removed(q, o, Len(q[o]))
    BY <1>1, <1>4 DEF DequeueWaiter
  <2> HIDE DEF v, r
  <2>2. Len(q[o]) > 1
    BY <1>2a, <1>4
  <2>3. v \in Fields /\ r \in Queues /\ Represents(v, r)
    BY <2>1, <2>2, DequeueTailOK
  <2> QED BY <2>3 DEF v, r
<1>5. CASE k = 1 /\ k # Len(q[o])
  <2>1. v = DequeueHead(w, q[o][1]) /\ r = Removed(q, o, 1)
    BY <1>1, <1>5 DEF DequeueWaiter
  <2> HIDE DEF v, r
  <2>2. Len(q[o]) > 1
    BY <1>2a, <1>5
  <2>3. v \in Fields /\ r \in Queues /\ Represents(v, r)
    BY <2>1, <2>2, DequeueHeadOK
  <2> QED BY <2>3 DEF v, r
<1>6. CASE k # 1 /\ k # Len(q[o])
  <2>1. v = DequeueMiddle(w, t)
    BY <1>1, <1>6 DEF DequeueWaiter
  <2> HIDE DEF v
  <2>2. v \in Fields /\ r \in Queues /\ Represents(v, r)
    BY <1>6, <2>1, DequeueMiddleOK
  <2> QED BY <2>2 DEF v
<1> QED BY <1>3, <1>4, <1>5, <1>6

(***************************************************************************)
(* The invariant: for any threads and objects, any sequence of enqueues    *)
(* and dequeues from any place leaves well-formed lists that represent the *)
(* queues.  It is inductive as it stands.                                  *)
(***************************************************************************)
THEOREM ListsAgree == Spec => [](TypeOK /\ ListsOK)
<1>1. Init => TypeOK /\ ListsOK
  <2> SUFFICES ASSUME Init PROVE TypeOK /\ ListsOK
    OBVIOUS
  <2>1. wq \in Fields
    BY DEF Init, EmptyFields, Fields
  <2>2. queue \in [Oids -> Seq(Threads)] /\ \A o \in Oids : queue[o] = <<>>
    BY DEF Init
  <2>3. \A o \in Oids : ~wq.fp[o]
    BY DEF Init, EmptyFields
  <2>4. \A t \in Threads : ~wq.p[t]
    BY DEF Init, EmptyFields
  <2>5. \A o \in Oids : 1..Len(queue[o]) = {}
    BY <2>2
  <2> QED BY <2>1, <2>2, <2>3, <2>4, <2>5 DEF TypeOK, ListsOK, Represents
<1>2. TypeOK /\ ListsOK /\ [Next]_<<wq, queue>> => (TypeOK /\ ListsOK)'
  <2> SUFFICES ASSUME TypeOK, ListsOK, [Next]_<<wq, queue>> PROVE TypeOK' /\ ListsOK'
    OBVIOUS
  <2>0. wq \in Fields /\ queue \in Queues /\ Represents(wq, queue)
    BY DEF TypeOK, ListsOK, Queues
  <2>1. ASSUME NEW t \in Threads, NEW o \in Oids, Enqueue(o, t) PROVE TypeOK' /\ ListsOK'
    <3>1. ~wq.p[t] /\ wq' = EnqueueWaiter(wq, o, t) /\ queue' = [queue EXCEPT ![o] = <<t>> \o @]
      BY <2>1 DEF Enqueue
    <3>2. wq' \in Fields /\ queue' \in Queues /\ Represents(wq', queue')
      BY <2>0, <3>1, EnqueueOK
    <3> QED BY <3>2 DEF TypeOK, ListsOK, Queues
  <2>2. ASSUME NEW t \in Threads, Dequeue(t) PROVE TypeOK' /\ ListsOK'
    <3>1. PICK o \in Oids : \E k \in 1..Len(queue[o]) :
             queue[o][k] = t /\ queue' = [queue EXCEPT ![o] = Without(@, k)]
      BY <2>2 DEF Dequeue
    <3>2. PICK k \in 1..Len(queue[o]) : queue[o][k] = t /\ queue' = Removed(queue, o, k)
      BY <3>1 DEF Removed
    <3>3. wq' = DequeueWaiter(wq, queue[o][k])
      BY <2>2, <3>2 DEF Dequeue
    <3>4. wq' \in Fields /\ queue' \in Queues /\ Represents(wq', queue')
      BY <2>0, <3>2, <3>3, DequeueOK
    <3> QED BY <3>4 DEF TypeOK, ListsOK, Queues
  <2>3. CASE UNCHANGED <<wq, queue>>
    BY <2>0, <2>3 DEF TypeOK, ListsOK, Queues
  <2> QED BY <2>1, <2>2, <2>3 DEF Next
<1> QED BY <1>1, <1>2, PTL DEF Spec

(***************************************************************************)
(* A queue is no longer than there are threads.                            *)
(***************************************************************************)
LEMMA QueueShort ==
  ASSUME NEW w \in Fields, NEW q \in Queues, Represents(w, q), NEW o \in Oids
  PROVE  Len(q[o]) \in Nat /\ Len(q[o]) <= Cardinality(Threads) /\ Cardinality(Threads) \in Nat
<1> DEFINE s == q[o]
           S == ToSet(s)
<1>1. s \in Seq(Threads) /\ Len(s) \in Nat /\ DOMAIN s = 1..Len(s)
  BY DEF Queues
<1>2. \A i, j \in 1..Len(s) : s[i] = s[j] => i = j
  BY OnePlace
<1> HIDE DEF s
<1>3. s \in [1..Len(s) -> S] /\ S \subseteq Threads
  BY <1>1 DEF ToSet
<1>4. s \in Bijection(1..Len(s), S)
  BY <1>1, <1>2, <1>3 DEF Bijection, Injection, Surjection, IsInjective, ToSet
<1>5. ExistsBijection(1..Len(s), S)
  BY <1>4 DEF ExistsBijection
<1>6. Cardinality(S) = Len(s)
  BY <1>1, <1>5, FS_CountingElements
<1>7. IsFiniteSet(Threads)
  BY KernelWaitAssumption
<1>8. Cardinality(S) <= Cardinality(Threads) /\ Cardinality(Threads) \in Nat
  BY <1>3, <1>7, FS_Subset, FS_CardinalityType
<1> QED BY <1>1, <1>6, <1>8 DEF s

(***************************************************************************)
(* object_wait_queue_for_each visits the waiters of the object, in the     *)
(* order of the queue.                                                     *)
(***************************************************************************)
Visits(g, w, o) ==
    g = [i \in 1..Cardinality(Threads) |->
            IF i = 1 THEN w.fhead[o] ELSE IF w.tail[g[i - 1]] THEN g[i - 1] ELSE w.next[g[i - 1]]]

LEMMA VisitsExists ==
  ASSUME NEW w \in Fields, NEW q \in Queues, Represents(w, q), NEW o \in Oids, q[o] # <<>>
  PROVE  \E g : Visits(g, w, o)
<1> DEFINE n == Len(q[o])
           C == Cardinality(Threads)
           g == [i \in 1..C |-> IF i <= n THEN q[o][i] ELSE q[o][n]]
           h == [i \in 1..C |->
                   IF i = 1 THEN w.fhead[o]
                   ELSE IF w.tail[g[i - 1]] THEN g[i - 1] ELSE w.next[g[i - 1]]]
<1>1. n \in Nat /\ n <= C /\ C \in Nat /\ n >= 1
  <2>1. n >= 1 /\ n \in Nat
    BY DEF Queues
  <2> QED BY <2>1, QueueShort
<1>2. \A i \in 1..n : /\ w.tail[q[o][i]] <=> i = n
                      /\ i # n => w.next[q[o][i]] = q[o][i + 1]
  BY LinkedFacts
<1>3. w.fhead[o] = q[o][1]
  BY DEF Represents
<1> HIDE DEF n, C
<1>4. ASSUME NEW i \in 1..C PROVE g[i] = h[i]
  <2>1. CASE i = 1
    BY <1>1, <1>3, <2>1
  <2>2. CASE i # 1 /\ i <= n
    <3>1. i - 1 \in 1..C /\ i - 1 \in 1..n /\ i - 1 # n /\ i - 1 <= n /\ (i - 1) + 1 = i
      BY <1>1, <2>2
    <3>2. g[i - 1] = q[o][i - 1] /\ ~w.tail[q[o][i - 1]] /\ w.next[q[o][i - 1]] = q[o][i]
      BY <1>2, <3>1
    <3>3. h[i] = w.next[g[i - 1]]
      <4> HIDE DEF g
      <4> QED BY <2>2, <3>2
    <3>4. g[i] = q[o][i]
      BY <2>2
    <3> QED BY <3>2, <3>3, <3>4
  <2>3. CASE i > n
    <3>1. i # 1 /\ i - 1 \in 1..C /\ ~(i <= n) /\ n \in 1..n
      BY <1>1, <2>3
    <3>2. g[i - 1] = q[o][n]
      <4>1. CASE i - 1 <= n
        <5>1. i - 1 = n
          BY <1>1, <2>3, <4>1
        <5> QED BY <3>1, <5>1
      <4>2. CASE ~(i - 1 <= n)
        BY <3>1, <4>2
      <4> QED BY <4>1, <4>2
    <3>3. w.tail[q[o][n]]
      BY <1>2, <3>1
    <3>4. h[i] = g[i - 1]
      <4> HIDE DEF g
      <4> QED BY <3>1, <3>2, <3>3
    <3>5. g[i] = q[o][n]
      BY <3>1
    <3> QED BY <3>2, <3>4, <3>5
  <2> QED BY <1>1, <2>1, <2>2, <2>3
<1>5. g = h
  <2>1. DOMAIN g = 1..C /\ DOMAIN h = 1..C /\ g = [i \in DOMAIN g |-> g[i]]
          /\ h = [i \in DOMAIN h |-> h[i]]
    OBVIOUS
  <2> HIDE DEF g, h
  <2> QED BY <1>4, <2>1
<1>6. Visits(g, w, o)
  <2> HIDE DEF g
  <2> QED BY <1>5 DEF Visits, C
<1> QED BY <1>6

LEMMA VisitsAre ==
  ASSUME NEW w \in Fields, NEW q \in Queues, Represents(w, q), NEW o \in Oids, q[o] # <<>>,
         NEW g, Visits(g, w, o)
  PROVE  \A i \in 1..Cardinality(Threads) :
            g[i] = IF i <= Len(q[o]) THEN q[o][i] ELSE q[o][Len(q[o])]
<1> DEFINE n == Len(q[o])
           C == Cardinality(Threads)
           Right(i) == g[i] = IF i <= n THEN q[o][i] ELSE q[o][n]
           Bad == {i \in 1..C : ~Right(i)}
<1>1. n \in Nat /\ n <= C /\ C \in Nat /\ n >= 1
  <2>1. n >= 1 /\ n \in Nat
    BY DEF Queues
  <2> QED BY <2>1, QueueShort
<1>2. \A i \in 1..n : /\ w.tail[q[o][i]] <=> i = n
                      /\ i # n => w.next[q[o][i]] = q[o][i + 1]
  BY LinkedFacts
<1>3. w.fhead[o] = q[o][1]
  BY DEF Represents
<1>4. \A i \in 1..C : g[i] = IF i = 1 THEN w.fhead[o]
                             ELSE IF w.tail[g[i - 1]] THEN g[i - 1] ELSE w.next[g[i - 1]]
  BY DEF Visits
<1> HIDE DEF n, C
<1>5. ASSUME NEW i \in 1..C, i = 1 \/ Right(i - 1) PROVE Right(i)
  <2>1. CASE i = 1
    BY <1>1, <1>3, <1>4, <2>1
  <2>2. CASE i # 1 /\ i <= n
    <3>1. i - 1 \in 1..C /\ i - 1 \in 1..n /\ i - 1 # n /\ i - 1 <= n /\ (i - 1) + 1 = i
      BY <1>1, <2>2
    <3>2. g[i - 1] = q[o][i - 1] /\ ~w.tail[q[o][i - 1]] /\ w.next[q[o][i - 1]] = q[o][i]
      BY <1>2, <1>5, <2>2, <3>1
    <3> QED BY <1>4, <2>2, <3>2
  <2>3. CASE i > n
    <3>1. i # 1 /\ i - 1 \in 1..C /\ ~(i <= n) /\ n \in 1..n
      BY <1>1, <2>3
    <3>2. g[i - 1] = q[o][n]
      <4>1. CASE i - 1 <= n
        <5>1. i - 1 = n
          BY <1>1, <2>3, <4>1
        <5> QED BY <1>5, <3>1, <5>1
      <4>2. CASE ~(i - 1 <= n)
        BY <1>5, <3>1, <4>2
      <4> QED BY <4>1, <4>2
    <3>3. w.tail[q[o][n]]
      BY <1>2, <3>1
    <3> QED BY <1>4, <3>1, <3>2, <3>3
  <2> QED BY <1>1, <2>1, <2>2, <2>3
<1> HIDE DEF Right
<1>6. Bad = {}
  <2> SUFFICES ASSUME Bad # {} PROVE FALSE
    OBVIOUS
  <2>0. Bad \subseteq Nat
    BY <1>1
  <2>1. PICK x \in Bad : \A y \in Bad : ~(<<y, x>> \in OpToRel(<, Nat))
    BY <2>0, NatLessThanWellFounded, WFMin, Zenon
  <2>2. x \in 1..C /\ ~Right(x) /\ x \in Nat
    <3>1. x \in 1..C /\ ~Right(x)
      BY <2>1
    <3> QED BY <2>0, <2>1, <3>1
  <2>3. x # 1 /\ ~Right(x - 1)
    BY <1>5, <2>2
  <2>4. x - 1 \in 1..C /\ x - 1 \in Nat /\ x - 1 < x
    BY <1>1, <2>2, <2>3
  <2>5. <<x - 1, x>> \in OpToRel(<, Nat)
    BY <2>2, <2>4 DEF OpToRel
  <2> QED BY <2>1, <2>3, <2>4, <2>5
<1>7. \A i \in 1..C : Right(i)
  BY <1>6
<1> QED BY <1>7 DEF Right, n, C

LEMMA WalkIs ==
  ASSUME NEW w \in Fields, NEW q \in Queues, Represents(w, q), NEW o \in Oids
  PROVE  Walk(w, o) = q[o]
<1> DEFINE n == Len(q[o])
           C == Cardinality(Threads)
           g == CHOOSE g : g = [i \in 1..C |->
                   IF i = 1 THEN w.fhead[o]
                   ELSE IF w.tail[g[i - 1]] THEN g[i - 1] ELSE w.next[g[i - 1]]]
           Ends(i) == w.tail[g[i]] /\ \A j \in 1..(i - 1) : ~w.tail[g[j]]
           last == CHOOSE i \in 1..C : Ends(i)
<1>1. w.fp[o] <=> q[o] # <<>>
  BY DEF Represents
<1>2. CASE q[o] = <<>>
  BY <1>1, <1>2 DEF Walk
<1>3. CASE q[o] # <<>>
  <2>1. Visits(g, w, o)
    <3>1. \E h : Visits(h, w, o)
      BY <1>3, VisitsExists
    <3> QED BY <3>1 DEF Visits
  <2>2. Walk(w, o) = [i \in 1..last |-> g[i]]
    BY <1>1, <1>3 DEF Walk
  <2> HIDE DEF g
  <2>3. \A i \in 1..C : g[i] = IF i <= n THEN q[o][i] ELSE q[o][n]
    BY <1>3, <2>1, VisitsAre
  <2>4. n \in Nat /\ n <= C /\ C \in Nat /\ n >= 1 /\ q[o] = [i \in 1..n |-> q[o][i]]
    <3>1. n >= 1 /\ n \in Nat /\ q[o] = [i \in 1..n |-> q[o][i]]
      BY <1>3 DEF Queues
    <3> QED BY <3>1, QueueShort
  <2>5. \A i \in 1..n : w.tail[q[o][i]] <=> i = n
    BY LinkedFacts
  <2> HIDE DEF n, C
  <2>6. \A i \in 1..C : w.tail[g[i]] <=> i >= n
    BY <2>3, <2>4, <2>5
  <2>7. n \in 1..C /\ Ends(n)
    BY <2>4, <2>6
  <2>8. \A i \in 1..C : Ends(i) => i = n
    <3> SUFFICES ASSUME NEW i \in 1..C, Ends(i), i # n PROVE FALSE
      OBVIOUS
    <3>1. i > n
      BY <2>4, <2>6
    <3>2. n \in 1..(i - 1)
      BY <2>4, <3>1
    <3> QED BY <2>7, <3>2
  <2> HIDE DEF Ends
  <2>9. last = n
    BY <2>7, <2>8
  <2>10. \A i \in 1..n : i \in 1..C /\ g[i] = q[o][i]
    BY <2>3, <2>4
  <2>11. [i \in 1..n |-> g[i]] = [i \in 1..n |-> q[o][i]]
    BY <2>10
  <2> QED BY <2>2, <2>4, <2>9, <2>11
<1> QED BY <1>2, <1>3

-----------------------------------------------------------------------------
(***************************************************************************)
(* list_unlink.                                                            *)
(***************************************************************************)
LEMMA WithoutList ==
  ASSUME NEW S, NEW list \in Seq(S), IsInjective(list), NEW k \in DOMAIN list
  PROVE  /\ Without(list, k) \in Seq(S) /\ IsInjective(Without(list, k))
         /\ ToSet(Without(list, k)) = ToSet(list) \ {list[k]}
<1> DEFINE n == Len(list)
           r == Without(list, k)
<1>1. n \in Nat /\ k \in 1..n /\ DOMAIN list = 1..n /\ n >= 1 /\ n - 1 \in Nat
  OBVIOUS
<1>2. r = [i \in 1..(n - 1) |-> IF i < k THEN list[i] ELSE list[i + 1]]
  BY DEF Without
<1>3. \A i \in 1..n : list[i] \in S
  OBVIOUS
<1>4. \A i, j \in 1..n : list[i] = list[j] => i = j
  BY <1>1 DEF IsInjective
<1> HIDE DEF n, r
<1>5. r \in Seq(S) /\ Len(r) = n - 1 /\ DOMAIN r = 1..(n - 1)
  <2>1. \A i \in 1..(n - 1) : (IF i < k THEN list[i] ELSE list[i + 1]) \in S
    BY <1>1, <1>3
  <2>2. r \in [1..(n - 1) -> S]
    BY <1>2, <2>1
  <2>3. DOMAIN r = 1..(n - 1) /\ r \in Seq(S)
    BY <1>1, <2>2
  <2> QED BY <1>1, <2>2, <2>3
<1>6. \A i \in 1..(n - 1) : /\ i < k => r[i] = list[i] /\ i \in 1..n
                            /\ ~(i < k) => r[i] = list[i + 1] /\ i + 1 \in 1..n
  BY <1>1, <1>2
<1>7. IsInjective(r)
  <2> SUFFICES ASSUME NEW i \in 1..(n - 1), NEW j \in 1..(n - 1), r[i] = r[j] PROVE i = j
    BY <1>5 DEF IsInjective
  <2>1. CASE i < k /\ j < k
    BY <1>4, <1>6, <2>1
  <2>2. CASE ~(i < k) /\ ~(j < k)
    <3>1. i + 1 = j + 1
      BY <1>4, <1>6, <2>2
    <3> QED BY <3>1
  <2>3. CASE i < k /\ ~(j < k)
    <3>1. i = j + 1
      BY <1>4, <1>6, <2>3
    <3> QED BY <1>1, <2>3, <3>1
  <2>4. CASE ~(i < k) /\ j < k
    <3>1. i + 1 = j
      BY <1>4, <1>6, <2>4
    <3> QED BY <1>1, <2>4, <3>1
  <2> QED BY <2>1, <2>2, <2>3, <2>4
<1>8. ASSUME NEW i \in 1..(n - 1) PROVE r[i] \in ToSet(list) \ {list[k]}
  <2>1. CASE i < k
    <3>1. r[i] = list[i] /\ i \in 1..n /\ i # k
      BY <1>1, <1>6, <2>1
    <3> QED BY <1>1, <1>4, <3>1 DEF ToSet
  <2>2. CASE ~(i < k)
    <3>1. r[i] = list[i + 1] /\ i + 1 \in 1..n /\ i + 1 # k
      BY <1>1, <1>6, <2>2
    <3> QED BY <1>1, <1>4, <3>1 DEF ToSet
  <2> QED BY <2>1, <2>2
<1>9. ASSUME NEW i \in 1..n, i # k PROVE \E j \in 1..(n - 1) : r[j] = list[i]
  <2>1. CASE i < k
    <3>1. i \in 1..(n - 1) /\ r[i] = list[i]
      <4>1. i \in 1..(n - 1)
        BY <1>1, <2>1
      <4> QED BY <1>6, <2>1, <4>1
    <3> QED BY <3>1
  <2>2. CASE i > k
    <3>1. i - 1 \in 1..(n - 1) /\ ~(i - 1 < k) /\ (i - 1) + 1 = i
      BY <1>1, <2>2
    <3>2. r[i - 1] = list[i]
      BY <1>6, <3>1
    <3> QED BY <3>1, <3>2
  <2> QED BY <1>1, <1>9, <2>1, <2>2
<1>10. ToSet(r) \subseteq ToSet(list) \ {list[k]}
  BY <1>5, <1>8 DEF ToSet
<1>11. ToSet(list) \ {list[k]} \subseteq ToSet(r)
  <2> SUFFICES ASSUME NEW x \in ToSet(list), x # list[k] PROVE x \in ToSet(r)
    OBVIOUS
  <2>1. PICK i \in 1..n : x = list[i]
    BY <1>1 DEF ToSet
  <2>2. PICK j \in 1..(n - 1) : r[j] = list[i]
    BY <1>9, <2>1
  <2> QED BY <1>5, <2>1, <2>2 DEF ToSet
<1> QED BY <1>5, <1>7, <1>10, <1>11 DEF r

LEMMA UnlinkList ==
  ASSUME NEW S, NEW list \in Seq(S), IsInjective(list), NEW t
  PROVE  /\ Unlink(list, t) \in Seq(S) /\ IsInjective(Unlink(list, t))
         /\ ToSet(Unlink(list, t)) = ToSet(list) \ {t}
<1>1. CASE t \notin ToSet(list)
  BY <1>1 DEF Unlink
<1>2. CASE t \in ToSet(list)
  <2> DEFINE k == CHOOSE k \in DOMAIN list : list[k] = t
  <2>1. k \in DOMAIN list /\ list[k] = t
    BY <1>2 DEF ToSet
  <2>2. Unlink(list, t) = Without(list, k)
    BY <1>2 DEF Unlink
  <2> HIDE DEF k
  <2> QED BY <2>1, <2>2, WithoutList
<1> QED BY <1>1, <1>2

\* Unlinking a waiter from all queues takes it off the one that it is on.
LEMMA UnlinkQueue ==
  ASSUME NEW w \in Fields, NEW q \in Queues, Represents(w, q), NEW o \in Oids, NEW k \in 1..Len(q[o])
  PROVE  [x \in Oids |-> Unlink(q[x], q[o][k])] = Removed(q, o, k)
<1> DEFINE t == q[o][k]
           r == Removed(q, o, k)
<1>1. q \in [Oids -> Seq(Threads)] /\ \A x \in Oids : DOMAIN q[x] = 1..Len(q[x])
  BY DEF Queues
<1>2. r = [x \in Oids |-> IF x = o THEN Without(q[x], k) ELSE q[x]]
  BY <1>1 DEF Removed
<1> HIDE DEF r
<1>3. ASSUME NEW x \in Oids PROVE Unlink(q[x], t) = IF x = o THEN Without(q[x], k) ELSE q[x]
  <2>1. CASE x = o
    <3>1. t \in ToSet(q[x])
      BY <1>1, <2>1 DEF ToSet
    <3>2. \A j \in DOMAIN q[x] : q[x][j] = t => j = k
      BY <1>1, <2>1, OnePlace
    <3>3. (CHOOSE j \in DOMAIN q[x] : q[x][j] = t) = k
      BY <1>1, <2>1, <3>2
    <3> HIDE DEF t
    <3>4. Unlink(q[x], t) = Without(q[x], CHOOSE j \in DOMAIN q[x] : q[x][j] = t)
      BY <3>1 DEF Unlink
    <3> QED BY <2>1, <3>3, <3>4
  <2>2. CASE x # o
    <3>1. \A j \in DOMAIN q[x] : q[x][j] # t
      BY <1>1, <2>2, OnePlace
    <3>2. t \notin ToSet(q[x])
      BY <3>1 DEF ToSet
    <3> QED BY <2>2, <3>2 DEF Unlink
  <2> QED BY <2>1, <2>2
<1> QED BY <1>2, <1>3 DEF r

-----------------------------------------------------------------------------
(***************************************************************************)
(* The state in the course of a handler.                                   *)
(***************************************************************************)
Failures == {"object", "unlink", "queued", "null", "reply"}
KStates ==
    [w : Fields, q : Queues, arg : [Threads -> SUBSET (Offsets \cup Events \cup {None})],
     waiters : Seq(Threads), running : SUBSET Threads, blocked : SUBSET Threads,
     failed : Failures \cup {"no"}]

\* The debug list: each of its threads is queued for a futex.  The helper of
\* FUTEX_CMP_REQUEUE forgets those that it moves; without it the list is complete.
Listed(p, ws, re) ==
    /\ IsInjective(ws)
    /\ \A t \in ToSet(ws) : p[t] /\ re[t] = "futex"
    /\ "requeue" \notin Calls => \A t \in Threads : p[t] /\ re[t] = "futex" => t \in ToSet(ws)

\* p are the threads on queues, fp the objects with queues, ws is the debug
\* list, run are the threads that run, blk those that wait for a reply, X those
\* that were dequeued and are still to be replied to, al the objects that
\* exist, re the reasons to wait.
Fine(p, fp, ws, run, blk, X, al, re) ==
    /\ \A t \in blk : p[t] \/ t \in X
    /\ \A t \in Threads : p[t] => t \in al
    /\ \A o \in Oids : fp[o] => o \in al
    /\ run \subseteq al /\ run \cap blk = {}
    /\ ~NDEBUG => Listed(p, ws, re)
    /\ NDEBUG => ws = <<>>

Good(s, X, al, re) ==
    /\ s \in KStates /\ Represents(s.w, s.q)
    /\ s.failed = "no" => Fine(s.w.p, s.w.fp, s.waiters, s.running, s.blocked, X, al, re)

\* t was dequeued.
Left(s, d, t) ==
    /\ \A y \in Threads : d.w.p[y] <=> y # t /\ s.w.p[y]
    /\ \A x \in Oids : d.w.fp[x] => s.w.fp[x]
    /\ \A x \in Oids : ToSet(d.q[x]) \subseteq ToSet(s.q[x])
    /\ d.arg = s.arg /\ d.running = s.running /\ d.blocked = s.blocked
    /\ d.waiters = IF reason[t] = "futex" THEN Unlink(s.waiters, t) ELSE s.waiters

\* Nothing that object_wait_queue_dequeue asserts fails.
MayLeave(s, t) ==
    /\ s.failed = "no" /\ ~ObjectMissing(s.w, t)
    /\ NDEBUG \/ reason[t] # "futex" \/ t \in ToSet(s.waiters)

LEMMA DequeueFlags ==
  ASSUME NEW w \in Fields, NEW t \in Threads
  PROVE  LET v == DequeueWaiter(w, t)
         IN  v \in Fields => /\ \A y \in Threads : v.p[y] <=> y # t /\ w.p[y]
                             /\ \A x \in Oids : v.fp[x] => w.fp[x]
BY DEF DequeueWaiter, DequeueOnly, DequeueTail, DequeueHead, DequeueMiddle, Fields

LEMMA QueuePlace ==
  ASSUME NEW w \in Fields, NEW q \in Queues, Represents(w, q), NEW t \in Threads, w.p[t]
  PROVE  \E o \in Oids : \E k \in 1..Len(q[o]) : q[o][k] = t
BY DEF Represents

LEMMA QueueSet ==
  ASSUME NEW w \in Fields, NEW q \in Queues, Represents(w, q), NEW o \in Oids
  PROVE  q[o] \in Seq(Threads) /\ IsInjective(q[o]) /\ DOMAIN q[o] = 1..Len(q[o])
<1>1. q[o] \in Seq(Threads) /\ DOMAIN q[o] = 1..Len(q[o])
  BY DEF Queues
<1>2. \A i, j \in 1..Len(q[o]) : q[o][i] = q[o][j] => i = j
  BY OnePlace
<1> QED BY <1>1, <1>2 DEF IsInjective

LEMMA UnlinkType ==
  ASSUME NEW S, NEW list \in Seq(S), NEW t
  PROVE  Unlink(list, t) \in Seq(S)
<1>1. CASE t \notin ToSet(list)
  BY <1>1 DEF Unlink
<1>2. CASE t \in ToSet(list)
  <2> DEFINE k == CHOOSE k \in DOMAIN list : list[k] = t
             n == Len(list)
             r == Without(list, k)
  <2>1. k \in DOMAIN list
    BY <1>2 DEF ToSet
  <2>2. Unlink(list, t) = r
    BY <1>2 DEF Unlink
  <2> HIDE DEF k
  <2>3. n \in Nat /\ k \in 1..n /\ n - 1 \in Nat /\ \A i \in 1..n : list[i] \in S
    BY <2>1
  <2>4. r = [i \in 1..(n - 1) |-> IF i < k THEN list[i] ELSE list[i + 1]]
    BY DEF Without
  <2> HIDE DEF n, r
  <2>5. \A i \in 1..(n - 1) : (IF i < k THEN list[i] ELSE list[i + 1]) \in S
    BY <2>3
  <2>6. r \in [1..(n - 1) -> S]
    BY <2>4, <2>5
  <2> QED BY <2>2, <2>3, <2>6
<1> QED BY <1>1, <1>2

LEMMA DetachFacts ==
  ASSUME NEW s \in KStates, Represents(s.w, s.q), NEW t \in Threads, s.w.p[t]
  PROVE  LET d == Detach(s, t)
         IN  /\ d \in KStates /\ Represents(d.w, d.q)
             /\ MayLeave(s, t) => d.failed = "no"
             /\ d.failed = "no" => s.failed = "no" /\ Left(s, d, t)
<1> DEFINE d == Detach(s, t)
<1>1. s.w \in Fields /\ s.q \in Queues /\ s.waiters \in Seq(Threads)
  BY DEF KStates
<1>2. CASE s.failed # "no"
  BY <1>2 DEF Detach, MayLeave
<1>3. CASE s.failed = "no" /\ ObjectMissing(s.w, t)
  <2>1. d = [s EXCEPT !.failed = "object"]
    BY <1>3 DEF Detach
  <2> HIDE DEF d
  <2>2. d \in KStates /\ d.w = s.w /\ d.q = s.q /\ d.failed = "object"
    BY <2>1 DEF KStates, Failures
  <2>3. Represents(d.w, d.q) /\ ~MayLeave(s, t)
    BY <1>3, <2>2 DEF MayLeave
  <2> QED BY <2>2, <2>3 DEF d
<1>4. CASE /\ s.failed = "no" /\ ~ObjectMissing(s.w, t)
           /\ ~NDEBUG /\ reason[t] = "futex" /\ t \notin ToSet(s.waiters)
  <2>1. d = [s EXCEPT !.failed = "unlink"]
    BY <1>4 DEF Detach
  <2> HIDE DEF d
  <2>2. d \in KStates /\ d.w = s.w /\ d.q = s.q /\ d.failed = "unlink"
    BY <2>1 DEF KStates, Failures
  <2>3. Represents(d.w, d.q) /\ ~MayLeave(s, t)
    BY <1>4, <2>2 DEF MayLeave
  <2> QED BY <2>2, <2>3 DEF d
<1>5. CASE /\ s.failed = "no" /\ ~ObjectMissing(s.w, t)
           /\ ~(~NDEBUG /\ reason[t] = "futex" /\ t \notin ToSet(s.waiters))
  <2> DEFINE v == DequeueWaiter(s.w, t)
             r == [x \in Oids |-> Unlink(s.q[x], t)]
             ws == IF reason[t] = "futex" THEN Unlink(s.waiters, t) ELSE s.waiters
  <2>1. d = [s EXCEPT !.w = v, !.q = r, !.waiters = ws]
    BY <1>5 DEF Detach
  <2>2. v \in Fields /\ r \in Queues /\ Represents(v, r)
    <3>1. PICK o \in Oids : \E k \in 1..Len(s.q[o]) : s.q[o][k] = t
      BY <1>1, QueuePlace
    <3>2. PICK k \in 1..Len(s.q[o]) : s.q[o][k] = t
      BY <3>1
    <3>3. r = Removed(s.q, o, k)
      BY <1>1, <3>2, UnlinkQueue
    <3> QED BY <1>1, <3>2, <3>3, DequeueOK
  <2>3. /\ \A y \in Threads : v.p[y] <=> y # t /\ s.w.p[y]
        /\ \A x \in Oids : v.fp[x] => s.w.fp[x]
    BY <1>1, <2>2, DequeueFlags
  <2>4. ASSUME NEW x \in Oids PROVE ToSet(r[x]) \subseteq ToSet(s.q[x])
    <3>1. s.q[x] \in Seq(Threads) /\ IsInjective(s.q[x])
      BY <1>1, QueueSet
    <3>2. ToSet(Unlink(s.q[x], t)) \subseteq ToSet(s.q[x])
      BY <3>1, UnlinkList
    <3> QED BY <3>2
  <2>5. ws \in Seq(Threads)
    BY <1>1, UnlinkType
  <2> HIDE DEF v, r, ws, d
  <2>6. /\ d \in KStates /\ d.w = v /\ d.q = r /\ d.waiters = ws /\ d.failed = s.failed
        /\ d.arg = s.arg /\ d.running = s.running /\ d.blocked = s.blocked
    BY <2>1, <2>2, <2>5 DEF KStates
  <2>7. Left(s, d, t)
    BY <2>3, <2>4, <2>6 DEF Left, ws
  <2> QED BY <1>5, <2>2, <2>6, <2>7 DEF d
<1> QED BY <1>2, <1>3, <1>4, <1>5

\* t was put on the queue of o.
Joined(s, d, o, t) ==
    /\ o \in Oids /\ ~s.w.p[t]
    /\ \A y \in Threads : d.w.p[y] <=> y = t \/ s.w.p[y]
    /\ \A x \in Oids : d.w.fp[x] => x = o \/ s.w.fp[x]
    /\ d.arg = s.arg /\ d.running = s.running /\ d.blocked = s.blocked /\ d.waiters = s.waiters

LEMMA EnqueueFlags ==
  ASSUME NEW w \in Fields, NEW t \in Threads, NEW o \in Oids
  PROVE  LET v == EnqueueWaiter(w, o, t)
         IN  v \in Fields => /\ \A y \in Threads : v.p[y] <=> y = t \/ w.p[y]
                             /\ \A x \in Oids : v.fp[x] => x = o \/ w.fp[x]
BY DEF EnqueueWaiter, EnqueueFirst, EnqueueBefore, Fields

LEMMA AttachFacts ==
  ASSUME NEW s \in KStates, Represents(s.w, s.q), NEW t \in Threads, NEW o \in Oids \cup {None}
  PROVE  LET d == Attach(s, o, t)
         IN  /\ d \in KStates /\ Represents(d.w, d.q)
             /\ s.failed = "no" /\ ~s.w.p[t] /\ o # None => d.failed = "no"
             /\ d.failed = "no" => s.failed = "no" /\ Joined(s, d, o, t)
<1> DEFINE d == Attach(s, o, t)
<1>1. s.w \in Fields /\ s.q \in Queues
  BY DEF KStates
<1>2. CASE s.failed # "no"
  BY <1>2 DEF Attach
<1>3. CASE s.failed = "no" /\ s.w.p[t]
  <2>1. d = [s EXCEPT !.failed = "queued"]
    BY <1>3 DEF Attach
  <2> HIDE DEF d
  <2>2. d \in KStates /\ d.w = s.w /\ d.q = s.q /\ d.failed = "queued"
    BY <2>1 DEF KStates, Failures
  <2>3. Represents(d.w, d.q)
    BY <2>2
  <2> QED BY <1>3, <2>2, <2>3 DEF d
<1>4. CASE s.failed = "no" /\ ~s.w.p[t] /\ o = None
  <2>1. d = [s EXCEPT !.failed = "null"]
    BY <1>4 DEF Attach
  <2> HIDE DEF d
  <2>2. d \in KStates /\ d.w = s.w /\ d.q = s.q /\ d.failed = "null"
    BY <2>1 DEF KStates, Failures
  <2>3. Represents(d.w, d.q)
    BY <2>2
  <2> QED BY <1>4, <2>2, <2>3 DEF d
<1>5. CASE s.failed = "no" /\ ~s.w.p[t] /\ o # None
  <2> DEFINE v == EnqueueWaiter(s.w, o, t)
             r == [s.q EXCEPT ![o] = <<t>> \o @]
  <2>0. o \in Oids
    BY <1>5
  <2>1. d = [s EXCEPT !.w = v, !.q = r]
    <3>1. d = [s EXCEPT !.w = EnqueueWaiter(@, o, t), !.q[o] = <<t>> \o @]
      BY <1>5 DEF Attach
    <3> QED BY <3>1 DEF KStates
  <2>2. v \in Fields /\ r \in Queues /\ Represents(v, r)
    BY <1>1, <1>5, <2>0, EnqueueOK
  <2>3. /\ \A y \in Threads : v.p[y] <=> y = t \/ s.w.p[y]
        /\ \A x \in Oids : v.fp[x] => x = o \/ s.w.fp[x]
    BY <1>1, <2>0, <2>2, EnqueueFlags
  <2> HIDE DEF v, r, d
  <2>4. /\ d \in KStates /\ d.w = v /\ d.q = r /\ d.waiters = s.waiters /\ d.failed = s.failed
        /\ d.arg = s.arg /\ d.running = s.running /\ d.blocked = s.blocked
    BY <2>1, <2>2 DEF KStates
  <2>5. Joined(s, d, o, t)
    BY <1>5, <2>0, <2>3, <2>4 DEF Joined
  <2> QED BY <1>5, <2>2, <2>4, <2>5 DEF d
<1> QED BY <1>2, <1>3, <1>4, <1>5

LEMMA ReplyFacts ==
  ASSUME NEW s \in KStates, NEW t \in Threads
  PROVE  LET d == Reply(s, t)
         IN  /\ d \in KStates /\ d.w = s.w /\ d.q = s.q /\ d.failed = s.failed
             /\ d.waiters = s.waiters
             /\ s.failed = "no" => /\ d.blocked = s.blocked \ {t}
                                   /\ d.running \subseteq s.running \cup {t}
                                   /\ t \notin s.blocked => d.running = s.running
BY DEF Reply, KStates

LEMMA FutexReplyFacts ==
  ASSUME NEW s \in KStates, NEW t \in Threads
  PROVE  LET d == FutexReply(s, t)
         IN  /\ d \in KStates /\ d.w = s.w /\ d.q = s.q
             /\ d.failed = "no" => s.failed = "no" /\ d = Reply(s, t)
             /\ s.failed = "no" /\ t \in s.blocked => d.failed = "no"
<1>1. CASE s.failed = "no" /\ t \notin s.blocked
  <2>1. FutexReply(s, t) = [s EXCEPT !.failed = "reply"]
    BY <1>1 DEF FutexReply
  <2> DEFINE d == FutexReply(s, t)
  <2> HIDE DEF d
  <2>2. d \in KStates /\ d.w = s.w /\ d.q = s.q /\ d.failed = "reply"
    BY <2>1 DEF KStates, Failures, d
  <2> QED BY <1>1, <2>2 DEF d
<1>2. CASE ~(s.failed = "no" /\ t \notin s.blocked)
  <2>1. FutexReply(s, t) = Reply(s, t)
    BY <1>2 DEF FutexReply
  <2>2. LET d == Reply(s, t) IN d \in KStates /\ d.w = s.w /\ d.q = s.q /\ d.failed = s.failed
    BY ReplyFacts
  <2> QED BY <1>2, <2>1, <2>2
<1> QED BY <1>1, <1>2

-----------------------------------------------------------------------------
(***************************************************************************)
(* A waiter is dequeued and replied to.                                    *)
(***************************************************************************)
Gone(s, d, t) ==
    /\ \A y \in Threads : d.w.p[y] <=> y # t /\ s.w.p[y]
    /\ \A x \in Oids : ToSet(d.q[x]) \subseteq ToSet(s.q[x])
    /\ d.blocked = s.blocked \ {t}

LEMMA ListedLeft ==
  ASSUME NEW p, NEW ws \in Seq(Threads), Listed(p, ws, reason), NEW t \in Threads, p[t],
         NEW p2, \A y \in Threads : p2[y] <=> y # t /\ p[y],
         NEW ws2, ws2 = IF reason[t] = "futex" THEN Unlink(ws, t) ELSE ws
  PROVE  Listed(p2, ws2, reason)
<1>1. ToSet(ws) \subseteq Threads
  BY DEF ToSet
<1>2. ws2 \in Seq(Threads) /\ IsInjective(ws2) /\ ToSet(ws2) = ToSet(ws) \ {t}
  <2>1. CASE reason[t] = "futex"
    BY <2>1, UnlinkList DEF Listed
  <2>2. CASE reason[t] # "futex"
    BY <2>2 DEF Listed
  <2> QED BY <2>1, <2>2
<1> QED BY <1>1, <1>2 DEF Listed

LEMMA LeaveGood ==
  ASSUME NEW X, NEW s, Good(s, X, alive, reason), NEW t \in Threads, s.w.p[t]
  PROVE  LET d == Reply(Detach(s, t), t)
         IN  /\ Good(d, X, alive, reason)
             /\ MayLeave(s, t) => d.failed = "no"
             /\ d.failed = "no" => s.failed = "no" /\ Gone(s, d, t)
<1> DEFINE e == Detach(s, t)
           d == Reply(e, t)
<1>1. s \in KStates /\ Represents(s.w, s.q)
  BY DEF Good
<1>2. /\ e \in KStates /\ Represents(e.w, e.q)
      /\ MayLeave(s, t) => e.failed = "no"
      /\ e.failed = "no" => s.failed = "no" /\ Left(s, e, t)
  BY <1>1, DetachFacts
<1> HIDE DEF e
<1>3. /\ d \in KStates /\ d.w = e.w /\ d.q = e.q /\ d.failed = e.failed
      /\ d.waiters = e.waiters
      /\ e.failed = "no" => /\ d.blocked = e.blocked \ {t}
                            /\ d.running \subseteq e.running \cup {t}
                            /\ t \notin e.blocked => d.running = e.running
  BY <1>2, ReplyFacts
<1> HIDE DEF d
<1>4. Represents(d.w, d.q)
  BY <1>2, <1>3
<1>5. CASE d.failed = "no"
  <2>1. s.failed = "no" /\ Left(s, e, t) /\ e.failed = "no"
    BY <1>2, <1>3, <1>5
  <2>2. Fine(s.w.p, s.w.fp, s.waiters, s.running, s.blocked, X, alive, reason)
    BY <2>1 DEF Good
  <2>3. /\ d.blocked = s.blocked \ {t} /\ d.running \subseteq s.running \cup {t}
        /\ t \notin s.blocked => d.running = s.running
    BY <1>3, <2>1 DEF Left
  <2>4. /\ \A y \in Threads : d.w.p[y] <=> y # t /\ s.w.p[y]
        /\ \A x \in Oids : d.w.fp[x] => s.w.fp[x]
        /\ \A x \in Oids : ToSet(d.q[x]) \subseteq ToSet(s.q[x])
        /\ d.waiters = IF reason[t] = "futex" THEN Unlink(s.waiters, t) ELSE s.waiters
    BY <1>3, <2>1 DEF Left
  <2>5. s.blocked \subseteq Threads /\ s.running \subseteq Threads /\ s.waiters \in Seq(Threads)
    BY <1>1 DEF KStates
  <2>6. ~NDEBUG => Listed(d.w.p, d.waiters, reason)
    <3> SUFFICES ASSUME ~NDEBUG PROVE Listed(d.w.p, d.waiters, reason)
      OBVIOUS
    <3>1. Listed(s.w.p, s.waiters, reason)
      BY <2>2 DEF Fine
    <3> QED BY <2>4, <2>5, <3>1, ListedLeft
  <2>7. NDEBUG => d.waiters = <<>>
    <3> SUFFICES ASSUME NDEBUG PROVE d.waiters = <<>>
      OBVIOUS
    <3>1. s.waiters = <<>>
      BY <2>2 DEF Fine
    <3>2. Unlink(<<>>, t) = <<>>
      BY DEF Unlink, ToSet
    <3> QED BY <2>4, <3>1, <3>2
  <2>8. Fine(d.w.p, d.w.fp, d.waiters, d.running, d.blocked, X, alive, reason)
    <3>1. \A y \in d.blocked : d.w.p[y] \/ y \in X
      BY <2>2, <2>3, <2>4, <2>5 DEF Fine
    <3>2. \A y \in Threads : d.w.p[y] => y \in alive
      BY <2>2, <2>4 DEF Fine
    <3>3. \A x \in Oids : d.w.fp[x] => x \in alive
      BY <2>2, <2>4 DEF Fine
    <3>4. t \in alive /\ s.running \subseteq alive /\ s.running \cap s.blocked = {}
      BY <2>2 DEF Fine
    <3>5. d.running \subseteq alive /\ d.running \cap d.blocked = {}
      BY <2>3, <3>4
    <3> QED BY <2>6, <2>7, <3>1, <3>2, <3>3, <3>5 DEF Fine
  <2>9. Gone(s, d, t)
    BY <2>3, <2>4 DEF Gone
  <2> QED BY <1>3, <1>4, <2>1, <2>8, <2>9 DEF Good, d, e
<1>6. CASE d.failed # "no"
  BY <1>2, <1>3, <1>4, <1>6 DEF Good, d, e
<1> QED BY <1>5, <1>6

(***************************************************************************)
(* A waiter is moved to another futex.                                     *)
(***************************************************************************)
LEMMA MoveGood ==
  ASSUME NEW X, NEW s, Good(s, X, alive, reason), NEW t \in Threads, s.w.p[t],
         NEW o \in Oids \cup {None}, o # None => o \in alive /\ "requeue" \in Calls,
         NEW f \in Offsets \cup {None}
  PROVE  LET d == Detach(s, t)
             e == Attach([d EXCEPT !.arg[t] = {f}], o, t)
         IN  /\ Good(e, X, alive, reason)
             /\ MayLeave(s, t) /\ o # None => e.failed = "no"
             /\ e.failed = "no" => /\ s.failed = "no" /\ e.blocked = s.blocked
                                   /\ \A y \in Threads : e.w.p[y] <=> s.w.p[y]
<1> DEFINE d == Detach(s, t)
           c == [d EXCEPT !.arg[t] = {f}]
           e == Attach(c, o, t)
<1>1. s \in KStates /\ Represents(s.w, s.q)
  BY DEF Good
<1>2. /\ d \in KStates /\ Represents(d.w, d.q)
      /\ MayLeave(s, t) => d.failed = "no"
      /\ d.failed = "no" => s.failed = "no" /\ Left(s, d, t)
  BY <1>1, DetachFacts
<1> HIDE DEF d
<1>3. /\ c \in KStates /\ c.w = d.w /\ c.q = d.q /\ c.failed = d.failed
      /\ c.waiters = d.waiters /\ c.running = d.running /\ c.blocked = d.blocked
  <2>1. {f} \in SUBSET (Offsets \cup Events \cup {None})
    OBVIOUS
  <2> QED BY <1>2, <2>1 DEF KStates
<1> HIDE DEF c
<1>4. Represents(c.w, c.q)
  BY <1>2, <1>3
<1>5. /\ e \in KStates /\ Represents(e.w, e.q)
      /\ c.failed = "no" /\ ~c.w.p[t] /\ o # None => e.failed = "no"
      /\ e.failed = "no" => c.failed = "no" /\ Joined(c, e, o, t)
  BY <1>3, <1>4, AttachFacts
<1> HIDE DEF e
<1>6. MayLeave(s, t) /\ o # None => e.failed = "no"
  BY <1>2, <1>3, <1>5 DEF Left
<1>7. CASE e.failed = "no"
  <2>1. s.failed = "no" /\ Left(s, d, t) /\ Joined(c, e, o, t)
    BY <1>2, <1>3, <1>5, <1>7
  <2>2. Fine(s.w.p, s.w.fp, s.waiters, s.running, s.blocked, X, alive, reason)
    BY <2>1 DEF Good
  <2>3. /\ e.blocked = s.blocked /\ e.running = s.running
        /\ e.waiters = IF reason[t] = "futex" THEN Unlink(s.waiters, t) ELSE s.waiters
    BY <1>3, <2>1 DEF Left, Joined
  <2>4. \A y \in Threads : e.w.p[y] <=> s.w.p[y]
    BY <1>3, <2>1 DEF Left, Joined
  <2>5. o \in alive /\ o \in Oids /\ "requeue" \in Calls
    BY <2>1, OidsAssumption DEF Joined
  <2>6. \A x \in Oids : e.w.fp[x] => x = o \/ s.w.fp[x]
    BY <1>3, <2>1 DEF Left, Joined
  <2>7. s.waiters \in Seq(Threads) /\ s.blocked \subseteq Threads
    BY <1>1 DEF KStates
  <2>8. ~NDEBUG => Listed(e.w.p, e.waiters, reason)
    <3> SUFFICES ASSUME ~NDEBUG PROVE Listed(e.w.p, e.waiters, reason)
      OBVIOUS
    <3>1. Listed(s.w.p, s.waiters, reason)
      BY <2>2 DEF Fine
    <3>2. ToSet(s.waiters) \subseteq Threads
      BY <2>7 DEF ToSet
    <3>3. IsInjective(e.waiters) /\ ToSet(e.waiters) \subseteq ToSet(s.waiters)
      <4>1. CASE reason[t] = "futex"
        <5>1. IsInjective(Unlink(s.waiters, t)) /\ ToSet(Unlink(s.waiters, t)) = ToSet(s.waiters) \ {t}
          BY <2>7, <3>1, UnlinkList DEF Listed
        <5> QED BY <2>3, <4>1, <5>1
      <4>2. CASE reason[t] # "futex"
        BY <2>3, <3>1, <4>2 DEF Listed
      <4> QED BY <4>1, <4>2
    <3> QED BY <2>4, <2>5, <3>1, <3>2, <3>3 DEF Listed
  <2>9. NDEBUG => e.waiters = <<>>
    <3> SUFFICES ASSUME NDEBUG PROVE e.waiters = <<>>
      OBVIOUS
    <3>1. s.waiters = <<>>
      BY <2>2 DEF Fine
    <3>2. Unlink(<<>>, t) = <<>>
      BY DEF Unlink, ToSet
    <3> QED BY <2>3, <3>1, <3>2
  <2>10. Fine(e.w.p, e.w.fp, e.waiters, e.running, e.blocked, X, alive, reason)
    <3>1. \A y \in e.blocked : e.w.p[y] \/ y \in X
      BY <2>2, <2>3, <2>4, <2>7 DEF Fine
    <3>2. \A y \in Threads : e.w.p[y] => y \in alive
      BY <2>2, <2>4 DEF Fine
    <3>3. \A x \in Oids : e.w.fp[x] => x \in alive
      BY <2>2, <2>5, <2>6 DEF Fine
    <3>4. e.running \subseteq alive /\ e.running \cap e.blocked = {}
      BY <2>2, <2>3 DEF Fine
    <3> QED BY <2>8, <2>9, <3>1, <3>2, <3>3, <3>4 DEF Fine
  <2> QED BY <1>5, <1>6, <2>1, <2>3, <2>4, <2>10 DEF Good, d, c, e
<1>8. CASE e.failed # "no"
  BY <1>5, <1>6, <1>8 DEF Good, d, c, e
<1> QED BY <1>7, <1>8

-----------------------------------------------------------------------------
(***************************************************************************)
(* The loop of WakeEach.                                                   *)
(***************************************************************************)
EachStep(a, t, chosen) == IF t \in chosen THEN Reply(Detach(a, t), t) ELSE a

EachRuns(g, s, list, chosen, n) ==
    g = [i \in 0..n |-> IF i = 0 THEN s ELSE EachStep(g[i - 1], list[i], chosen)]

LEMMA EachMore ==
  ASSUME NEW s, NEW list, NEW chosen, NEW n \in Nat, NEW g, EachRuns(g, s, list, chosen, n)
  PROVE  \E h : EachRuns(h, s, list, chosen, n + 1)
<1> DEFINE e == EachStep(g[n], list[n + 1], chosen)
           h == [i \in 0..(n + 1) |-> IF i = n + 1 THEN e ELSE g[i]]
           k == [i \in 0..(n + 1) |-> IF i = 0 THEN s ELSE EachStep(h[i - 1], list[i], chosen)]
<1>1. ASSUME NEW i \in 0..(n + 1) PROVE h[i] = k[i]
  <2>1. CASE i = n + 1
    <3>1. i # 0 /\ i - 1 = n /\ n \in 0..(n + 1) /\ n # n + 1
      BY <2>1
    <3>2. h[i - 1] = g[n] /\ h[i] = e
      <4> HIDE DEF e
      <4> QED BY <2>1, <3>1
    <3>3. k[i] = EachStep(h[i - 1], list[i], chosen)
      <4> HIDE DEF h
      <4> QED BY <3>1
    <3> HIDE DEF h, k
    <3> QED BY <2>1, <3>2, <3>3
  <2>2. CASE i # n + 1
    <3>1. i \in 0..n /\ h[i] = g[i]
      BY <2>2
    <3>2. g[i] = IF i = 0 THEN s ELSE EachStep(g[i - 1], list[i], chosen)
      BY <3>1 DEF EachRuns
    <3>3. i # 0 => h[i - 1] = g[i - 1]
      <4>1. i # 0 => i - 1 \in 0..(n + 1) /\ i - 1 # n + 1
        BY <3>1
      <4> HIDE DEF e
      <4> QED BY <4>1
    <3>4. k[i] = IF i = 0 THEN s ELSE EachStep(h[i - 1], list[i], chosen)
      <4> HIDE DEF h
      <4> QED OBVIOUS
    <3> HIDE DEF h, k
    <3> QED BY <3>1, <3>2, <3>3, <3>4
  <2> QED BY <2>1, <2>2
<1>2. h = k
  <2>1. DOMAIN h = 0..(n + 1) /\ DOMAIN k = 0..(n + 1) /\ h = [i \in DOMAIN h |-> h[i]]
          /\ k = [i \in DOMAIN k |-> k[i]]
    OBVIOUS
  <2> HIDE DEF h, k
  <2> QED BY <1>1, <2>1
<1>3. EachRuns(h, s, list, chosen, n + 1)
  <2> HIDE DEF h
  <2> QED BY <1>2 DEF EachRuns, k
<1> QED BY <1>3

LEMMA EachExists ==
  ASSUME NEW s, NEW list, NEW chosen, NEW n \in Nat
  PROVE  \E g : EachRuns(g, s, list, chosen, n)
<1> DEFINE Bad == {m \in Nat : ~ \E g : EachRuns(g, s, list, chosen, m)}
<1>1. SUFFICES ASSUME Bad # {} PROVE FALSE
  OBVIOUS
<1>2. PICK x \in Bad : \A y \in Bad : ~(<<y, x>> \in OpToRel(<, Nat))
  BY <1>1, NatLessThanWellFounded, WFMin, Zenon
<1>3. CASE x = 0
  <2>1. EachRuns([i \in 0..0 |-> s], s, list, chosen, 0)
    <3>1. \A i \in 0..0 : i = 0
      OBVIOUS
    <3> QED BY <3>1 DEF EachRuns
  <2> QED BY <1>3, <2>1
<1>4. CASE x # 0
  <2>1. x - 1 \in Nat /\ x - 1 < x /\ (x - 1) + 1 = x
    BY <1>4
  <2>2. x - 1 \notin Bad
    <3>1. <<x - 1, x>> \in OpToRel(<, Nat)
      BY <2>1 DEF OpToRel
    <3> QED BY <1>2, <3>1
  <2>3. PICK g : EachRuns(g, s, list, chosen, x - 1)
    BY <2>1, <2>2
  <2>4. \E h : EachRuns(h, s, list, chosen, x)
    BY <2>1, <2>3, EachMore
  <2> QED BY <2>4
<1> QED BY <1>3, <1>4

LEMMA EachIs ==
  ASSUME NEW s, NEW S, NEW list \in Seq(S), NEW chosen
  PROVE  \E g : EachRuns(g, s, list, chosen, Len(list)) /\ WakeEach(s, list, chosen) = g[Len(list)]
<1> DEFINE g == CHOOSE g : g = [i \in 0..Len(list) |->
                   IF i = 0 THEN s
                   ELSE IF list[i] \in chosen THEN Reply(Detach(g[i - 1], list[i]), list[i])
                   ELSE g[i - 1]]
<1>1. EachRuns(g, s, list, chosen, Len(list))
  <2>0. Len(list) \in Nat
    OBVIOUS
  <2>1. \E h : EachRuns(h, s, list, chosen, Len(list))
    BY <2>0, EachExists
  <2> QED BY <2>1 DEF EachRuns, EachStep
<1>2. WakeEach(s, list, chosen) = g[Len(list)]
  BY DEF WakeEach
<1> QED BY <1>1, <1>2

\* Nothing is discarded and the debug list, if there is one, is complete.
Calm == discarded = {} /\ (NDEBUG \/ "requeue" \notin Calls)

LEMMA CalmLeaves ==
  ASSUME Calm, NEW X, NEW s, Good(s, X, alive, reason), s.failed = "no", NEW t \in Threads, s.w.p[t]
  PROVE  MayLeave(s, t)
BY DEF Calm, Good, Fine, Listed, MayLeave, ObjectMissing

\* Those in G were woken.
Woken(s, d, G) ==
    /\ \A y \in Threads : d.w.p[y] <=> y \notin G /\ s.w.p[y]
    /\ \A x \in Oids : ToSet(d.q[x]) \subseteq ToSet(s.q[x])
    /\ d.blocked = s.blocked \ G

(***************************************************************************)
(* Those of a list who are chosen are woken, unless an assertion fails.    *)
(***************************************************************************)
LEMMA WakeEachGood ==
  ASSUME NEW X, NEW s, Good(s, X, alive, reason), NEW list \in Seq(Threads), IsInjective(list),
         \A t \in ToSet(list) : s.w.p[t], NEW chosen
  PROVE  LET d == WakeEach(s, list, chosen)
         IN  /\ Good(d, X, alive, reason)
             /\ Calm /\ s.failed = "no" => d.failed = "no"
             /\ d.failed = "no" => s.failed = "no" /\ Woken(s, d, ToSet(list) \cap chosen)
<1> DEFINE n == Len(list)
<1>1. PICK g : EachRuns(g, s, list, chosen, n) /\ WakeEach(s, list, chosen) = g[n]
  BY EachIs
<1>2. n \in Nat /\ DOMAIN list = 1..n /\ \A i \in 1..n : list[i] \in Threads
  OBVIOUS
<1>3. \A i \in 0..n : g[i] = IF i = 0 THEN s ELSE EachStep(g[i - 1], list[i], chosen)
  BY <1>1 DEF EachRuns
<1>4. \A i, j \in 1..n : list[i] = list[j] => i = j
  BY <1>2 DEF IsInjective
<1>5. \A i \in 1..n : s.w.p[list[i]]
  BY <1>2 DEF ToSet
<1> HIDE DEF n
<1> DEFINE G(i) == {list[j] : j \in 1..i} \cap chosen
           Right(i) == /\ Good(g[i], X, alive, reason)
                       /\ Calm /\ s.failed = "no" => g[i].failed = "no"
                       /\ g[i].failed = "no" => s.failed = "no" /\ Woken(s, g[i], G(i))
           Bad == {i \in 0..n : ~Right(i)}
<1>6. Right(0)
  <2>1. g[0] = s
    BY <1>2, <1>3
  <2>2. G(0) = {}
    OBVIOUS
  <2>3. Woken(s, g[0], G(0))
    BY <2>1, <2>2 DEF Woken
  <2> QED BY <2>1, <2>3
<1>7. ASSUME NEW i \in 1..n, Right(i - 1) PROVE Right(i)
  <2> DEFINE a == g[i - 1]
             t == list[i]
             b == g[i]
             H == G(i - 1)
             K == G(i)
  <2>1. i \in 0..n /\ i # 0 /\ i - 1 \in Nat /\ t \in Threads
    BY <1>2
  <2>2. b = EachStep(a, t, chosen)
    BY <1>3, <2>1
  <2>3. K = H \cup ({t} \cap chosen)
    <3>1. 1..i = (1..(i - 1)) \cup {i}
      BY <2>1
    <3>2. {list[j] : j \in 1..i} = {list[j] : j \in 1..(i - 1)} \cup {t}
      BY <3>1
    <3> QED BY <3>2
  <2>4. t \notin H
    <3>1. \A j \in 1..(i - 1) : j \in 1..n /\ j # i
      BY <1>2, <2>1
    <3> QED BY <1>4, <3>1
  <2>5. /\ Good(a, X, alive, reason)
        /\ Calm /\ s.failed = "no" => a.failed = "no"
        /\ a.failed = "no" => s.failed = "no" /\ Woken(s, a, H)
    BY <1>7
  <2>6. s.w.p[t]
    BY <1>5
  <2> HIDE DEF a, t, b, H, K, G, Right
  <2>7. /\ Good(b, X, alive, reason)
        /\ Calm /\ s.failed = "no" => b.failed = "no"
        /\ b.failed = "no" => s.failed = "no" /\ Woken(s, b, K)
    <3>1. CASE t \notin chosen
      <4>1. b = a /\ K = H
        BY <2>2, <2>3, <3>1 DEF EachStep
      <4> QED BY <2>5, <4>1
    <3>2. CASE t \in chosen /\ a.failed # "no"
      <4>1. b = a
        BY <2>2, <3>2 DEF EachStep, Detach, Reply
      <4> QED BY <2>5, <3>2, <4>1
    <3>3. CASE t \in chosen /\ a.failed = "no"
      <4>1. b = Reply(Detach(a, t), t) /\ K = H \cup {t}
        BY <2>2, <2>3, <3>3 DEF EachStep
      <4>2. Woken(s, a, H) /\ s.failed = "no"
        BY <2>5, <3>3
      <4>3. a.w.p[t]
        BY <2>1, <2>4, <2>6, <4>2 DEF Woken
      <4>4. /\ Good(b, X, alive, reason)
            /\ MayLeave(a, t) => b.failed = "no"
            /\ b.failed = "no" => Gone(a, b, t)
        BY <2>1, <2>5, <4>1, <4>3, LeaveGood
      <4>5. Calm => b.failed = "no"
        BY <2>1, <2>5, <3>3, <4>3, <4>4, CalmLeaves
      <4>6. Gone(a, b, t) => Woken(s, b, K)
        <5> SUFFICES ASSUME Gone(a, b, t) PROVE Woken(s, b, K)
          OBVIOUS
        <5>1. \A y \in Threads : b.w.p[y] <=> y \notin K /\ s.w.p[y]
          BY <4>1, <4>2 DEF Gone, Woken
        <5>2. \A x \in Oids : ToSet(b.q[x]) \subseteq ToSet(s.q[x])
          BY <4>2 DEF Gone, Woken
        <5>3. b.blocked = s.blocked \ K
          BY <4>1, <4>2 DEF Gone, Woken
        <5> QED BY <5>1, <5>2, <5>3 DEF Woken
      <4> QED BY <4>2, <4>4, <4>5, <4>6
    <3> QED BY <3>1, <3>2, <3>3
  <2> QED BY <2>7 DEF b, K, Right
<1> HIDE DEF Right
<1>8. Bad = {}
  <2> SUFFICES ASSUME Bad # {} PROVE FALSE
    OBVIOUS
  <2>0. Bad \subseteq Nat
    BY <1>2
  <2>1. PICK x \in Bad : \A y \in Bad : ~(<<y, x>> \in OpToRel(<, Nat))
    BY <2>0, NatLessThanWellFounded, WFMin, Zenon
  <2>2. x \in 0..n /\ ~Right(x) /\ x # 0
    BY <1>6, <2>1
  <2>3. x \in 1..n /\ x - 1 \in 0..n /\ x - 1 \in Nat /\ x \in Nat /\ x - 1 < x
    BY <1>2, <2>2
  <2>4. <<x - 1, x>> \in OpToRel(<, Nat)
    BY <2>3 DEF OpToRel
  <2>5. Right(x - 1)
    BY <2>1, <2>3, <2>4
  <2> QED BY <1>7, <2>2, <2>3, <2>5
<1>9. Right(n)
  BY <1>2, <1>8
<1>10. G(n) = ToSet(list) \cap chosen
  BY <1>2 DEF ToSet
<1> QED BY <1>1, <1>9, <1>10 DEF Right

-----------------------------------------------------------------------------
(***************************************************************************)
(* The loop of wake, the helper of the futex call.                         *)
(***************************************************************************)
WakeRuns(g, s, list, nw, f1, o2, f2, n) ==
    g = [i \in 0..n |-> IF i = 0 THEN s ELSE WakeOne(g[i - 1], list[i], nw, f1, o2, f2)]

LEMMA WakeMore ==
  ASSUME NEW s, NEW list, NEW nw, NEW f1, NEW o2, NEW f2, NEW n \in Nat, NEW g,
         WakeRuns(g, s, list, nw, f1, o2, f2, n)
  PROVE  \E h : WakeRuns(h, s, list, nw, f1, o2, f2, n + 1)
<1> DEFINE e == WakeOne(g[n], list[n + 1], nw, f1, o2, f2)
           h == [i \in 0..(n + 1) |-> IF i = n + 1 THEN e ELSE g[i]]
           k == [i \in 0..(n + 1) |-> IF i = 0 THEN s ELSE WakeOne(h[i - 1], list[i], nw, f1, o2, f2)]
<1>1. ASSUME NEW i \in 0..(n + 1) PROVE h[i] = k[i]
  <2>1. CASE i = n + 1
    <3>1. i # 0 /\ i - 1 = n /\ n \in 0..(n + 1) /\ n # n + 1
      BY <2>1
    <3>2. h[i - 1] = g[n] /\ h[i] = e
      <4> HIDE DEF e
      <4> QED BY <2>1, <3>1
    <3>3. k[i] = WakeOne(h[i - 1], list[i], nw, f1, o2, f2)
      <4> HIDE DEF h
      <4> QED BY <3>1
    <3> HIDE DEF h, k
    <3> QED BY <2>1, <3>2, <3>3
  <2>2. CASE i # n + 1
    <3>1. i \in 0..n /\ h[i] = g[i]
      BY <2>2
    <3>2. g[i] = IF i = 0 THEN s ELSE WakeOne(g[i - 1], list[i], nw, f1, o2, f2)
      BY <3>1 DEF WakeRuns
    <3>3. i # 0 => h[i - 1] = g[i - 1]
      <4>1. i # 0 => i - 1 \in 0..(n + 1) /\ i - 1 # n + 1
        BY <3>1
      <4> HIDE DEF e
      <4> QED BY <4>1
    <3>4. k[i] = IF i = 0 THEN s ELSE WakeOne(h[i - 1], list[i], nw, f1, o2, f2)
      <4> HIDE DEF h
      <4> QED OBVIOUS
    <3> HIDE DEF h, k
    <3> QED BY <3>1, <3>2, <3>3, <3>4
  <2> QED BY <2>1, <2>2
<1>2. h = k
  <2>1. DOMAIN h = 0..(n + 1) /\ DOMAIN k = 0..(n + 1) /\ h = [i \in DOMAIN h |-> h[i]]
          /\ k = [i \in DOMAIN k |-> k[i]]
    OBVIOUS
  <2> HIDE DEF h, k
  <2> QED BY <1>1, <2>1
<1>3. WakeRuns(h, s, list, nw, f1, o2, f2, n + 1)
  <2> HIDE DEF h
  <2> QED BY <1>2 DEF WakeRuns, k
<1> QED BY <1>3

LEMMA WakeExists ==
  ASSUME NEW s, NEW list, NEW nw, NEW f1, NEW o2, NEW f2, NEW n \in Nat
  PROVE  \E g : WakeRuns(g, s, list, nw, f1, o2, f2, n)
<1> DEFINE Bad == {m \in Nat : ~ \E g : WakeRuns(g, s, list, nw, f1, o2, f2, m)}
<1>1. SUFFICES ASSUME Bad # {} PROVE FALSE
  OBVIOUS
<1>2. PICK x \in Bad : \A y \in Bad : ~(<<y, x>> \in OpToRel(<, Nat))
  BY <1>1, NatLessThanWellFounded, WFMin, Zenon
<1>3. CASE x = 0
  <2>1. WakeRuns([i \in 0..0 |-> s], s, list, nw, f1, o2, f2, 0)
    <3>1. \A i \in 0..0 : i = 0
      OBVIOUS
    <3> QED BY <3>1 DEF WakeRuns
  <2> QED BY <1>3, <2>1
<1>4. CASE x # 0
  <2>1. x - 1 \in Nat /\ x - 1 < x /\ (x - 1) + 1 = x
    BY <1>4
  <2>2. x - 1 \notin Bad
    <3>1. <<x - 1, x>> \in OpToRel(<, Nat)
      BY <2>1 DEF OpToRel
    <3> QED BY <1>2, <3>1
  <2>3. PICK g : WakeRuns(g, s, list, nw, f1, o2, f2, x - 1)
    BY <2>1, <2>2
  <2>4. \E h : WakeRuns(h, s, list, nw, f1, o2, f2, x)
    BY <2>1, <2>3, WakeMore
  <2> QED BY <2>4
<1> QED BY <1>3, <1>4

LoopStart(s, nr) == [s |-> s, count |-> 0, requeue |-> nr, stop |-> s.failed # "no"]

LEMMA WakeIs ==
  ASSUME NEW s, NEW S, NEW nw, NEW o1, NEW f1, NEW nr, NEW o2, NEW f2, NEW list \in Seq(S),
         Walk(s.w, o1) = list
  PROVE  \E g : /\ WakeRuns(g, LoopStart(s, nr), list, nw, f1, o2, f2, Len(list))
                /\ Wake(s, nw, o1, f1, nr, o2, f2) = g[Len(list)].s
<1> DEFINE g == CHOOSE g : g = [i \in 0..Len(list) |->
                   IF i = 0 THEN [s |-> s, count |-> 0, requeue |-> nr, stop |-> s.failed # "no"]
                   ELSE WakeOne(g[i - 1], list[i], nw, f1, o2, f2)]
<1>1. WakeRuns(g, LoopStart(s, nr), list, nw, f1, o2, f2, Len(list))
  <2>0. Len(list) \in Nat
    OBVIOUS
  <2>1. \E h : WakeRuns(h, LoopStart(s, nr), list, nw, f1, o2, f2, Len(list))
    BY <2>0, WakeExists
  <2> QED BY <2>1 DEF WakeRuns, LoopStart
<1>2. Wake(s, nw, o1, f1, nr, o2, f2) = g[Len(list)].s
  BY DEF Wake
<1> QED BY <1>1, <1>2


Progress == [s : KStates, count : Int, requeue : Int, stop : BOOLEAN]

(***************************************************************************)
(* Every waiter the loop visits is left alone, woken or moved.             *)
(***************************************************************************)
LEMMA FutexLeaveGood ==
  ASSUME NEW X, NEW s, Good(s, X, alive, reason), NEW t \in Threads, s.w.p[t]
  PROVE  LET d == FutexReply(Detach(s, t), t)
         IN  /\ Good(d, X, alive, reason)
             /\ MayLeave(s, t) /\ t \in s.blocked => d.failed = "no"
             /\ d.failed = "no" => s.failed = "no" /\ Gone(s, d, t)
<1> DEFINE e == Detach(s, t)
           d == FutexReply(e, t)
<1>1. /\ e \in KStates /\ Represents(e.w, e.q)
      /\ MayLeave(s, t) => e.failed = "no"
      /\ e.failed = "no" => s.failed = "no" /\ Left(s, e, t)
  BY DetachFacts DEF Good
<1>2. /\ Good(Reply(e, t), X, alive, reason)
      /\ Reply(e, t).failed = "no" => s.failed = "no" /\ Gone(s, Reply(e, t), t)
  BY LeaveGood
<1> HIDE DEF e
<1>3. /\ d \in KStates /\ d.w = e.w /\ d.q = e.q
      /\ d.failed = "no" => e.failed = "no" /\ d = Reply(e, t)
      /\ e.failed = "no" /\ t \in e.blocked => d.failed = "no"
  BY <1>1, FutexReplyFacts
<1> HIDE DEF d
<1>4. MayLeave(s, t) /\ t \in s.blocked => d.failed = "no"
  BY <1>1, <1>3 DEF Left
<1>5. CASE d.failed = "no"
  BY <1>2, <1>3, <1>4, <1>5 DEF d, e
<1>6. CASE d.failed # "no"
  <2>1. Represents(d.w, d.q)
    BY <1>1, <1>3
  <2>2. Good(d, X, alive, reason)
    BY <1>3, <1>6, <2>1 DEF Good
  <2> QED BY <1>4, <1>6, <2>2 DEF d, e
<1> QED BY <1>5, <1>6

\* Everyone on a queue waits for a reply.
Tight(s) == s.failed = "no" /\ \A y \in Threads : s.w.p[y] => y \in s.blocked

\* The loop of a call that moves nobody ends before it would.
Bounded(a, nw, o2) == o2 = None => a.stop \/ a.count < nw

\* One turn of the loop, at a waiter t.
LEMMA WakeOneGood ==
  ASSUME NEW X, NEW a \in Progress, Good(a.s, X, alive, reason), NEW t \in Threads,
         a.s.failed = "no" => a.s.w.p[t],
         a.s.failed # "no" => a.stop,
         NEW nw \in Nat, NEW f1, NEW o2 \in Oids \cup {None}, NEW f2 \in Offsets \cup {None},
         o2 # None => o2 \in alive /\ "requeue" \in Calls
  PROVE  LET b == WakeOne(a, t, nw, f1, o2, f2)
         IN  /\ b \in Progress /\ Good(b.s, X, alive, reason)
             /\ b.s.failed # "no" => b.stop
             /\ b.s.failed = "no" => /\ a.s.failed = "no"
                                     /\ \A y \in Threads \ {t} : b.s.w.p[y] <=> a.s.w.p[y]
             /\ Calm /\ Tight(a.s) /\ Bounded(a, nw, o2) => Tight(b.s)
<1> DEFINE b == WakeOne(a, t, nw, f1, o2, f2)
<1>1. a.s \in KStates /\ a.count \in Int /\ a.requeue \in Int /\ a.stop \in BOOLEAN
  BY DEF Progress
<1>2. CASE a.stop \/ reason[t] # "futex" \/ a.s.arg[t] # {f1}
  <2>1. b = a
    BY <1>2 DEF WakeOne
  <2> QED BY <2>1
<1>3. CASE ~(a.stop \/ reason[t] # "futex" \/ a.s.arg[t] # {f1}) /\ a.count < nw
  <2> DEFINE s == FutexReply(Detach(a.s, t), t)
             stop == s.failed # "no" \/ (a.count + 1 = nw /\ a.requeue = 0)
  <2>1. b = [s |-> s, count |-> a.count + 1, requeue |-> a.requeue, stop |-> stop]
    BY <1>3 DEF WakeOne
  <2>2. a.s.failed = "no" /\ a.s.w.p[t]
    BY <1>3
  <2>3. /\ Good(s, X, alive, reason)
        /\ MayLeave(a.s, t) /\ t \in a.s.blocked => s.failed = "no"
        /\ s.failed = "no" => Gone(a.s, s, t)
    BY <2>2, FutexLeaveGood
  <2>4. Calm /\ Tight(a.s) => s.failed = "no"
    BY <2>2, <2>3, CalmLeaves DEF Tight
  <2> HIDE DEF s, b
  <2>5. b.s = s /\ b \in Progress /\ (s.failed # "no" => b.stop)
    <3>1. s \in KStates
      BY <2>3 DEF Good
    <3>2. stop \in BOOLEAN /\ (s.failed # "no" => stop)
      OBVIOUS
    <3>3. a.count + 1 \in Int /\ a.requeue \in Int /\ a.requeue - 1 \in Int
      BY <1>1
    <3> HIDE DEF stop
    <3>4. b \in Progress
      BY <2>1, <3>1, <3>2, <3>3 DEF Progress
    <3>5. b.s = s /\ b.stop = stop
      BY <2>1
    <3> QED BY <3>2, <3>4, <3>5
  <2>6. s.failed = "no" => \A y \in Threads : s.w.p[y] <=> y # t /\ a.s.w.p[y]
    BY <2>3 DEF Gone
  <2>7. Calm /\ Tight(a.s) => Tight(s)
    BY <2>3, <2>4 DEF Tight, Gone
  <2> QED BY <2>2, <2>3, <2>5, <2>6, <2>7 DEF b
<1>4. CASE ~(a.stop \/ reason[t] # "futex" \/ a.s.arg[t] # {f1}) /\ ~(a.count < nw)
  <2> DEFINE d == Detach(a.s, t)
             s == Attach([d EXCEPT !.arg[t] = {f2}], o2, t)
             stop == s.failed # "no" \/ a.requeue - 1 = 0
  <2>1. b = [s |-> s, count |-> a.count + 1, requeue |-> a.requeue - 1, stop |-> stop]
    BY <1>4 DEF WakeOne
  <2>2. a.s.failed = "no" /\ a.s.w.p[t]
    BY <1>4
  <2>3. /\ Good(s, X, alive, reason)
        /\ MayLeave(a.s, t) /\ o2 # None => s.failed = "no"
        /\ s.failed = "no" => /\ s.blocked = a.s.blocked
                              /\ \A y \in Threads : s.w.p[y] <=> a.s.w.p[y]
    BY <2>2, MoveGood
  <2>4. Calm /\ Tight(a.s) /\ Bounded(a, nw, o2) => s.failed = "no"
    BY <1>4, <2>2, <2>3, CalmLeaves DEF Tight, Bounded
  <2> HIDE DEF s, b
  <2>5. b.s = s /\ b \in Progress /\ (s.failed # "no" => b.stop)
    <3>1. s \in KStates
      BY <2>3 DEF Good
    <3>2. stop \in BOOLEAN /\ (s.failed # "no" => stop)
      OBVIOUS
    <3>3. a.count + 1 \in Int /\ a.requeue \in Int /\ a.requeue - 1 \in Int
      BY <1>1
    <3> HIDE DEF stop
    <3>4. b \in Progress
      BY <2>1, <3>1, <3>2, <3>3 DEF Progress
    <3>5. b.s = s /\ b.stop = stop
      BY <2>1
    <3> QED BY <3>2, <3>4, <3>5
  <2>7. Calm /\ Tight(a.s) /\ Bounded(a, nw, o2) => Tight(s)
    BY <2>3, <2>4 DEF Tight
  <2> QED BY <2>2, <2>3, <2>5, <2>7 DEF b
<1> QED BY <1>2, <1>3, <1>4

LEMMA WakeOneBounded ==
  ASSUME NEW a \in Progress, NEW t, NEW nw \in Nat, NEW f1, NEW f2, NEW o2,
         o2 = None => a.requeue = 0, Bounded(a, nw, o2)
  PROVE  LET b == WakeOne(a, t, nw, f1, o2, f2)
         IN  (o2 = None => b.requeue = 0) /\ Bounded(b, nw, o2)
<1> SUFFICES ASSUME o2 = None
             PROVE  LET b == WakeOne(a, t, nw, f1, o2, f2)
                    IN  b.requeue = 0 /\ (b.stop \/ b.count < nw)
  BY DEF Bounded
<1> DEFINE b == WakeOne(a, t, nw, f1, o2, f2)
<1>1. a.count \in Int /\ a.requeue = 0 /\ a.stop \in BOOLEAN /\ (a.stop \/ a.count < nw)
  BY DEF Progress, Bounded
<1>2. CASE a.stop \/ reason[t] # "futex" \/ a.s.arg[t] # {f1}
  <2>1. b = a
    BY <1>2 DEF WakeOne
  <2> QED BY <1>1, <2>1
<1>3. CASE ~(a.stop \/ reason[t] # "futex" \/ a.s.arg[t] # {f1})
  <2> DEFINE s == FutexReply(Detach(a.s, t), t)
             stop == s.failed # "no" \/ (a.count + 1 = nw /\ a.requeue = 0)
  <2>1. b = [s |-> s, count |-> a.count + 1, requeue |-> a.requeue, stop |-> stop]
    BY <1>1, <1>3 DEF WakeOne
  <2> HIDE DEF s, b
  <2>2. b.requeue = 0 /\ b.count = a.count + 1 /\ b.stop = stop
    BY <1>1, <2>1
  <2>3. a.count + 1 < nw \/ a.count + 1 = nw
    BY <1>1, <1>3
  <2> QED BY <1>1, <2>2, <2>3 DEF b
<1> QED BY <1>2, <1>3

(***************************************************************************)
(* The whole loop.                                                         *)
(***************************************************************************)
LEMMA WakeGood ==
  ASSUME NEW X, NEW s, Good(s, X, alive, reason), NEW o1 \in Oids,
         NEW nw \in Nat, NEW nr \in Nat, NEW f1, NEW o2 \in Oids \cup {None},
           NEW f2 \in Offsets \cup {None},
         o2 # None => o2 \in alive /\ "requeue" \in Calls
  PROVE  LET d == Wake(s, nw, o1, f1, nr, o2, f2)
         IN  /\ Good(d, X, alive, reason)
             /\ Calm /\ Tight(s) /\ (o2 = None => nw > 0 /\ nr = 0) => Tight(d)
<1> DEFINE list == s.q[o1]
           n == Len(list)
           a0 == LoopStart(s, nr)
<1>0. s \in KStates /\ s.w \in Fields /\ s.q \in Queues /\ Represents(s.w, s.q)
  BY DEF Good, KStates
<1>1. list \in Seq(Threads) /\ IsInjective(list) /\ DOMAIN list = 1..n /\ Walk(s.w, o1) = list
  BY <1>0, QueueSet, WalkIs
<1>2. \A i \in 1..n : s.w.p[list[i]] /\ list[i] \in Threads
  BY <1>0, LinkedFacts, WaiterIsThread
<1> HIDE DEF list
<1>3. PICK g : WakeRuns(g, a0, list, nw, f1, o2, f2, n) /\ Wake(s, nw, o1, f1, nr, o2, f2) = g[n].s
  BY <1>1, WakeIs
<1>4. n \in Nat
  BY <1>1
<1>5. \A i \in 0..n : g[i] = IF i = 0 THEN a0 ELSE WakeOne(g[i - 1], list[i], nw, f1, o2, f2)
  BY <1>3 DEF WakeRuns
<1>6. \A i, j \in 1..n : list[i] = list[j] => i = j
  BY <1>1 DEF IsInjective
<1> DEFINE Ready == Calm /\ Tight(s) /\ (o2 = None => nw > 0 /\ nr = 0)
           Right(i) == /\ g[i] \in Progress /\ Good(g[i].s, X, alive, reason)
                       /\ g[i].s.failed # "no" => g[i].stop
                       /\ g[i].s.failed = "no" => \A j \in 1..n : j > i => g[i].s.w.p[list[j]]
                       /\ Ready => /\ Tight(g[i].s) /\ Bounded(g[i], nw, o2)
                                   /\ o2 = None => g[i].requeue = 0
           Bad == {i \in 0..n : ~Right(i)}
<1> HIDE DEF n
<1>7. Right(0)
  <2>1. g[0] = a0
    BY <1>4, <1>5
  <2>2. a0 \in Progress /\ a0.s = s /\ a0.count = 0 /\ a0.requeue = nr /\ a0.stop = (s.failed # "no")
    BY <1>0 DEF Progress, LoopStart
  <2> HIDE DEF a0
  <2>3. Ready => Bounded(a0, nw, o2) /\ (o2 = None => a0.requeue = 0)
    BY <2>2 DEF Bounded
  <2> QED BY <1>2, <2>1, <2>2, <2>3
<1>8. ASSUME NEW i \in 1..n, Right(i - 1) PROVE Right(i)
  <2> DEFINE a == g[i - 1]
             t == list[i]
             b == g[i]
  <2>1. i \in 0..n /\ i # 0 /\ t \in Threads /\ i > i - 1 /\ i \in Int
    BY <1>2, <1>4
  <2>2. b = WakeOne(a, t, nw, f1, o2, f2)
    BY <1>5, <2>1
  <2>3. /\ a \in Progress /\ Good(a.s, X, alive, reason)
        /\ a.s.failed # "no" => a.stop
        /\ a.s.failed = "no" => \A j \in 1..n : j > i - 1 => a.s.w.p[list[j]]
        /\ Ready => /\ Tight(a.s) /\ Bounded(a, nw, o2)
                    /\ o2 = None => a.requeue = 0
    BY <1>8
  <2>4. a.s.failed = "no" => a.s.w.p[t]
    BY <2>1, <2>3
  <2> HIDE DEF a, b, Ready
  <2>5. /\ b \in Progress /\ Good(b.s, X, alive, reason)
        /\ b.s.failed # "no" => b.stop
        /\ b.s.failed = "no" => /\ a.s.failed = "no"
                                /\ \A y \in Threads \ {t} : b.s.w.p[y] <=> a.s.w.p[y]
        /\ Calm /\ Tight(a.s) /\ Bounded(a, nw, o2) => Tight(b.s)
    <3> HIDE DEF t
    <3> QED BY <2>1, <2>2, <2>3, <2>4, WakeOneGood
  <2>6. Ready => Tight(b.s) /\ Bounded(b, nw, o2) /\ (o2 = None => b.requeue = 0)
    <3> SUFFICES ASSUME Ready PROVE Tight(b.s) /\ Bounded(b, nw, o2) /\ (o2 = None => b.requeue = 0)
      OBVIOUS
    <3>1. Calm
      BY DEF Ready
    <3>2. Tight(a.s) /\ Bounded(a, nw, o2) /\ (o2 = None => a.requeue = 0)
      BY <2>3
    <3>3. Bounded(b, nw, o2) /\ (o2 = None => b.requeue = 0)
      BY <2>2, <2>3, <3>2, WakeOneBounded
    <3> QED BY <2>5, <3>1, <3>2, <3>3
  <2>7. b.s.failed = "no" => \A j \in 1..n : j > i => b.s.w.p[list[j]]
    <3> SUFFICES ASSUME b.s.failed = "no", NEW j \in 1..n, j > i PROVE b.s.w.p[list[j]]
      OBVIOUS
    <3>1. list[j] \in Threads /\ list[j] # t
      BY <1>2, <1>6
    <3>2. a.s.w.p[list[j]]
      <4>1. j > i - 1
        BY <1>4
      <4> QED BY <2>3, <2>5, <4>1
    <3> QED BY <2>5, <3>1, <3>2
  <2> QED BY <2>5, <2>6, <2>7 DEF b
<1> HIDE DEF Right
<1>9. Bad = {}
  <2> SUFFICES ASSUME Bad # {} PROVE FALSE
    OBVIOUS
  <2>0. Bad \subseteq Nat
    BY <1>4
  <2>1. PICK x \in Bad : \A y \in Bad : ~(<<y, x>> \in OpToRel(<, Nat))
    BY <2>0, NatLessThanWellFounded, WFMin, Zenon
  <2>2. x \in 0..n /\ ~Right(x) /\ x # 0
    BY <1>7, <2>1
  <2>3. x \in 1..n /\ x - 1 \in 0..n /\ x - 1 \in Nat /\ x \in Nat /\ x - 1 < x
    BY <1>4, <2>2
  <2>4. <<x - 1, x>> \in OpToRel(<, Nat)
    BY <2>3 DEF OpToRel
  <2>5. Right(x - 1)
    BY <2>1, <2>3, <2>4
  <2> QED BY <1>8, <2>2, <2>3, <2>5
<1>10. Right(n)
  BY <1>4, <1>9
<1> QED BY <1>3, <1>10 DEF Right

-----------------------------------------------------------------------------
(***************************************************************************)
(* A thread is dequeued because it is destroyed.                           *)
(***************************************************************************)
LEMMA GoodMore ==
  ASSUME NEW s, NEW X, NEW Y, NEW al, NEW re, Good(s, X, al, re), X \subseteq Y
  PROVE  Good(s, Y, al, re)
BY DEF Good, Fine

LEMMA DetachGood ==
  ASSUME NEW X, NEW s, Good(s, X, alive, reason), NEW t \in Threads, s.w.p[t]
  PROVE  LET d == Detach(s, t)
         IN  /\ Good(d, X \cup {t}, alive, reason)
             /\ MayLeave(s, t) => d.failed = "no"
             /\ d.failed = "no" => /\ s.failed = "no" /\ d.blocked = s.blocked
                                   /\ \A y \in Threads : d.w.p[y] <=> y # t /\ s.w.p[y]
<1> DEFINE d == Detach(s, t)
<1>1. s \in KStates /\ Represents(s.w, s.q)
  BY DEF Good
<1>2. /\ d \in KStates /\ Represents(d.w, d.q)
      /\ MayLeave(s, t) => d.failed = "no"
      /\ d.failed = "no" => s.failed = "no" /\ Left(s, d, t)
  BY <1>1, DetachFacts
<1> HIDE DEF d
<1>3. CASE d.failed = "no"
  <2>1. s.failed = "no" /\ Left(s, d, t)
    BY <1>2, <1>3
  <2>2. Fine(s.w.p, s.w.fp, s.waiters, s.running, s.blocked, X, alive, reason)
    BY <2>1 DEF Good
  <2>3. s.blocked \subseteq Threads /\ s.waiters \in Seq(Threads)
    BY <1>1 DEF KStates
  <2>4. ~NDEBUG => Listed(d.w.p, d.waiters, reason)
    <3> SUFFICES ASSUME ~NDEBUG PROVE Listed(d.w.p, d.waiters, reason)
      OBVIOUS
    <3>1. Listed(s.w.p, s.waiters, reason)
      BY <2>2 DEF Fine
    <3>2. /\ \A y \in Threads : d.w.p[y] <=> y # t /\ s.w.p[y]
          /\ d.waiters = IF reason[t] = "futex" THEN Unlink(s.waiters, t) ELSE s.waiters
      BY <2>1 DEF Left
    <3> QED BY <2>3, <3>1, <3>2, ListedLeft
  <2>5. NDEBUG => d.waiters = <<>>
    <3> SUFFICES ASSUME NDEBUG PROVE d.waiters = <<>>
      OBVIOUS
    <3>1. s.waiters = <<>>
      BY <2>2 DEF Fine
    <3>2. Unlink(<<>>, t) = <<>>
      BY DEF Unlink, ToSet
    <3> QED BY <2>1, <3>1, <3>2 DEF Left
  <2>6. Fine(d.w.p, d.w.fp, d.waiters, d.running, d.blocked, X \cup {t}, alive, reason)
    <3>1. \A y \in d.blocked : d.w.p[y] \/ y \in X \cup {t}
      BY <2>1, <2>2, <2>3 DEF Fine, Left
    <3>2. \A y \in Threads : d.w.p[y] => y \in alive
      BY <2>1, <2>2 DEF Fine, Left
    <3>3. \A x \in Oids : d.w.fp[x] => x \in alive
      BY <2>1, <2>2 DEF Fine, Left
    <3>4. d.running \subseteq alive /\ d.running \cap d.blocked = {}
      BY <2>1, <2>2 DEF Fine, Left
    <3> QED BY <2>4, <2>5, <3>1, <3>2, <3>3, <3>4 DEF Fine
  <2> QED BY <1>2, <2>1, <2>6 DEF Good, d, Left
<1>4. CASE d.failed # "no"
  BY <1>2, <1>4 DEF Good, d
<1> QED BY <1>3, <1>4

\* thread_deinit, whatever the object is.
LEMMA DeinitGood ==
  ASSUME NEW s, Good(s, {}, alive, reason), NEW o \in Oids
  PROVE  LET d == ThreadDeinit(s, o)
         IN  /\ Good(d, {o}, alive, reason)
             /\ d.failed = "no" /\ o \in Threads => ~d.w.p[o]
             /\ Calm /\ Tight(s) => Tight(d)
<1>1. CASE o \in Threads /\ s.w.p[o]
  <2> DEFINE d == Detach(s, o)
  <2>1. /\ Good(d, {} \cup {o}, alive, reason)
        /\ MayLeave(s, o) => d.failed = "no"
        /\ d.failed = "no" => /\ s.failed = "no" /\ d.blocked = s.blocked
                              /\ \A y \in Threads : d.w.p[y] <=> y # o /\ s.w.p[y]
    BY <1>1, DetachGood
  <2>2. ThreadDeinit(s, o) = d
    BY <1>1 DEF ThreadDeinit
  <2>3. Calm /\ Tight(s) => d.failed = "no"
    BY <1>1, <2>1, CalmLeaves DEF Tight
  <2>4. {} \cup {o} = {o}
    OBVIOUS
  <2> HIDE DEF d
  <2>5. Calm /\ Tight(s) => Tight(d)
    BY <2>1, <2>3 DEF Tight
  <2> QED BY <1>1, <2>1, <2>2, <2>4, <2>5
<1>2. CASE ~(o \in Threads /\ s.w.p[o])
  <2>1. ThreadDeinit(s, o) = s
    BY <1>2 DEF ThreadDeinit
  <2>2. Good(s, {o}, alive, reason)
    BY GoodMore
  <2> QED BY <1>2, <2>1, <2>2
<1> QED BY <1>1, <1>2

\* Everybody who waits for the object is woken: nobody is on its queue.
LEMMA WakeAllGood ==
  ASSUME NEW X, NEW s, Good(s, X, alive, reason), NEW o \in Oids
  PROVE  LET d == WakeAll(s, o)
         IN  /\ Good(d, X, alive, reason)
             /\ d.failed = "no" => /\ s.failed = "no" /\ ~d.w.fp[o] 
                                   /\ \A y \in Threads : d.w.p[y] => s.w.p[y]
             /\ Calm /\ Tight(s) => Tight(d)
<1> DEFINE list == s.q[o]
           d == WakeEach(s, list, Threads)
<1>0. s \in KStates /\ s.w \in Fields /\ s.q \in Queues /\ Represents(s.w, s.q)
  BY DEF Good, KStates
<1>1. list \in Seq(Threads) /\ IsInjective(list) /\ DOMAIN list = 1..Len(list) /\ Walk(s.w, o) = list
  BY <1>0, QueueSet, WalkIs
<1>2. \A t \in ToSet(list) : s.w.p[t] /\ t \in Threads
  BY <1>0, <1>1, LinkedFacts, WaiterIsThread DEF ToSet
<1>3. WakeAll(s, o) = d
  BY <1>1 DEF WakeAll
<1>4. /\ Good(d, X, alive, reason)
      /\ Calm /\ s.failed = "no" => d.failed = "no"
      /\ d.failed = "no" => s.failed = "no" /\ Woken(s, d, ToSet(list) \cap Threads)
  <2> HIDE DEF list
  <2> QED BY <1>1, <1>2, WakeEachGood
<1> HIDE DEF d
<1>5. d.failed = "no" => ~d.w.fp[o]
  <2> SUFFICES ASSUME d.failed = "no", d.w.fp[o] PROVE FALSE
    OBVIOUS
  <2>0. d \in KStates /\ d.w \in Fields /\ d.q \in Queues /\ Represents(d.w, d.q)
    BY <1>4 DEF Good, KStates
  <2>1. d.q[o] # <<>> /\ d.q[o] \in Seq(Threads)
    BY <2>0 DEF Represents, Queues
  <2>2. 1 \in 1..Len(d.q[o]) /\ 1 \in DOMAIN d.q[o]
    BY <2>1
  <2>3. d.w.p[d.q[o][1]]
    BY <2>0, <2>2, LinkedFacts
  <2>4. d.q[o][1] \in ToSet(d.q[o]) /\ d.q[o][1] \in Threads
    BY <2>1, <2>2 DEF ToSet
  <2>5. d.q[o][1] \in ToSet(list)
    BY <1>4, <2>4 DEF Woken
  <2> QED BY <1>4, <2>3, <2>4, <2>5 DEF Woken
<1>6. Calm /\ Tight(s) => Tight(d)
  <2> SUFFICES ASSUME Calm, Tight(s) PROVE Tight(d)
    OBVIOUS
  <2>1. d.failed = "no" /\ Woken(s, d, ToSet(list) \cap Threads)
    BY <1>4 DEF Tight
  <2> HIDE DEF list
  <2> QED BY <2>1 DEF Tight, Woken
<1>7. d.failed = "no" => \A y \in Threads : d.w.p[y] => s.w.p[y]
  BY <1>4 DEF Woken
<1> QED BY <1>3, <1>4, <1>5, <1>6, <1>7

\* The contents of a thread that is on no queue are cleared.
LEMMA ClearRepresents ==
  ASSUME NEW w \in Fields, NEW q \in Queues, Represents(w, q), NEW o \in Threads, ~w.p[o]
  PROVE  LET v == [w EXCEPT !.head[o] = FALSE, !.tail[o] = FALSE, !.next[o] = None, !.prev[o] = None]
         IN  v \in Fields /\ Represents(v, q) /\ v.p = w.p /\ v.fp = w.fp
<1> DEFINE v == [w EXCEPT !.head[o] = FALSE, !.tail[o] = FALSE, !.next[o] = None, !.prev[o] = None]
<1>1. v \in Fields /\ v.p = w.p /\ v.fp = w.fp /\ v.fhead = w.fhead
  BY DEF Fields
<1>2. \A y \in Threads \ {o} : /\ v.head[y] = w.head[y] /\ v.tail[y] = w.tail[y]
                               /\ v.next[y] = w.next[y] /\ v.prev[y] = w.prev[y]
  BY DEF Fields
<1> HIDE DEF v
<1>3. ASSUME NEW x \in Oids, NEW i \in 1..Len(q[x]) PROVE Linked(v, q, x, i)
  <2>1. q[x][i] \in Threads /\ q[x][i] # o
    BY NotQueued, WaiterIsThread
  <2>2. Linked(w, q, x, i)
    BY DEF Represents
  <2> QED BY <1>1, <1>2, <2>1, <2>2 DEF Linked
<1>4. Represents(v, q)
  BY <1>1, <1>3 DEF Represents
<1> QED BY <1>1, <1>4 DEF v

LEMMA ClearGood ==
  ASSUME NEW s, NEW o \in Oids, Good(s, {o}, alive, reason), s.failed = "no",
         ~s.w.fp[o], o \in Threads => ~s.w.p[o], reason \in [Threads -> Reasons],
         NEW al, \A x \in Oids \ {o} : x \in alive => x \in al,
         NEW re, re = IF o \in Threads THEN [reason EXCEPT ![o] = "none"] ELSE reason
  PROVE  LET d == Clear(s, o)
         IN  Good(d, {}, al, re) /\ d.failed = "no" /\ (Tight(s) => Tight(d))
<1>1. s \in KStates /\ Represents(s.w, s.q) /\ s.w \in Fields /\ s.q \in Queues
  BY DEF Good, KStates
<1>2. Fine(s.w.p, s.w.fp, s.waiters, s.running, s.blocked, {o}, alive, reason)
  BY DEF Good
<1>3. /\ s.blocked \subseteq Threads /\ s.running \subseteq Threads /\ s.waiters \in Seq(Threads)
      /\ Threads \subseteq Oids /\ ToSet(s.waiters) \subseteq Threads
  BY <1>1, OidsAssumption DEF KStates, ToSet
<1>4. CASE o \notin Threads
  <2>1. Clear(s, o) = s /\ re = reason
    BY <1>4 DEF Clear
  <2>2. Fine(s.w.p, s.w.fp, s.waiters, s.running, s.blocked, {}, al, reason)
    <3>1. \A y \in s.blocked : s.w.p[y]
      BY <1>2, <1>3, <1>4 DEF Fine
    <3>2. \A y \in Threads : s.w.p[y] => y \in al
      BY <1>2, <1>3, <1>4 DEF Fine
    <3>3. \A x \in Oids : s.w.fp[x] => x \in al
      BY <1>2 DEF Fine
    <3>4. s.running \subseteq al /\ s.running \cap s.blocked = {}
      BY <1>2, <1>3, <1>4 DEF Fine
    <3> QED BY <1>2, <3>1, <3>2, <3>3, <3>4 DEF Fine
  <2> QED BY <1>1, <2>1, <2>2 DEF Good
<1>5. CASE o \in Threads
  <2> DEFINE v == [s.w EXCEPT !.head[o] = FALSE, !.tail[o] = FALSE, !.next[o] = None, !.prev[o] = None]
             d == [s EXCEPT !.w = v, !.arg[o] = {}, !.running = @ \ {o}, !.blocked = @ \ {o}]
  <2>1. Clear(s, o) = d
    BY <1>1, <1>5 DEF Clear
  <2>2. v \in Fields /\ Represents(v, s.q) /\ v.p = s.w.p /\ v.fp = s.w.fp
    BY <1>1, <1>5, ClearRepresents
  <2> HIDE DEF v
  <2>3. /\ d \in KStates /\ d.w = v /\ d.q = s.q /\ d.waiters = s.waiters /\ d.failed = s.failed
        /\ d.running = s.running \ {o} /\ d.blocked = s.blocked \ {o}
    <3>1. {} \in SUBSET (Offsets \cup Events \cup {None})
      OBVIOUS
    <3> QED BY <1>1, <2>2, <3>1 DEF KStates
  <2> HIDE DEF d
  <2>4. Represents(d.w, d.q) /\ d.w.p = s.w.p /\ d.w.fp = s.w.fp
    BY <2>2, <2>3
  <2>5. \A y \in Threads : re[y] = IF y = o THEN "none" ELSE reason[y]
    BY <1>5
  <2>6. ~NDEBUG => Listed(d.w.p, d.waiters, re)
    <3> SUFFICES ASSUME ~NDEBUG PROVE Listed(s.w.p, s.waiters, re)
      BY <2>3, <2>4
    <3>1. Listed(s.w.p, s.waiters, reason)
      BY <1>2 DEF Fine
    <3> QED BY <1>3, <1>5, <2>5, <3>1 DEF Listed
  <2>7. Fine(d.w.p, d.w.fp, d.waiters, d.running, d.blocked, {}, al, re)
    <3>1. \A y \in d.blocked : d.w.p[y]
      BY <1>2, <2>3, <2>4 DEF Fine
    <3>2. \A y \in Threads : d.w.p[y] => y \in al
      BY <1>2, <1>3, <1>5, <2>4 DEF Fine
    <3>3. \A x \in Oids : d.w.fp[x] => x \in al
      BY <1>2, <2>4 DEF Fine
    <3>4. d.running \subseteq al /\ d.running \cap d.blocked = {}
      BY <1>2, <1>3, <2>3 DEF Fine
    <3>5. NDEBUG => d.waiters = <<>>
      BY <1>2, <2>3 DEF Fine
    <3> QED BY <2>6, <3>1, <3>2, <3>3, <3>4, <3>5 DEF Fine
  <2>8. Tight(s) => Tight(d)
    BY <1>5, <2>3, <2>4 DEF Tight
  <2> QED BY <2>1, <2>3, <2>4, <2>7, <2>8 DEF Good
<1> QED BY <1>4, <1>5

-----------------------------------------------------------------------------
(***************************************************************************)
(* The invariant of the kernel, and what also holds while nobody aborts    *)
(* calls and nothing is discarded.                                         *)
(***************************************************************************)
KInv == Good(Now, {}, alive, reason) /\ reason \in [Threads -> Reasons]

Peace == Tight(Now) /\ discarded = {}

LEMMA NowIs ==
  ASSUME NEW s \in KStates, Becomes(s)
  PROVE  Now' = s
<1>1. s = [w |-> s.w, q |-> s.q, arg |-> s.arg, waiters |-> s.waiters, running |-> s.running,
           blocked |-> s.blocked, failed |-> s.failed]
  BY DEF KStates
<1> QED BY <1>1 DEF Becomes, Now

LEMMA NowFields ==
  /\ Now.w = wq /\ Now.q = queue /\ Now.arg = arg /\ Now.waiters = waiters
  /\ Now.running = running /\ Now.blocked = blocked /\ Now.failed = failed
BY DEF Now

\* A step to a good state of the handler.
LEMMA StepGood ==
  ASSUME NEW s, Good(s, {}, alive', reason'), Becomes(s), reason' \in [Threads -> Reasons]
  PROVE  KInv' /\ (Tight(s) /\ discarded' = {} => Peace')
<1>1. Now' = s
  BY NowIs DEF Good
<1>2. Good(Now', {}, alive', reason')
  BY <1>1
<1>3. Tight(s) => Tight(Now')
  BY <1>1
<1> QED BY <1>2, <1>3 DEF KInv, Peace

LEMMA WakesGood ==
  ASSUME KInv, NEW s, Good(s, {}, alive, reason), Wakes(s)
  PROVE  KInv' /\ (Tight(s) /\ discarded = {} => Peace')
<1>1. alive' = alive /\ reason' = reason /\ discarded' = discarded /\ Becomes(s)
  BY DEF Wakes
<1>2. Good(s, {}, alive', reason') /\ reason' \in [Threads -> Reasons]
  BY <1>1 DEF KInv
<1> QED BY <1>1, <1>2, StepGood

LEMMA KInitInv == KernelInit => KInv /\ Peace
<1> SUFFICES ASSUME KernelInit PROVE KInv /\ Peace
  OBVIOUS
<1>1. wq \in Fields
  BY DEF KernelInit, Init, EmptyFields, Fields
<1>2. queue \in Queues /\ \A o \in Oids : queue[o] = <<>>
  BY DEF KernelInit, Init, Queues
<1>3. (\A o \in Oids : ~wq.fp[o]) /\ \A t \in Threads : ~wq.p[t]
  BY DEF KernelInit, Init, EmptyFields
<1>4. \A o \in Oids : 1..Len(queue[o]) = {}
  BY <1>2
<1>5. Represents(wq, queue)
  BY <1>2, <1>3, <1>4 DEF Represents
<1>6. /\ arg \in [Threads -> SUBSET (Offsets \cup Events \cup {None})] /\ waiters = <<>>
      /\ running \in SUBSET Threads /\ blocked \in SUBSET Threads /\ failed = "no"
      /\ running = Threads /\ blocked = {} /\ alive = Oids /\ discarded = {}
      /\ reason \in [Threads -> Reasons]
  BY DEF KernelInit, Reasons
<1>7. Now \in KStates
  BY <1>1, <1>2, <1>6 DEF Now, KStates
<1>8. Fine(wq.p, wq.fp, waiters, running, blocked, {}, alive, reason)
  <2>1. IsInjective(<<>>) /\ ToSet(<<>>) = {}
    BY DEF IsInjective, ToSet
  <2>2. Listed(wq.p, waiters, reason)
    BY <1>3, <1>6, <2>1 DEF Listed
  <2> QED BY <1>3, <1>6, <2>2, OidsAssumption DEF Fine
<1>9. Good(Now, {}, alive, reason)
  BY <1>5, <1>7, <1>8, NowFields DEF Good
<1>10. Tight(Now)
  BY <1>3, <1>6, NowFields DEF Tight
<1> QED BY <1>6, <1>9, <1>10 DEF KInv, Peace

-----------------------------------------------------------------------------
(***************************************************************************)
(* The messages, one by one.                                               *)
(***************************************************************************)
LEMMA BlockKeeps ==
  ASSUME KInv, NEW t \in Threads, MayCall(t), NEW o \in Oids, o \in alive,
         NEW why \in Reasons, NEW a \in SUBSET (Offsets \cup Events \cup {None}), Block(t, o, why, a)
  PROVE  KInv' /\ (Peace => Peace')
<1> DEFINE s == Attach(Now, o, t)
           ws == IF why = "futex" /\ ~NDEBUG THEN Append(s.waiters, t) ELSE s.waiters
           d == [s EXCEPT !.arg[t] = a, !.running = @ \ {t}, !.blocked = @ \cup {t}, !.waiters = ws]
<1>1. Good(Now, {}, alive, reason) /\ Now \in KStates /\ Represents(Now.w, Now.q)
  BY DEF KInv, Good
<1>2. /\ alive' = alive /\ discarded' = discarded /\ reason' = [reason EXCEPT ![t] = why]
      /\ reason' \in [Threads -> Reasons]
  BY DEF Block, KInv
<1>3. /\ s \in KStates /\ Represents(s.w, s.q)
      /\ Now.failed = "no" /\ ~Now.w.p[t] /\ o # None => s.failed = "no"
      /\ s.failed = "no" => Now.failed = "no" /\ Joined(Now, s, o, t)
  BY <1>1, AttachFacts
<1>4. Becomes(IF s.failed # "no" THEN s ELSE d)
  BY DEF Block
<1> HIDE DEF s
<1>5. CASE s.failed # "no"
  <2>1. Becomes(s)
    BY <1>4, <1>5
  <2>2. Good(s, {}, alive', reason')
    BY <1>3, <1>5 DEF Good
  <2>3. ~Peace
    <3> SUFFICES ASSUME Peace PROVE FALSE
      OBVIOUS
    <3>1. t \in Now.running /\ Now.failed = "no"
      BY NowFields DEF MayCall
    <3>2. Fine(Now.w.p, Now.w.fp, Now.waiters, Now.running, Now.blocked, {}, alive, reason)
      BY <1>1, <3>1 DEF Good
    <3>3. ~Now.w.p[t]
      BY <3>1, <3>2 DEF Peace, Tight, Fine
    <3> QED BY <1>3, <1>5, <3>1, <3>3, OidsAssumption
  <2> QED BY <1>2, <2>1, <2>2, <2>3, StepGood
<1>6. CASE s.failed = "no"
  <2>1. Becomes(d)
    BY <1>4, <1>6
  <2>2. Now.failed = "no" /\ Joined(Now, s, o, t)
    BY <1>3, <1>6
  <2>3. Fine(Now.w.p, Now.w.fp, Now.waiters, Now.running, Now.blocked, {}, alive, reason)
    BY <1>1, <2>2 DEF Good
  <2>4. s.waiters \in Seq(Threads) /\ s.running \subseteq Threads /\ s.blocked \subseteq Threads
    BY <1>3 DEF KStates
  <2>5. ws \in Seq(Threads)
    BY <2>4
  <2> HIDE DEF ws
  <2>6. /\ d \in KStates /\ d.w = s.w /\ d.q = s.q /\ d.failed = "no" /\ d.waiters = ws
        /\ d.running = s.running \ {t} /\ d.blocked = s.blocked \cup {t}
    BY <1>3, <1>6, <2>5 DEF KStates
  <2> HIDE DEF d
  <2>7. /\ d.running = Now.running \ {t} /\ d.blocked = Now.blocked \cup {t}
        /\ s.waiters = Now.waiters
        /\ \A y \in Threads : d.w.p[y] <=> y = t \/ Now.w.p[y]
        /\ \A x \in Oids : d.w.fp[x] => x = o \/ Now.w.fp[x]
        /\ ~Now.w.p[t]
    BY <2>2, <2>6 DEF Joined
  <2>8. t \in alive
    BY <2>3, NowFields DEF MayCall, Fine
  <2>9. \A y \in Threads : reason'[y] = IF y = t THEN why ELSE reason[y]
    BY <1>2 DEF KInv
  <2>10. ~NDEBUG => Listed(d.w.p, d.waiters, reason')
    <3> SUFFICES ASSUME ~NDEBUG PROVE Listed(d.w.p, ws, reason')
      BY <2>6
    <3>1. Listed(Now.w.p, Now.waiters, reason) /\ Now.waiters \in Seq(Threads)
      BY <2>3, <2>4, <2>7 DEF Fine
    <3>2. t \notin ToSet(Now.waiters) /\ ToSet(Now.waiters) \subseteq Threads
      BY <2>7, <3>1 DEF Listed, ToSet
    <3>3. CASE why = "futex"
      <4> DEFINE l == Now.waiters
                 r == Append(l, t)
      <4>1. ws = r
        BY <2>7, <3>3 DEF ws
      <4> HIDE DEF l
      <4>2. l \in Seq(Threads) /\ IsInjective(l) /\ t \notin ToSet(l)
        BY <3>1, <3>2 DEF Listed, l
      <4>3. /\ r \in Seq(Threads) /\ Len(r) = Len(l) + 1 /\ Len(l) \in Nat
            /\ DOMAIN l = 1..Len(l) /\ DOMAIN r = 1..(Len(l) + 1)
            /\ r[Len(l) + 1] = t /\ \A i \in 1..Len(l) : r[i] = l[i]
        BY <4>2
      <4> HIDE DEF r
      <4>4. 1..(Len(l) + 1) = (1..Len(l)) \cup {Len(l) + 1}
        BY <4>3
      <4>5. \A i \in 1..Len(l) : r[i] # t /\ \A j \in 1..Len(l) : l[i] = l[j] => i = j
        BY <4>2, <4>3 DEF ToSet, IsInjective
      <4>6. IsInjective(r)
        BY <4>3, <4>4, <4>5 DEF IsInjective
      <4>7. ToSet(r) = ToSet(l) \cup {t}
        BY <4>3, <4>4 DEF ToSet
      <4> QED BY <2>7, <2>9, <3>1, <3>2, <3>3, <4>1, <4>6, <4>7 DEF Listed, l
    <3>4. CASE why # "futex"
      <4>1. ws = Now.waiters
        BY <2>7, <3>4 DEF ws
      <4> QED BY <2>7, <2>9, <3>1, <3>2, <3>4, <4>1 DEF Listed
    <3> QED BY <3>3, <3>4
  <2>11. NDEBUG => d.waiters = <<>>
    BY <2>3, <2>6, <2>7 DEF Fine, ws
  <2>12. Fine(d.w.p, d.w.fp, d.waiters, d.running, d.blocked, {}, alive', reason')
    <3>0. Now.blocked \subseteq Threads
      BY <1>1 DEF KStates
    <3>1. \A y \in d.blocked : d.w.p[y]
      BY <2>3, <2>7, <3>0 DEF Fine
    <3>2. \A y \in Threads : d.w.p[y] => y \in alive'
      BY <1>2, <2>3, <2>7, <2>8 DEF Fine
    <3>3. \A x \in Oids : d.w.fp[x] => x \in alive'
      BY <1>2, <2>3, <2>7 DEF Fine
    <3>4. d.running \subseteq alive' /\ d.running \cap d.blocked = {}
      BY <1>2, <2>3, <2>7 DEF Fine
    <3> QED BY <2>10, <2>11, <3>1, <3>2, <3>3, <3>4 DEF Fine
  <2>13. Represents(d.w, d.q)
    BY <1>3, <2>6
  <2>14. Good(d, {}, alive', reason')
    BY <2>6, <2>12, <2>13 DEF Good
  <2>15. Tight(Now) => Tight(d)
    BY <2>6, <2>7 DEF Tight
  <2> QED BY <1>2, <2>1, <2>14, <2>15, StepGood DEF Peace
<1> QED BY <1>5, <1>6

LEMMA FutexWakeKeeps ==
  ASSUME KInv, NEW t \in Threads, NEW o \in Pages, NEW f \in Offsets, NEW n \in Nat,
         FutexWake(t, o, f, n)
  PROVE  KInv' /\ (Peace /\ Calm => Peace')
<1> DEFINE s == Wake(Now, n, o, f, 0, None, None)
<1>1. o \in Oids /\ n > 0 /\ Wakes(s)
  BY KernelWaitAssumption DEF FutexWake
<1>2. /\ Good(s, {}, alive, reason)
      /\ Calm /\ Tight(Now) /\ (None = None => n > 0 /\ 0 = 0) => Tight(s)
  BY <1>1, WakeGood DEF KInv
<1> HIDE DEF s
<1> QED BY <1>1, <1>2, WakesGood DEF Peace

LEMMA FutexWakeOpKeeps ==
  ASSUME KInv, NEW t \in Threads, NEW o1 \in Pages, NEW f1 \in Offsets, NEW o2 \in Pages,
         NEW f2 \in Offsets, NEW n \in Nat, FutexWakeOp(t, o1, f1, o2, f2, n)
  PROVE  KInv' /\ (Peace /\ Calm /\ n > 0 => Peace')
<1> DEFINE s == Wake(Now, 1, o1, f1, 0, None, None)
           r == Wake(s, n, o2, f2, 0, None, None)
<1>1. o1 \in Oids /\ o2 \in Oids /\ (Wakes(s) \/ Wakes(r))
  BY KernelWaitAssumption DEF FutexWakeOp
<1>2. /\ Good(s, {}, alive, reason)
      /\ Calm /\ Tight(Now) /\ (None = None => 1 > 0 /\ 0 = 0) => Tight(s)
  BY <1>1, WakeGood DEF KInv
<1> HIDE DEF s
<1>3. /\ Good(r, {}, alive, reason)
      /\ Calm /\ Tight(s) /\ (None = None => n > 0 /\ 0 = 0) => Tight(r)
  BY <1>1, <1>2, WakeGood
<1> HIDE DEF r
<1>4. CASE Wakes(s)
  BY <1>2, <1>4, WakesGood DEF Peace
<1>5. CASE Wakes(r)
  BY <1>2, <1>3, <1>5, WakesGood DEF Peace
<1> QED BY <1>1, <1>4, <1>5

LEMMA FutexCmpRequeueKeeps ==
  ASSUME KInv, NEW t \in Threads, NEW o1 \in Pages, NEW f1 \in Offsets, NEW o2 \in Pages,
         NEW f2 \in Offsets, NEW n1 \in Nat, NEW n2 \in Nat, "requeue" \in Calls,
         FutexCmpRequeue(t, o1, f1, n1, o2, f2, n2)
  PROVE  KInv' /\ (Peace /\ Calm => Peace')
<1> DEFINE s == Wake(Now, n1, o1, f1, n2, o2, f2)
<1>1. o1 \in Oids /\ o2 \in Oids /\ o2 \in alive /\ o2 # None /\ Wakes(s)
  BY KernelWaitAssumption, OidsAssumption DEF FutexCmpRequeue, Found
<1>2. /\ Good(s, {}, alive, reason)
      /\ Calm /\ Tight(Now) /\ (o2 = None => n1 > 0 /\ n2 = 0) => Tight(s)
  BY <1>1, WakeGood DEF KInv
<1> HIDE DEF s
<1> QED BY <1>1, <1>2, WakesGood DEF Peace

LEMMA NotifyKeeps ==
  ASSUME KInv, NEW a \in Activities, NEW e, Notify(a, e)
  PROVE  KInv' /\ (Peace /\ Calm => Peace')
<1> DEFINE list == Walk(wq, a)
<1>0. /\ Good(Now, {}, alive, reason)
      /\ Now.w \in Fields /\ Now.q \in Queues /\ Represents(Now.w, Now.q) /\ a \in Oids
  BY KernelWaitAssumption DEF Good, KStates, KInv
<1>1. wq \in Fields /\ queue \in Queues /\ Represents(wq, queue)
  BY <1>0, NowFields
<1>2. list = queue[a] /\ list \in Seq(Threads) /\ IsInjective(list)
  BY <1>0, <1>1, QueueSet, WalkIs
<1>3. \A t \in ToSet(list) : Now.w.p[t]
  <2>1. ASSUME NEW i \in 1..Len(queue[a]) PROVE wq.p[queue[a][i]]
    BY <1>0, <1>1, LinkedFacts
  <2>2. DOMAIN list = 1..Len(queue[a]) /\ list = queue[a]
    BY <1>0, <1>1, <1>2, QueueSet
  <2> QED BY <2>1, <2>2, NowFields DEF ToSet
<1>4. PICK chosen : Wakes(WakeEach(Now, list, chosen))
  BY DEF Notify
<1> DEFINE s == WakeEach(Now, list, chosen)
<1> HIDE DEF list
<1>5. /\ Good(s, {}, alive, reason)
      /\ Calm /\ Now.failed = "no" => s.failed = "no"
      /\ s.failed = "no" => Now.failed = "no" /\ Woken(Now, s, ToSet(list) \cap chosen)
  BY <1>0, <1>2, <1>3, WakeEachGood
<1> HIDE DEF s
<1>6. Calm /\ Tight(Now) => Tight(s)
  BY <1>5 DEF Tight, Woken
<1> QED BY <1>4, <1>5, <1>6, WakesGood DEF Peace, s

LEMMA DeadlockTimeoutKeeps ==
  ASSUME KInv, DeadlockTimeout
  PROVE  KInv' /\ (Peace /\ Calm => Peace')
<1> DEFINE s == WakeEach(Now, waiters, Threads)
<1>0. Good(Now, {}, alive, reason) /\ Now \in KStates /\ Now.failed = "no" /\ ~NDEBUG /\ Wakes(s)
  BY NowFields DEF Good, KInv, DeadlockTimeout
<1>1. Fine(Now.w.p, Now.w.fp, Now.waiters, Now.running, Now.blocked, {}, alive, reason)
  BY <1>0 DEF Good
<1>2. waiters \in Seq(Threads) /\ IsInjective(waiters) /\ \A t \in ToSet(waiters) : Now.w.p[t]
  BY <1>0, <1>1, NowFields DEF Fine, Listed, KStates
<1>3. /\ Good(s, {}, alive, reason)
      /\ Calm /\ Now.failed = "no" => s.failed = "no"
      /\ s.failed = "no" => Now.failed = "no" /\ Woken(Now, s, ToSet(waiters) \cap Threads)
  BY <1>0, <1>2, WakeEachGood
<1> HIDE DEF s
<1>4. Calm /\ Tight(Now) => Tight(s)
  BY <1>3 DEF Tight, Woken
<1> QED BY <1>0, <1>3, <1>4, WakesGood DEF Peace

LEMMA FolioObjectAllocKeeps ==
  ASSUME KInv, NEW t \in Threads, NEW o \in Oids, NEW live \in BOOLEAN, FolioObjectAlloc(t, o, live)
  PROVE  KInv' /\ (Peace /\ Calm => Peace')
<1> DEFINE s1 == ThreadDeinit(Now, o)
           s2 == WakeAll(s1, o)
           s3 == Clear(s2, o)
<1>1. /\ Good(s1, {o}, alive, reason)
      /\ s1.failed = "no" /\ o \in Threads => ~s1.w.p[o]
      /\ Calm /\ Tight(Now) => Tight(s1)
  BY DeinitGood DEF KInv
<1> HIDE DEF s1
<1>2. /\ Good(s2, {o}, alive, reason)
      /\ s2.failed = "no" => /\ s1.failed = "no" /\ ~s2.w.fp[o]
                             /\ \A y \in Threads : s2.w.p[y] => s1.w.p[y]
      /\ Calm /\ Tight(s1) => Tight(s2)
  BY <1>1, WakeAllGood
<1>3. /\ Becomes(s3)
      /\ reason' = IF o \in Threads /\ failed' = "no" THEN [reason EXCEPT ![o] = "none"] ELSE reason
      /\ alive' = IF failed' # "no" THEN alive ELSE IF live THEN alive \cup {o} ELSE alive \ {o}
      /\ discarded' = IF failed' # "no" THEN discarded ELSE discarded \ {o}
  BY DEF FolioObjectAlloc, s1
<1> HIDE DEF s2
<1>4. reason \in [Threads -> Reasons] /\ "none" \in Reasons
  BY DEF KInv, Reasons
<1>5. CASE s2.failed # "no"
  <2>1. s3 = s2
    BY <1>5 DEF Clear
  <2>2. failed' = s2.failed
    BY <1>3, <2>1 DEF Becomes
  <2>3. alive' = alive /\ reason' = reason
    BY <1>3, <1>5, <2>2
  <2>4. Good(s2, {}, alive', reason')
    BY <1>2, <1>5 DEF Good
  <2>5. ~(Peace /\ Calm)
    BY <1>1, <1>2, <1>5 DEF Peace, Tight
  <2> QED BY <1>3, <1>4, <2>1, <2>3, <2>4, <2>5, StepGood
<1>6. CASE s2.failed = "no"
  <2> DEFINE al == IF live THEN alive \cup {o} ELSE alive \ {o}
             re == IF o \in Threads THEN [reason EXCEPT ![o] = "none"] ELSE reason
  <2>1. ~s2.w.fp[o] /\ (o \in Threads => ~s2.w.p[o])
    BY <1>1, <1>2, <1>6
  <2>2. \A x \in Oids \ {o} : x \in alive => x \in al
    OBVIOUS
  <2> HIDE DEF al, re
  <2>3. Good(s3, {}, al, re) /\ s3.failed = "no" /\ (Tight(s2) => Tight(s3))
    BY <1>2, <1>4, <1>6, <2>1, <2>2, ClearGood DEF re
  <2> HIDE DEF s3
  <2>4. failed' = "no"
    BY <1>3, <2>3 DEF Becomes
  <2>5. alive' = al /\ reason' = re /\ discarded' = discarded \ {o}
    BY <1>3, <2>4 DEF al, re
  <2>6. reason' \in [Threads -> Reasons]
    BY <1>4, <2>5 DEF re
  <2>7. Good(s3, {}, alive', reason')
    BY <2>3, <2>5
  <2>8. Peace /\ Calm => Tight(s3) /\ discarded' = {}
    BY <1>1, <1>2, <2>3, <2>5 DEF Peace
  <2> QED BY <1>3, <2>6, <2>7, <2>8, StepGood
<1> QED BY <1>5, <1>6

LEMMA StartKeeps ==
  ASSUME KInv, NEW t \in Threads, NEW u \in Threads, Start(t, u)
  PROVE  KInv' /\ (Peace => Peace')
<1> DEFINE s == [Now EXCEPT !.running = @ \cup {u}]
<1>1. Good(Now, {}, alive, reason) /\ Now \in KStates /\ reason \in [Threads -> Reasons]
  BY DEF KInv, Good
<1>2. /\ s \in KStates /\ s.w = Now.w /\ s.q = Now.q /\ s.waiters = Now.waiters
      /\ s.running = Now.running \cup {u} /\ s.blocked = Now.blocked /\ s.failed = Now.failed
      /\ s.arg = Now.arg
  BY <1>1 DEF KStates
<1> HIDE DEF s
<1>3. /\ u \in alive /\ u \notin Now.blocked /\ failed = "no" /\ running' = running \cup {u}
      /\ UNCHANGED <<wq, queue, reason, arg, waiters, alive, discarded, blocked, failed>>
  BY NowFields DEF Start, MayCall
<1>4. Becomes(s)
  BY <1>2, <1>3, NowFields DEF Becomes
<1>5. Good(s, {}, alive, reason)
  BY <1>1, <1>2, <1>3 DEF Good, Fine
<1>6. Good(s, {}, alive', reason') /\ reason' \in [Threads -> Reasons]
  BY <1>1, <1>3, <1>5
<1>7. Peace => Tight(s) /\ discarded' = {}
  BY <1>2, <1>3 DEF Peace, Tight
<1> QED BY <1>4, <1>6, <1>7, StepGood

LEMMA AbortIPCKeeps ==
  ASSUME KInv, NEW t \in Threads, NEW u \in Threads, AbortIPC(t, u)
  PROVE  KInv'
<1> DEFINE s == [Now EXCEPT !.running = @ \cup {u}, !.blocked = @ \ {u}]
<1>1. Good(Now, {}, alive, reason) /\ Now \in KStates /\ reason \in [Threads -> Reasons]
  BY DEF KInv, Good
<1>2. /\ s \in KStates /\ s.w = Now.w /\ s.q = Now.q /\ s.waiters = Now.waiters
      /\ s.running = Now.running \cup {u} /\ s.blocked = Now.blocked \ {u} /\ s.failed = Now.failed
      /\ s.arg = Now.arg
  BY <1>1 DEF KStates
<1> HIDE DEF s
<1>3. /\ u \in Now.blocked /\ Now.failed = "no" /\ running' = running \cup {u} /\ blocked' = blocked \ {u}
      /\ UNCHANGED <<wq, queue, reason, arg, waiters, alive, discarded, failed>>
  BY NowFields DEF AbortIPC, MayCall
<1>4. Becomes(s)
  BY <1>2, <1>3, NowFields DEF Becomes
<1>5. Good(s, {}, alive, reason)
  <2>1. Fine(Now.w.p, Now.w.fp, Now.waiters, Now.running, Now.blocked, {}, alive, reason)
    BY <1>1, <1>3 DEF Good
  <2>2. u \in alive
    BY <1>3, <2>1 DEF Fine
  <2>3. Fine(s.w.p, s.w.fp, s.waiters, s.running, s.blocked, {}, alive, reason)
    BY <1>2, <2>1, <2>2 DEF Fine
  <2> QED BY <1>1, <1>2, <2>3 DEF Good
<1>6. Good(s, {}, alive', reason') /\ reason' \in [Threads -> Reasons]
  BY <1>1, <1>3, <1>5
<1> QED BY <1>4, <1>6, StepGood

LEMMA SameKeeps ==
  ASSUME KInv, UNCHANGED <<wq, queue, reason, arg, waiters, alive, running, blocked, failed>>
  PROVE  KInv' /\ (Peace /\ discarded' = {} => Peace')
<1>1. Now' = Now
  BY DEF Now
<1>2. Good(Now', {}, alive', reason') /\ reason' \in [Threads -> Reasons]
  BY <1>1 DEF KInv
<1>3. Tight(Now) => Tight(Now')
  BY <1>1
<1> QED BY <1>2, <1>3 DEF KInv, Peace

\* What the second property is about: nobody aborts calls, no page is
\* discarded, the debug list does not forget those that are moved, and
\* FUTEX_WAKE_OP is told to wake somebody.
Peaceful ==
    /\ "abort_ipc" \notin Calls /\ "discard" \notin Calls
    /\ NDEBUG \/ "requeue" \notin Calls
    /\ "wake_op" \notin Calls \/ \A n \in Counts : n[2] > 0

LEMMA KernelStep ==
  ASSUME KInv, [KernelNext]_vars
  PROVE  KInv' /\ (Peaceful /\ Peace => Peace')
<1>0. Peaceful /\ Peace => Calm
  BY DEF Peaceful, Peace, Calm
<1>1. CASE DeadlockTimeout
  BY <1>0, <1>1, DeadlockTimeoutKeeps
<1>2. ASSUME NEW a \in Activities, NEW e \in Events, Notify(a, e)
      PROVE  KInv' /\ (Peaceful /\ Peace => Peace')
  BY <1>0, <1>2, NotifyKeeps
<1>3. ASSUME "discard" \in Calls, NEW o \in Pages, Discard(o)
      PROVE  KInv' /\ (Peaceful /\ Peace => Peace')
  <2>1. UNCHANGED <<wq, queue, reason, arg, waiters, alive, running, blocked, failed>>
    BY <1>3 DEF Discard
  <2>2. ~Peaceful
    BY <1>3 DEF Peaceful
  <2> QED BY <2>1, <2>2, SameKeeps
<1>4. ASSUME NEW t \in Threads, NEW o \in Pages, NEW f \in Offsets, FutexWait(t, o, f)
      PROVE  KInv' /\ (Peaceful /\ Peace => Peace')
  <2>1. MayCall(t) /\ o \in alive /\ Block(t, o, "futex", {f}) /\ o \in Oids
    BY <1>4, KernelWaitAssumption DEF FutexWait, Found
  <2>2. "futex" \in Reasons /\ {f} \in SUBSET (Offsets \cup Events \cup {None})
    BY DEF Reasons
  <2> QED BY <2>1, <2>2, BlockKeeps
<1>5. ASSUME NEW t \in Threads, NEW o \in Pages, NEW f \in Offsets, NEW n \in Counts,
             FutexWake(t, o, f, n[1])
      PROVE  KInv' /\ (Peaceful /\ Peace => Peace')
  <2>1. n[1] \in Nat
    BY KernelWaitAssumption
  <2> QED BY <1>0, <1>5, <2>1, FutexWakeKeeps
<1>6. ASSUME NEW t \in Threads, NEW o1 \in Pages, NEW o2 \in Pages, NEW f1 \in Offsets,
             NEW f2 \in Offsets, NEW n \in Counts, "wake_op" \in Calls,
             FutexWakeOp(t, o1, f1, o2, f2, n[2])
      PROVE  KInv' /\ (Peaceful /\ Peace => Peace')
  <2>1. n[2] \in Nat /\ (Peaceful => n[2] > 0)
    BY <1>6, KernelWaitAssumption DEF Peaceful
  <2> QED BY <1>0, <1>6, <2>1, FutexWakeOpKeeps
<1>7. ASSUME NEW t \in Threads, NEW o1 \in Pages, NEW o2 \in Pages, NEW f1 \in Offsets,
             NEW f2 \in Offsets, NEW n \in Counts, "requeue" \in Calls,
             FutexCmpRequeue(t, o1, f1, n[1], o2, f2, n[2])
      PROVE  KInv' /\ (Peaceful /\ Peace => Peace')
  <2>1. n[1] \in Nat /\ n[2] \in Nat
    BY KernelWaitAssumption
  <2> QED BY <1>0, <1>7, <2>1, FutexCmpRequeueKeeps
<1>8. ASSUME NEW t \in Threads, NEW o \in Oids, ThreadWaitObjectDestroyed(t, o)
      PROVE  KInv' /\ (Peaceful /\ Peace => Peace')
  <2>1. MayCall(t) /\ o \in alive /\ Block(t, o, "destroy", arg[t])
    BY <1>8 DEF ThreadWaitObjectDestroyed, Found
  <2>2. "destroy" \in Reasons
    BY DEF Reasons
  <2>3. arg[t] \in SUBSET (Offsets \cup Events \cup {None})
    <3>1. Now.arg \in [Threads -> SUBSET (Offsets \cup Events \cup {None})]
      BY DEF KInv, Good, KStates
    <3> QED BY <3>1, NowFields
  <2> QED BY <2>1, <2>2, <2>3, BlockKeeps
<1>9. ASSUME NEW t \in Threads, NEW o \in Oids, NEW live \in BOOLEAN, FolioObjectAlloc(t, o, live)
      PROVE  KInv' /\ (Peaceful /\ Peace => Peace')
  BY <1>0, <1>9, FolioObjectAllocKeeps
<1>10. ASSUME NEW t \in Threads, NEW a \in Activities, NEW flags \in SUBSET Events,
              ActivityInfo(t, a, flags)
       PROVE  KInv' /\ (Peaceful /\ Peace => Peace')
  <2>1. MayCall(t) /\ a \in alive /\ Block(t, a, "info", flags) /\ a \in Oids
    BY <1>10, KernelWaitAssumption DEF ActivityInfo, Found
  <2>2. "info" \in Reasons /\ flags \in SUBSET (Offsets \cup Events \cup {None})
    BY DEF Reasons
  <2> QED BY <2>1, <2>2, BlockKeeps
<1>11. ASSUME NEW t \in Threads, NEW u \in Threads, Start(t, u)
       PROVE  KInv' /\ (Peaceful /\ Peace => Peace')
  BY <1>11, StartKeeps
<1>12. ASSUME NEW t \in Threads, NEW u \in Threads, "abort_ipc" \in Calls, AbortIPC(t, u)
       PROVE  KInv' /\ (Peaceful /\ Peace => Peace')
  <2>1. ~Peaceful
    BY <1>12 DEF Peaceful
  <2> QED BY <1>12, <2>1, AbortIPCKeeps
<1>13. ASSUME NEW t \in Threads, NEW o \in Pages, DiscardedClear(t, o)
       PROVE  KInv' /\ (Peaceful /\ Peace => Peace')
  <2>1. /\ UNCHANGED <<wq, queue, reason, arg, waiters, alive, running, blocked, failed>>
        /\ discarded' = discarded \ {o}
    BY <1>13 DEF DiscardedClear
  <2>2. Peace => discarded' = {}
    BY <2>1 DEF Peace
  <2> QED BY <2>1, <2>2, SameKeeps
<1>14. CASE UNCHANGED vars
  <2>1. /\ UNCHANGED <<wq, queue, reason, arg, waiters, alive, running, blocked, failed>>
        /\ discarded' = discarded
    BY <1>14 DEF vars
  <2>2. Peace => discarded' = {}
    BY <2>1 DEF Peace
  <2> QED BY <2>1, <2>2, SameKeeps
<1> QED BY <1>1, <1>2, <1>3, <1>4, <1>5, <1>6, <1>7, <1>8, <1>9, <1>10, <1>11, <1>12, <1>13, <1>14
       DEF KernelNext

-----------------------------------------------------------------------------
LEMMA QueuedIs ==
  ASSUME KInv
  PROVE  Queued = {t \in Threads : wq.p[t]}
<1>1. wq \in Fields /\ queue \in Queues /\ Represents(wq, queue)
  BY NowFields DEF KInv, Good, KStates
<1>2. \A o \in Oids : DOMAIN queue[o] = 1..Len(queue[o])
  BY <1>1, QueueSet
<1>3. ASSUME NEW t \in Queued PROVE t \in Threads /\ wq.p[t]
  <2>1. PICK o \in Oids : t \in ToSet(queue[o])
    BY <1>3 DEF Queued
  <2>2. PICK i \in 1..Len(queue[o]) : t = queue[o][i]
    BY <1>2, <2>1 DEF ToSet
  <2> QED BY <1>1, <2>2, LinkedFacts, WaiterIsThread
<1>4. ASSUME NEW t \in Threads, wq.p[t] PROVE t \in Queued
  <2>1. PICK o \in Oids : \E k \in 1..Len(queue[o]) : queue[o][k] = t
    BY <1>1, <1>4, QueuePlace
  <2>2. t \in ToSet(queue[o])
    BY <1>2, <2>1 DEF ToSet
  <2> QED BY <2>2 DEF Queued
<1> QED BY <1>3, <1>4

LEMMA InvBlocked == KInv => ListsOK /\ BlockedIsQueued
<1> SUFFICES ASSUME KInv PROVE ListsOK /\ BlockedIsQueued
  OBVIOUS
<1>1. wq \in Fields /\ queue \in Queues /\ Represents(wq, queue) /\ blocked \subseteq Threads
  BY NowFields DEF KInv, Good, KStates
<1>2. Queued = {t \in Threads : wq.p[t]}
  BY QueuedIs
<1>3. ASSUME failed = "no"
      PROVE  /\ blocked \subseteq Queued /\ Queued \subseteq alive
             /\ \A o \in Oids \ alive : queue[o] = <<>>
             /\ running \cap blocked = {}
  <2>1. Fine(wq.p, wq.fp, waiters, running, blocked, {}, alive, reason)
    BY <1>3, NowFields DEF KInv, Good
  <2>2. blocked \subseteq Queued
    BY <1>1, <1>2, <2>1 DEF Fine
  <2>3. Queued \subseteq alive
    BY <1>2, <2>1 DEF Fine
  <2>4. \A o \in Oids \ alive : queue[o] = <<>>
    BY <1>1, <2>1 DEF Fine, Represents
  <2>5. running \cap blocked = {}
    BY <2>1 DEF Fine
  <2> QED BY <2>2, <2>3, <2>4, <2>5
<1> QED BY <1>1, <1>3 DEF ListsOK, BlockedIsQueued

LEMMA InvComplete == ASSUME NDEBUG \/ "requeue" \notin Calls PROVE KInv => FutexWaitersComplete
<1> SUFFICES ASSUME KInv, ~NDEBUG, failed = "no"
             PROVE  /\ ToSet(waiters) = {t \in Queued : reason[t] = "futex"}
                    /\ Len(waiters) = Cardinality(ToSet(waiters))
  BY DEF FutexWaitersComplete
<1>1. Fine(wq.p, wq.fp, waiters, running, blocked, {}, alive, reason) /\ waiters \in Seq(Threads)
  BY NowFields DEF KInv, Good, KStates
<1>2. Listed(wq.p, waiters, reason)
  BY <1>1 DEF Fine
<1>3. Queued = {t \in Threads : wq.p[t]}
  BY QueuedIs
<1>4. ToSet(waiters) \subseteq Threads /\ DOMAIN waiters = 1..Len(waiters) /\ Len(waiters) \in Nat
  BY <1>1 DEF ToSet
<1>5. ToSet(waiters) = {t \in Queued : reason[t] = "futex"}
  BY <1>2, <1>3, <1>4 DEF Listed
<1>6. waiters \in [1..Len(waiters) -> ToSet(waiters)]
  BY <1>1, <1>4 DEF ToSet
<1>7. waiters \in Bijection(1..Len(waiters), ToSet(waiters))
  BY <1>2, <1>4, <1>6 DEF Listed, Bijection, Injection, Surjection, IsInjective, ToSet
<1>8. ExistsBijection(1..Len(waiters), ToSet(waiters))
  BY <1>7 DEF ExistsBijection
<1> QED BY <1>4, <1>5, <1>8, FS_CountingElements

(***************************************************************************)
(* Whatever calls are made, in either build, the links of the threads and  *)
(* folios are the queues, and until an assertion stops the kernel whoever  *)
(* waits for a reply is on the queue of an object that exists.             *)
(***************************************************************************)
THEOREM KernelQueues == KernelSpec => [](ListsOK /\ BlockedIsQueued)
<1>1. KInv /\ [KernelNext]_vars => KInv'
  BY KernelStep
<1> QED BY <1>1, KInitInv, InvBlocked, PTL DEF KernelSpec

(***************************************************************************)
(* A waiter can be reached by its event and, in debug builds that do not   *)
(* use FUTEX_CMP_REQUEUE, by the dead-lock timeout of server_loop.         *)
(***************************************************************************)
THEOREM ReachableHolds ==
  ASSUME NDEBUG \/ "requeue" \notin Calls
  PROVE  KernelSpec => []WaitersReachable
<1>1. KInv /\ [KernelNext]_vars => KInv'
  BY KernelStep
<1>2. KInv => WaitersReachable
  BY InvBlocked, InvComplete DEF WaitersReachable
<1> QED BY <1>1, <1>2, KInitInv, PTL DEF KernelSpec

(***************************************************************************)
(* While nobody aborts calls and no page is discarded, those on the queues *)
(* are exactly those who wait for a reply, and no assertion fails.         *)
(***************************************************************************)
THEOREM BlockedIffQueuedHolds ==
  ASSUME Peaceful
  PROVE  KernelSpec => []BlockedIffQueued
<1>1. (KInv /\ Peace) /\ [KernelNext]_vars => (KInv /\ Peace)'
  BY KernelStep
<1>2. KInv /\ Peace => BlockedIffQueued
  <2> SUFFICES ASSUME KInv, Peace PROVE BlockedIffQueued
    OBVIOUS
  <2>1. failed = "no" /\ \A t \in Threads : wq.p[t] => t \in blocked
    BY NowFields DEF Peace, Tight
  <2>2. Queued = {t \in Threads : wq.p[t]}
    BY QueuedIs
  <2>3. BlockedIsQueued
    BY InvBlocked
  <2>4. Queued = blocked
    BY <2>1, <2>2, <2>3 DEF BlockedIsQueued
  <2> QED BY <2>1, <2>3, <2>4 DEF BlockedIffQueued
<1> QED BY <1>1, <1>2, KInitInv, PTL DEF KernelSpec
-----------------------------------------------------------------------------
(***************************************************************************)
(* The order of the waiters in a queue.                                    *)
(***************************************************************************)
LEMMA WithoutBefore ==
  ASSUME NEW S, NEW list \in Seq(S), IsInjective(list), NEW k \in DOMAIN list, NEW x, NEW y
  PROVE  Before(Without(list, k), x, y) <=> Before(list, x, y) /\ x # list[k] /\ y # list[k]
<1> DEFINE n == Len(list)
           r == Without(list, k)
           at(i) == IF i < k THEN i ELSE i + 1
           from(i) == IF i < k THEN i ELSE i - 1
<1>1. n \in Nat /\ k \in 1..n /\ DOMAIN list = 1..n /\ n >= 1 /\ n - 1 \in Nat
  OBVIOUS
<1>2. r = [i \in 1..(n - 1) |-> IF i < k THEN list[i] ELSE list[i + 1]]
  BY DEF Without
<1>3. \A i, j \in 1..n : list[i] = list[j] => i = j
  BY <1>1 DEF IsInjective
<1> HIDE DEF r, n
<1>4. DOMAIN r = 1..(n - 1)
  BY <1>2
<1>5. \A i \in 1..(n - 1) : at(i) \in 1..n /\ at(i) # k /\ r[i] = list[at(i)]
  BY <1>1, <1>2
<1>6. \A i, j \in 1..(n - 1) : i < j => at(i) < at(j)
  BY <1>1
<1>7. \A i \in 1..n : i # k => from(i) \in 1..(n - 1) /\ r[from(i)] = list[i]
  BY <1>1, <1>2
<1>8. \A i, j \in 1..n : i # k /\ j # k /\ i < j => from(i) < from(j)
  BY <1>1
<1> HIDE DEF at, from
<1>9. ASSUME Before(r, x, y) PROVE Before(list, x, y) /\ x # list[k] /\ y # list[k]
  <2>1. PICK i \in 1..(n - 1), j \in 1..(n - 1) : i < j /\ r[i] = x /\ r[j] = y
    BY <1>4, <1>9 DEF Before
  <2>2. /\ at(i) \in DOMAIN list /\ at(j) \in DOMAIN list /\ at(i) < at(j)
        /\ list[at(i)] = x /\ list[at(j)] = y /\ at(i) # k /\ at(j) # k
    BY <1>1, <1>5, <1>6, <2>1
  <2>3. Before(list, x, y)
    BY <2>2 DEF Before
  <2> QED BY <1>1, <1>3, <2>2, <2>3
<1>10. ASSUME Before(list, x, y), x # list[k], y # list[k] PROVE Before(r, x, y)
  <2>1. PICK i \in 1..n, j \in 1..n : i < j /\ list[i] = x /\ list[j] = y
    BY <1>1, <1>10 DEF Before
  <2>2. i # k /\ j # k
    BY <1>10, <2>1
  <2>3. /\ from(i) \in DOMAIN r /\ from(j) \in DOMAIN r /\ from(i) < from(j)
        /\ r[from(i)] = x /\ r[from(j)] = y
    BY <1>4, <1>7, <1>8, <2>1, <2>2
  <2> QED BY <2>3 DEF Before
<1> QED BY <1>9, <1>10 DEF r

LEMMA UnlinkBefore ==
  ASSUME NEW S, NEW list \in Seq(S), IsInjective(list), NEW t, NEW x, NEW y
  PROVE  Before(Unlink(list, t), x, y) <=> Before(list, x, y) /\ x # t /\ y # t
<1>1. CASE t \notin ToSet(list)
  <2>1. \A i \in DOMAIN list : list[i] # t
    BY <1>1 DEF ToSet
  <2>2. Unlink(list, t) = list
    BY <1>1 DEF Unlink
  <2> QED BY <2>1, <2>2 DEF Before
<1>2. CASE t \in ToSet(list)
  <2> DEFINE k == CHOOSE k \in DOMAIN list : list[k] = t
  <2>1. k \in DOMAIN list /\ list[k] = t
    BY <1>2 DEF ToSet
  <2>2. Unlink(list, t) = Without(list, k)
    BY <1>2 DEF Unlink
  <2> HIDE DEF k
  <2> QED BY <2>1, <2>2, WithoutBefore
<1> QED BY <1>1, <1>2

LEMMA PushBefore ==
  ASSUME NEW S, NEW list \in Seq(S), NEW t \in S, NEW x, NEW y
  PROVE  Before(<<t>> \o list, x, y) <=> Before(list, x, y) \/ (x = t /\ y \in ToSet(list))
<1> DEFINE n == Len(list)
           r == <<t>> \o list
<1>1. n \in Nat /\ DOMAIN list = 1..n /\ DOMAIN r = 1..(n + 1)
  OBVIOUS
<1>2. r[1] = t /\ \A i \in 1..n : r[i + 1] = list[i] /\ i + 1 \in 1..(n + 1)
  OBVIOUS
<1>3. y \in ToSet(list) <=> \E j \in 1..n : list[j] = y
  BY <1>1 DEF ToSet
<1> HIDE DEF r, n
<1>4. ASSUME Before(r, x, y) PROVE Before(list, x, y) \/ (x = t /\ y \in ToSet(list))
  <2>1. PICK i \in 1..(n + 1), j \in 1..(n + 1) : i < j /\ r[i] = x /\ r[j] = y
    BY <1>1, <1>4 DEF Before
  <2>2. j - 1 \in 1..n /\ (j - 1) + 1 = j
    BY <1>1, <2>1
  <2>3. list[j - 1] = y
    BY <1>2, <2>1, <2>2
  <2>4. CASE i = 1
    BY <1>2, <1>3, <2>1, <2>2, <2>3, <2>4
  <2>5. CASE i # 1
    <3>1. i - 1 \in 1..n /\ (i - 1) + 1 = i /\ i - 1 < j - 1
      BY <1>1, <2>1, <2>5
    <3>2. list[i - 1] = x
      BY <1>2, <2>1, <3>1
    <3> QED BY <1>1, <2>2, <2>3, <3>1, <3>2 DEF Before
  <2> QED BY <2>4, <2>5
<1>5. ASSUME Before(list, x, y) PROVE Before(r, x, y)
  <2>1. PICK i \in 1..n, j \in 1..n : i < j /\ list[i] = x /\ list[j] = y
    BY <1>1, <1>5 DEF Before
  <2>2. i + 1 < j + 1
    BY <1>1, <2>1
  <2> QED BY <1>1, <1>2, <2>1, <2>2 DEF Before
<1>6. ASSUME x = t, y \in ToSet(list) PROVE Before(r, x, y)
  <2>1. PICK j \in 1..n : list[j] = y
    BY <1>3, <1>6
  <2>2. 1 < j + 1 /\ 1 \in 1..(n + 1)
    BY <1>1
  <2> QED BY <1>1, <1>2, <1>6, <2>1, <2>2 DEF Before
<1> QED BY <1>4, <1>5, <1>6 DEF r

LEMMA PushSet ==
  ASSUME NEW S, NEW list \in Seq(S), NEW t \in S
  PROVE  ToSet(<<t>> \o list) = ToSet(list) \cup {t}
<1> DEFINE n == Len(list)
           r == <<t>> \o list
<1>1. n \in Nat /\ DOMAIN list = 1..n /\ DOMAIN r = 1..(n + 1)
  OBVIOUS
<1>2. r[1] = t /\ \A i \in 1..n : r[i + 1] = list[i] /\ i + 1 \in 1..(n + 1)
  OBVIOUS
<1> HIDE DEF r, n
<1>3. ASSUME NEW i \in 1..(n + 1) PROVE r[i] \in ToSet(list) \cup {t}
  <2>1. CASE i = 1
    BY <1>2, <2>1
  <2>2. CASE i # 1
    <3>1. i - 1 \in 1..n /\ (i - 1) + 1 = i
      BY <1>1, <2>2
    <3> QED BY <1>1, <1>2, <3>1 DEF ToSet
  <2> QED BY <2>1, <2>2
<1>4. t \in ToSet(r)
  <2>1. 1 \in 1..(n + 1)
    BY <1>1
  <2> QED BY <1>1, <1>2, <2>1 DEF ToSet
<1>5. ASSUME NEW y \in ToSet(list) PROVE y \in ToSet(r)
  <2>1. PICK j \in 1..n : list[j] = y
    BY <1>1 DEF ToSet
  <2> QED BY <1>1, <1>2, <2>1 DEF ToSet
<1>6. ToSet(r) \subseteq ToSet(list) \cup {t}
  BY <1>1, <1>3 DEF ToSet
<1> QED BY <1>4, <1>5, <1>6 DEF r

\* What dequeueing and enqueueing do to the queues, as sets and as orders.
Shorter(s, d, t) ==
    /\ \A o \in Oids : ToSet(d.q[o]) = ToSet(s.q[o]) \ {t}
    /\ \A o \in Oids, x, y \in Threads :
          Before(d.q[o], x, y) <=> Before(s.q[o], x, y) /\ x # t /\ y # t

Longer(s, d, o2, t) ==
    /\ \A o \in Oids : ToSet(d.q[o]) = ToSet(s.q[o]) \cup (IF o = o2 THEN {t} ELSE {})
    /\ \A o \in Oids, x, y \in Threads :
          Before(d.q[o], x, y) <=>
              Before(s.q[o], x, y) \/ (o = o2 /\ x = t /\ y \in ToSet(s.q[o]))

LEMMA DetachOrder ==
  ASSUME NEW s \in KStates, Represents(s.w, s.q), NEW t \in Threads, s.w.p[t], MayLeave(s, t)
  PROVE  LET d == Detach(s, t)
         IN  /\ d \in KStates /\ Represents(d.w, d.q) /\ d.failed = "no"
             /\ Left(s, d, t) /\ Shorter(s, d, t)
<1> DEFINE d == Detach(s, t)
<1>1. d \in KStates /\ Represents(d.w, d.q) /\ d.failed = "no" /\ Left(s, d, t)
  BY DetachFacts
<1>2. s.failed = "no" /\ s.q \in Queues /\ s.w \in Fields
  BY DEF MayLeave, KStates
<1>3. d.q = [o \in Oids |-> Unlink(s.q[o], t)]
  <2>1. \/ d = [s EXCEPT !.failed = "object"]
        \/ d = [s EXCEPT !.failed = "unlink"]
        \/ d = [s EXCEPT !.w = DequeueWaiter(@, t), !.q = [o \in Oids |-> Unlink(@[o], t)],
                         !.waiters = IF reason[t] = "futex" THEN Unlink(@, t) ELSE @]
    BY <1>2 DEF Detach
  <2> HIDE DEF d
  <2>2. d # [s EXCEPT !.failed = "object"] /\ d # [s EXCEPT !.failed = "unlink"]
    BY <1>1 DEF KStates
  <2>3. d = [s EXCEPT !.w = DequeueWaiter(s.w, t), !.q = [o \in Oids |-> Unlink(s.q[o], t)],
                      !.waiters = IF reason[t] = "futex" THEN Unlink(s.waiters, t) ELSE s.waiters]
    BY <2>1, <2>2 DEF KStates
  <2> QED BY <2>3 DEF KStates
<1> HIDE DEF d
<1>4. ASSUME NEW o \in Oids
      PROVE  /\ ToSet(d.q[o]) = ToSet(s.q[o]) \ {t}
             /\ \A x, y \in Threads :
                   Before(d.q[o], x, y) <=> Before(s.q[o], x, y) /\ x # t /\ y # t
  <2>1. s.q[o] \in Seq(Threads) /\ IsInjective(s.q[o]) /\ d.q[o] = Unlink(s.q[o], t)
    BY <1>2, <1>3, QueueSet
  <2> QED BY <2>1, UnlinkList, UnlinkBefore
<1>5. Shorter(s, d, t)
  BY <1>4 DEF Shorter
<1> QED BY <1>1, <1>5 DEF d

LEMMA AttachOrder ==
  ASSUME NEW s \in KStates, Represents(s.w, s.q), NEW t \in Threads, NEW o2 \in Oids,
         s.failed = "no", ~s.w.p[t]
  PROVE  LET d == Attach(s, o2, t)
         IN  /\ d \in KStates /\ Represents(d.w, d.q) /\ d.failed = "no"
             /\ Joined(s, d, o2, t) /\ Longer(s, d, o2, t)
<1> DEFINE d == Attach(s, o2, t)
<1>1. o2 # None
  BY OidsAssumption
<1>2. d \in KStates /\ Represents(d.w, d.q) /\ d.failed = "no" /\ Joined(s, d, o2, t)
  BY <1>1, AttachFacts
<1>3. s.q \in Queues /\ s.w \in Fields
  BY DEF KStates
<1>4. d.q = [s.q EXCEPT ![o2] = <<t>> \o s.q[o2]]
  <2>1. d = [s EXCEPT !.w = EnqueueWaiter(@, o2, t), !.q[o2] = <<t>> \o @]
    BY <1>1 DEF Attach
  <2> QED BY <2>1 DEF KStates
<1> HIDE DEF d
<1>5. ASSUME NEW o \in Oids
      PROVE  /\ ToSet(d.q[o]) = ToSet(s.q[o]) \cup (IF o = o2 THEN {t} ELSE {})
             /\ \A x, y \in Threads :
                   Before(d.q[o], x, y) <=>
                       Before(s.q[o], x, y) \/ (o = o2 /\ x = t /\ y \in ToSet(s.q[o]))
  <2>1. s.q[o] \in Seq(Threads) /\ d.q[o] = IF o = o2 THEN <<t>> \o s.q[o] ELSE s.q[o]
    BY <1>3, <1>4 DEF Queues
  <2>2. CASE o = o2
    BY <2>1, <2>2, PushSet, PushBefore
  <2>3. CASE o # o2
    BY <2>1, <2>3
  <2> QED BY <2>2, <2>3
<1>6. Longer(s, d, o2, t)
  BY <1>5 DEF Longer
<1> QED BY <1>2, <1>6 DEF d

\* One more waiter is woken ...
LEMMA OneWoken ==
  ASSUME NEW s \in KStates, Represents(s.w, s.q), NEW W, NEW M, NEW o1 \in Oids, NEW o2, NEW f2,
         WokenAndMoved(s, W, M, o1, o2, f2), NEW t \in ToSet(queue[o1]), t \in Threads,
         t \notin W \cup M, s.w.p[t], MayLeave(s, t), t \in s.blocked
  PROVE  LET d == FutexReply(Detach(s, t), t)
         IN  /\ d \in KStates /\ Represents(d.w, d.q) /\ d.failed = "no"
             /\ d.waiters = IF reason[t] = "futex" THEN Unlink(s.waiters, t) ELSE s.waiters
             /\ WokenAndMoved(d, W \cup {t}, M, o1, o2, f2)
<1> DEFINE e == Detach(s, t)
           d == FutexReply(e, t)
<1>1. e \in KStates /\ Represents(e.w, e.q) /\ e.failed = "no" /\ Left(s, e, t) /\ Shorter(s, e, t)
  BY DetachOrder
<1> HIDE DEF e
<1>2. t \in e.blocked
  BY <1>1 DEF Left
<1>3. d \in KStates /\ d.w = e.w /\ d.q = e.q /\ d.failed = "no" /\ d = Reply(e, t)
  BY <1>1, <1>2, FutexReplyFacts
<1>4. d = [e EXCEPT !.blocked = e.blocked \ {t}, !.running = e.running \cup {t}]
  BY <1>1, <1>2, <1>3 DEF Reply, KStates
<1>5. d.blocked = e.blocked \ {t} /\ d.arg = e.arg /\ d.waiters = e.waiters
  BY <1>1, <1>4 DEF KStates
<1> HIDE DEF d
<1>6. d.blocked = blocked \ (W \cup {t}) /\ d.arg = s.arg
  BY <1>1, <1>5 DEF Left, WokenAndMoved
<1>7. d.waiters = IF reason[t] = "futex" THEN Unlink(s.waiters, t) ELSE s.waiters
  BY <1>1, <1>5 DEF Left
<1>8. Represents(d.w, d.q)
  BY <1>1, <1>3
<1>9. WokenAndMoved(d, W \cup {t}, M, o1, o2, f2)
  <2>1. d.arg = [u \in Threads |-> IF u \in M THEN {f2} ELSE arg[u]]
    BY <1>6 DEF WokenAndMoved
  <2>2. ASSUME NEW o \in Oids
        PROVE  ToSet(d.q[o]) = (ToSet(queue[o]) \ ((W \cup {t}) \cup M)) \cup (IF o = o2 THEN M ELSE {})
    <3>1. ToSet(d.q[o]) = ToSet(s.q[o]) \ {t}
      BY <1>1, <1>3 DEF Shorter
    <3>2. ToSet(s.q[o]) = (ToSet(queue[o]) \ (W \cup M)) \cup (IF o = o2 THEN M ELSE {})
      BY DEF WokenAndMoved
    <3> QED BY <3>1, <3>2
  <2>3. ASSUME NEW o \in Oids, NEW x \in Threads, NEW y \in Threads
        PROVE  Before(d.q[o], x, y) <=>
                 \/ /\ {x, y} \subseteq ToSet(queue[o]) \ ((W \cup {t}) \cup M)
                    /\ Before(queue[o], x, y)
                 \/ o = o2 /\ x \in M /\ y \in ToSet(queue[o]) \ ((W \cup {t}) \cup M)
                 \/ o = o2 /\ {x, y} \subseteq M /\ Before(queue[o1], y, x)
    <3>1. Before(d.q[o], x, y) <=> Before(s.q[o], x, y) /\ x # t /\ y # t
      BY <1>1, <1>3 DEF Shorter
    <3>2. Before(s.q[o], x, y) <=>
                 \/ {x, y} \subseteq ToSet(queue[o]) \ (W \cup M) /\ Before(queue[o], x, y)
                 \/ o = o2 /\ x \in M /\ y \in ToSet(queue[o]) \ (W \cup M)
                 \/ o = o2 /\ {x, y} \subseteq M /\ Before(queue[o1], y, x)
      BY DEF WokenAndMoved
    <3> QED BY <3>1, <3>2
  <2> QED BY <1>6, <2>1, <2>2, <2>3 DEF WokenAndMoved
<1> QED BY <1>3, <1>7, <1>8, <1>9 DEF d, e

\* ... or moved.
LEMMA OneMoved ==
  ASSUME NEW s \in KStates, Represents(s.w, s.q), NEW W, NEW M, NEW o1 \in Oids, NEW o2 \in Oids,
         NEW f2 \in Offsets \cup {None},
         WokenAndMoved(s, W, M, o1, o2, f2), NEW t \in ToSet(queue[o1]), t \in Threads,
         t \notin W \cup M, s.w.p[t], MayLeave(s, t),
         \A u \in M : Before(queue[o1], u, t) /\ ~Before(queue[o1], t, u),
         ~Before(queue[o1], t, t)
  PROVE  LET d == Attach([Detach(s, t) EXCEPT !.arg[t] = {f2}], o2, t)
         IN  /\ d \in KStates /\ Represents(d.w, d.q) /\ d.failed = "no"
             /\ d.waiters = IF reason[t] = "futex" THEN Unlink(s.waiters, t) ELSE s.waiters
             /\ WokenAndMoved(d, W, M \cup {t}, o1, o2, f2)
<1> DEFINE c == Detach(s, t)
           e == [c EXCEPT !.arg[t] = {f2}]
           d == Attach(e, o2, t)
<1>1. c \in KStates /\ Represents(c.w, c.q) /\ c.failed = "no" /\ Left(s, c, t) /\ Shorter(s, c, t)
  BY DetachOrder
<1> HIDE DEF c
<1>2. /\ e \in KStates /\ e.w = c.w /\ e.q = c.q /\ e.failed = c.failed /\ e.waiters = c.waiters
      /\ e.blocked = c.blocked /\ e.arg = [c.arg EXCEPT ![t] = {f2}]
  BY <1>1 DEF KStates
<1> HIDE DEF e
<1>3. Represents(e.w, e.q) /\ ~e.w.p[t] /\ e.failed = "no"
  BY <1>1, <1>2 DEF Left
<1>4. /\ d \in KStates /\ Represents(d.w, d.q) /\ d.failed = "no"
      /\ Joined(e, d, o2, t) /\ Longer(e, d, o2, t)
  BY <1>2, <1>3, AttachOrder
<1> HIDE DEF d
<1>5. d.waiters = IF reason[t] = "futex" THEN Unlink(s.waiters, t) ELSE s.waiters
  BY <1>1, <1>2, <1>4 DEF Left, Joined
<1>6. WokenAndMoved(d, W, M \cup {t}, o1, o2, f2)
  <2>1. d.blocked = blocked \ W
    BY <1>1, <1>2, <1>4 DEF Left, Joined, WokenAndMoved
  <2>2. d.arg = [u \in Threads |-> IF u \in M \cup {t} THEN {f2} ELSE arg[u]]
    <3>1. d.arg = [s.arg EXCEPT ![t] = {f2}]
      BY <1>1, <1>2, <1>4 DEF Left, Joined
    <3>2. s.arg = [u \in Threads |-> IF u \in M THEN {f2} ELSE arg[u]]
      BY DEF WokenAndMoved
    <3> QED BY <3>1, <3>2
  <2>3. ASSUME NEW o \in Oids
        PROVE  /\ ToSet(s.q[o]) = (ToSet(queue[o]) \ (W \cup M)) \cup (IF o = o2 THEN M ELSE {})
               /\ ToSet(e.q[o]) = ToSet(s.q[o]) \ {t}
               /\ ToSet(d.q[o]) = ToSet(e.q[o]) \cup (IF o = o2 THEN {t} ELSE {})
    BY <1>1, <1>2, <1>4 DEF Shorter, Longer, WokenAndMoved
  <2>4. ASSUME NEW o \in Oids
        PROVE  ToSet(d.q[o]) = (ToSet(queue[o]) \ (W \cup (M \cup {t})))
                               \cup (IF o = o2 THEN M \cup {t} ELSE {})
    BY <2>3
  <2>5. ASSUME NEW o \in Oids, NEW x \in Threads, NEW y \in Threads
        PROVE  Before(d.q[o], x, y) <=>
                 \/ /\ {x, y} \subseteq ToSet(queue[o]) \ (W \cup (M \cup {t}))
                    /\ Before(queue[o], x, y)
                 \/ o = o2 /\ x \in M \cup {t} /\ y \in ToSet(queue[o]) \ (W \cup (M \cup {t}))
                 \/ o = o2 /\ {x, y} \subseteq M \cup {t} /\ Before(queue[o1], y, x)
    <3>1. Before(d.q[o], x, y) <=>
              Before(e.q[o], x, y) \/ (o = o2 /\ x = t /\ y \in ToSet(e.q[o]))
      BY <1>4 DEF Longer
    <3>2. Before(e.q[o], x, y) <=> Before(s.q[o], x, y) /\ x # t /\ y # t
      BY <1>1, <1>2 DEF Shorter
    <3>3. Before(s.q[o], x, y) <=>
                 \/ {x, y} \subseteq ToSet(queue[o]) \ (W \cup M) /\ Before(queue[o], x, y)
                 \/ o = o2 /\ x \in M /\ y \in ToSet(queue[o]) \ (W \cup M)
                 \/ o = o2 /\ {x, y} \subseteq M /\ Before(queue[o1], y, x)
      BY DEF WokenAndMoved
    <3>4. y \in ToSet(e.q[o]) <=> /\ y # t
                                  /\ (y \in ToSet(queue[o]) \ (W \cup M)) \/ (o = o2 /\ y \in M)
      BY <2>3
    <3>5. CASE x = t
      BY <3>1, <3>2, <3>4, <3>5
    <3>6. CASE x # t /\ y = t
      BY <3>1, <3>2, <3>6
    <3>7. CASE x # t /\ y # t
      BY <3>1, <3>2, <3>3, <3>7
    <3> QED BY <3>5, <3>6, <3>7
  <2> QED BY <2>1, <2>2, <2>4, <2>5 DEF WokenAndMoved
<1> QED BY <1>4, <1>5, <1>6 DEF d, e, c

(***************************************************************************)
(* The waiters for a futex, those of them that the loop has seen in its    *)
(* first i turns, and how many are before one of them.                     *)
(***************************************************************************)
AtFutex(t, f) == reason[t] = "futex" /\ arg[t] = {f}
Waiting(o, f) == {t \in ToSet(queue[o]) : AtFutex(t, f)}
Ahead(o, f, t) == {u \in Waiting(o, f) : Before(queue[o], u, t)}
Seen(o, f, i) == {t \in Waiting(o, f) : \E j \in 1..i : queue[o][j] = t}
Some(o, f, i, m, n) ==
    {t \in Seen(o, f, i) : m <= Cardinality(Ahead(o, f, t)) /\ Cardinality(Ahead(o, f, t)) < n}

IsList(q) == q \in Seq(Threads) /\ IsInjective(q)

LEMMA SeenEnds ==
  ASSUME NEW o, IsList(queue[o]), NEW f, NEW m, NEW n
  PROVE  /\ Seen(o, f, 0) = {} /\ Seen(o, f, Len(queue[o])) = Waiting(o, f)
         /\ Some(o, f, 0, m, n) = {}
         /\ Some(o, f, Len(queue[o]), m, n) = FutexWaiters(o, f, m, n)
<1>1. \A t \in ToSet(queue[o]) : \E j \in 1..Len(queue[o]) : queue[o][j] = t
  BY DEF ToSet, IsList
<1>2. Seen(o, f, 0) = {} /\ Seen(o, f, Len(queue[o])) = Waiting(o, f)
  BY <1>1 DEF Seen, Waiting
<1>3. FutexWaiters(o, f, m, n) = {t \in Waiting(o, f) : /\ m <= Cardinality(Ahead(o, f, t))
                                                        /\ Cardinality(Ahead(o, f, t)) < n}
  BY DEF FutexWaiters, Waiting, Ahead, AtFutex
<1> QED BY <1>2, <1>3 DEF Some

LEMMA SeenFinite ==
  ASSUME NEW o, IsList(queue[o]), NEW f, NEW i
  PROVE  IsFiniteSet(Seen(o, f, i)) /\ Cardinality(Seen(o, f, i)) \in Nat
<1>1. Seen(o, f, i) \subseteq Threads
  BY DEF Seen, Waiting, ToSet, IsList
<1>2. IsFiniteSet(Seen(o, f, i))
  BY <1>1, KernelWaitAssumption, FS_Subset
<1> QED BY <1>2, FS_CardinalityType

LEMMA SeenStep ==
  ASSUME NEW o, IsList(queue[o]), NEW f, NEW i \in 1..Len(queue[o])
  PROVE  LET t == queue[o][i]
         IN  /\ t \notin Seen(o, f, i - 1) /\ ~Before(queue[o], t, t)
             /\ t \in Threads /\ t \in ToSet(queue[o])
             /\ \A u \in Seen(o, f, i - 1) : Before(queue[o], u, t) /\ ~Before(queue[o], t, u)
             /\ Seen(o, f, i) = Seen(o, f, i - 1) \cup (IF AtFutex(t, f) THEN {t} ELSE {})
             /\ Ahead(o, f, t) = Seen(o, f, i - 1)
             /\ Cardinality(Seen(o, f, i)) =
                    Cardinality(Seen(o, f, i - 1)) + (IF AtFutex(t, f) THEN 1 ELSE 0)
<1> DEFINE list == queue[o]
           n == Len(list)
           t == list[i]
<1>1. n \in Nat /\ DOMAIN list = 1..n /\ (\A j \in 1..n : list[j] \in Threads)
  BY DEF IsList
<1>2. \A j, k \in 1..n : list[j] = list[k] => j = k
  BY <1>1 DEF IsList, IsInjective
<1>3. t \in ToSet(list) /\ t \in Threads
  BY <1>1 DEF ToSet
<1> HIDE DEF n
<1>4. \A u : Before(list, u, t) <=> \E j \in 1..(i - 1) : list[j] = u
  <2>1. ASSUME NEW u, Before(list, u, t) PROVE \E j \in 1..(i - 1) : list[j] = u
    <3>1. PICK j \in 1..n, k \in 1..n : j < k /\ list[j] = u /\ list[k] = t
      BY <1>1, <2>1 DEF Before
    <3>2. k = i
      BY <1>2, <3>1 DEF n
    <3>3. j \in 1..(i - 1)
      BY <1>1, <3>1, <3>2
    <3> QED BY <3>1, <3>3
  <2>2. ASSUME NEW u, NEW j \in 1..(i - 1), list[j] = u PROVE Before(list, u, t)
    <3>1. j \in 1..n /\ i \in 1..n /\ j < i
      BY <1>1 DEF n
    <3> QED BY <1>1, <2>2, <3>1 DEF Before
  <2> QED BY <2>1, <2>2
<1>5. \A j \in 1..(i - 1) : j \in 1..n /\ list[j] # t
  BY <1>1, <1>2 DEF n
<1>6. t \notin Seen(o, f, i - 1) /\ ~Before(list, t, t)
  BY <1>4, <1>5 DEF Seen
<1>7. ASSUME NEW u \in Seen(o, f, i - 1) PROVE Before(list, u, t) /\ ~Before(list, t, u)
  <2>1. PICK j \in 1..(i - 1) : list[j] = u
    BY DEF Seen
  <2>2. Before(list, u, t)
    BY <1>4, <2>1
  <2>3. ASSUME Before(list, t, u) PROVE FALSE
    <3>1. PICK k \in 1..n, l \in 1..n : k < l /\ list[k] = t /\ list[l] = u
      BY <1>1, <2>3 DEF Before
    <3>2. k = i /\ l = j
      BY <1>2, <1>5, <2>1, <3>1 DEF n
    <3> QED BY <1>1, <3>1, <3>2
  <2> QED BY <2>2, <2>3
<1>8. Ahead(o, f, t) = Seen(o, f, i - 1)
  BY <1>4 DEF Ahead, Seen
<1>9. Seen(o, f, i) = Seen(o, f, i - 1) \cup (IF AtFutex(t, f) THEN {t} ELSE {})
  <2>1. \A j \in 1..i : j = i \/ j \in 1..(i - 1)
    BY <1>1 DEF n
  <2>2. i \in 1..i /\ \A j \in 1..(i - 1) : j \in 1..i
    BY <1>1 DEF n
  <2> QED BY <1>3, <2>1, <2>2 DEF Seen, Waiting
<1>10. Cardinality(Seen(o, f, i)) =
           Cardinality(Seen(o, f, i - 1)) + (IF AtFutex(t, f) THEN 1 ELSE 0)
  <2>1. CASE AtFutex(t, f)
    <3>1. Seen(o, f, i) = Seen(o, f, i - 1) \cup {t}
      BY <1>9, <2>1
    <3>2. Cardinality(Seen(o, f, i - 1) \cup {t}) = Cardinality(Seen(o, f, i - 1)) + 1
      BY <1>6, SeenFinite, FS_AddElement
    <3> QED BY <2>1, <3>1, <3>2
  <2>2. CASE ~AtFutex(t, f)
    <3>1. Seen(o, f, i) = Seen(o, f, i - 1)
      BY <1>9, <2>2
    <3> QED BY <2>2, <3>1, SeenFinite
  <2> QED BY <2>1, <2>2
<1> QED BY <1>3, <1>6, <1>7, <1>8, <1>9, <1>10

LEMMA SomeStep ==
  ASSUME NEW o, IsList(queue[o]), NEW f, NEW i \in 1..Len(queue[o]), NEW m \in Nat, NEW n \in Nat,
         NEW r, r = Cardinality(Seen(o, f, i - 1)), NEW t, t = queue[o][i]
  PROVE  /\ AtFutex(t, f) /\ m <= r /\ r < n =>
                Some(o, f, i, m, n) = Some(o, f, i - 1, m, n) \cup {t}
         /\ ~(AtFutex(t, f) /\ m <= r /\ r < n) => Some(o, f, i, m, n) = Some(o, f, i - 1, m, n)
<1>1. /\ t \notin Seen(o, f, i - 1)
      /\ Seen(o, f, i) = Seen(o, f, i - 1) \cup (IF AtFutex(t, f) THEN {t} ELSE {})
      /\ Cardinality(Ahead(o, f, t)) = r
  BY SeenStep
<1> QED BY <1>1 DEF Some

(***************************************************************************)
(* The loop after i turns: of the waiters it has seen, those it should     *)
(* have woken or moved are, and its counts say how many it has seen.       *)
(***************************************************************************)
Exact(a, i, o1, f1, n1, o2, f2, n2) ==
    LET r == Cardinality(Seen(o1, f1, i))
    IN  /\ a.s \in KStates /\ Represents(a.s.w, a.s.q) /\ a.s.failed = "no"
        /\ WokenAndMoved(a.s, Some(o1, f1, i, 0, n1), Some(o1, f1, i, n1, n1 + n2), o1, o2, f2)
        /\ a.stop \in BOOLEAN
        /\ a.stop => r >= n1 + n2
        /\ ~a.stop => /\ a.count = r /\ r < n1 + n2
                      /\ a.requeue = IF r < n1 THEN n2 ELSE n1 + n2 - r
        /\ ~NDEBUG => /\ IsInjective(a.s.waiters)
                      /\ Waiting(o1, f1) \ Seen(o1, f1, i) \subseteq ToSet(a.s.waiters)

LEMMA WaitersShrink ==
  ASSUME NEW ws \in Seq(Threads), NEW t \in Threads, IsInjective(ws)
  PROVE  LET vs == IF reason[t] = "futex" THEN Unlink(ws, t) ELSE ws
         IN  IsInjective(vs) /\ ToSet(ws) \ {t} \subseteq ToSet(vs)
<1>1. CASE reason[t] = "futex"
  <2>1. IsInjective(Unlink(ws, t)) /\ ToSet(Unlink(ws, t)) = ToSet(ws) \ {t}
    BY UnlinkList
  <2> QED BY <1>1, <2>1
<1>2. CASE reason[t] # "futex"
  BY <1>2
<1> QED BY <1>1, <1>2

LEMMA ExactTurn ==
  ASSUME NEW o1 \in Oids, IsList(queue[o1]), NEW f1, NEW n1 \in Nat, NEW n2 \in Nat, NEW o2,
         NEW f2 \in Offsets \cup {None}, n2 # 0 => o2 \in Oids,
         discarded = {}, ToSet(queue[o1]) \subseteq blocked,
         NEW i \in 1..Len(queue[o1]), NEW a, Exact(a, i - 1, o1, f1, n1, o2, f2, n2)
  PROVE  Exact(WakeOne(a, queue[o1][i], n1, f1, o2, f2), i, o1, f1, n1, o2, f2, n2)
<1> DEFINE t == queue[o1][i]
           b == WakeOne(a, t, n1, f1, o2, f2)
           r == Cardinality(Seen(o1, f1, i - 1))
           W == Some(o1, f1, i - 1, 0, n1)
           M == Some(o1, f1, i - 1, n1, n1 + n2)
           s == a.s
<1>1. /\ t \notin Seen(o1, f1, i - 1) /\ ~Before(queue[o1], t, t)
      /\ t \in Threads /\ t \in ToSet(queue[o1])
      /\ \A u \in Seen(o1, f1, i - 1) : Before(queue[o1], u, t) /\ ~Before(queue[o1], t, u)
      /\ Seen(o1, f1, i) = Seen(o1, f1, i - 1) \cup (IF AtFutex(t, f1) THEN {t} ELSE {})
      /\ Cardinality(Seen(o1, f1, i)) = r + (IF AtFutex(t, f1) THEN 1 ELSE 0)
  BY SeenStep
<1>2. r \in Nat
  BY SeenFinite
<1>3. 0 \in Nat /\ n1 + n2 \in Nat
  OBVIOUS
<1>4. /\ AtFutex(t, f1) /\ 0 <= r /\ r < n1 => Some(o1, f1, i, 0, n1) = W \cup {t}
      /\ ~(AtFutex(t, f1) /\ 0 <= r /\ r < n1) => Some(o1, f1, i, 0, n1) = W
      /\ AtFutex(t, f1) /\ n1 <= r /\ r < n1 + n2 => Some(o1, f1, i, n1, n1 + n2) = M \cup {t}
      /\ ~(AtFutex(t, f1) /\ n1 <= r /\ r < n1 + n2) => Some(o1, f1, i, n1, n1 + n2) = M
  <2> DEFINE k == n1 + n2
  <2>1. k \in Nat /\ r = Cardinality(Seen(o1, f1, i - 1)) /\ t = queue[o1][i]
    OBVIOUS
  <2> HIDE DEF k, r, t
  <2>2. /\ AtFutex(t, f1) /\ 0 <= r /\ r < n1 => Some(o1, f1, i, 0, n1) = W \cup {t}
        /\ ~(AtFutex(t, f1) /\ 0 <= r /\ r < n1) => Some(o1, f1, i, 0, n1) = W
    BY <1>3, <2>1, SomeStep
  <2>3. /\ AtFutex(t, f1) /\ n1 <= r /\ r < k =>
               Some(o1, f1, i, n1, k) = Some(o1, f1, i - 1, n1, k) \cup {t}
        /\ ~(AtFutex(t, f1) /\ n1 <= r /\ r < k) =>
               Some(o1, f1, i, n1, k) = Some(o1, f1, i - 1, n1, k)
    BY <2>1, SomeStep
  <2> QED BY <2>2, <2>3 DEF k
<1>5. W \subseteq Seen(o1, f1, i - 1) /\ M \subseteq Seen(o1, f1, i - 1)
  BY DEF Some
<1>6. /\ s \in KStates /\ Represents(s.w, s.q) /\ s.failed = "no"
      /\ WokenAndMoved(s, W, M, o1, o2, f2)
      /\ a.stop \in BOOLEAN
      /\ a.stop => r >= n1 + n2
      /\ ~a.stop => a.count = r /\ r < n1 + n2 /\ a.requeue = IF r < n1 THEN n2 ELSE n1 + n2 - r
      /\ ~NDEBUG => /\ IsInjective(s.waiters)
                    /\ Waiting(o1, f1) \ Seen(o1, f1, i - 1) \subseteq ToSet(s.waiters)
  BY DEF Exact
<1> HIDE DEF t, r, W, M, s
<1>7. t \notin W \cup M
  BY <1>1, <1>5
<1>8. s.arg[t] = arg[t] /\ t \in s.blocked /\ t \in ToSet(s.q[o1])
  BY <1>1, <1>6, <1>7 DEF WokenAndMoved
<1>9. s.w.p[t]
  <2>1. s.w \in Fields /\ s.q \in Queues
    BY <1>6 DEF KStates
  <2>2. PICK k \in 1..Len(s.q[o1]) : s.q[o1][k] = t
    BY <1>8, <2>1 DEF ToSet, Queues
  <2> QED BY <1>6, <2>1, <2>2, LinkedFacts
<1>10. CASE a.stop \/ ~AtFutex(t, f1)
  <2>1. b = a
    BY <1>8, <1>10 DEF WakeOne, AtFutex, s
  <2>2. Some(o1, f1, i, 0, n1) = W /\ Some(o1, f1, i, n1, n1 + n2) = M
    <3>1. ~(AtFutex(t, f1) /\ 0 <= r /\ r < n1) /\ ~(AtFutex(t, f1) /\ n1 <= r /\ r < n1 + n2)
      BY <1>2, <1>6, <1>10
    <3> QED BY <1>4, <3>1
  <2>3. Cardinality(Seen(o1, f1, i)) >= r /\ (~a.stop => Cardinality(Seen(o1, f1, i)) = r)
    BY <1>1, <1>2, <1>10
  <2>4. a.stop => Cardinality(Seen(o1, f1, i)) >= n1 + n2
    <3>1. Cardinality(Seen(o1, f1, i)) \in Nat
      BY SeenFinite
    <3> QED BY <1>2, <1>6, <2>3, <3>1
  <2>5. Waiting(o1, f1) \ Seen(o1, f1, i) \subseteq Waiting(o1, f1) \ Seen(o1, f1, i - 1)
    BY <1>1
  <2>6. Exact(a, i, o1, f1, n1, o2, f2, n2)
    BY <1>6, <2>2, <2>3, <2>4, <2>5 DEF Exact, s
  <2> QED BY <2>1, <2>6 DEF b, t
<1>11. CASE ~a.stop /\ AtFutex(t, f1)
  <2>1. MayLeave(s, t)
    <3>1. t \in Waiting(o1, f1) \ Seen(o1, f1, i - 1)
      BY <1>1, <1>11 DEF Waiting
    <3> QED BY <1>6, <3>1 DEF MayLeave, ObjectMissing
  <2>2. /\ ~(a.stop \/ reason[t] # "futex" \/ a.s.arg[t] # {f1})
        /\ Cardinality(Seen(o1, f1, i)) = r + 1
        /\ a.count = r /\ r < n1 + n2 /\ a.requeue = IF r < n1 THEN n2 ELSE n1 + n2 - r
    BY <1>1, <1>6, <1>8, <1>11 DEF AtFutex, s
  <2>3. Waiting(o1, f1) \ Seen(o1, f1, i) \subseteq (Waiting(o1, f1) \ Seen(o1, f1, i - 1)) \ {t}
    BY <1>1, <1>11
  <2>4. s.waiters \in Seq(Threads)
    BY <1>6 DEF KStates
  <2>5. CASE r < n1
    <3> DEFINE d == FutexReply(Detach(s, t), t)
               stop == d.failed # "no" \/ (a.count + 1 = n1 /\ a.requeue = 0)
    <3>1. /\ d \in KStates /\ Represents(d.w, d.q) /\ d.failed = "no"
          /\ d.waiters = IF reason[t] = "futex" THEN Unlink(s.waiters, t) ELSE s.waiters
          /\ WokenAndMoved(d, W \cup {t}, M, o1, o2, f2)
      BY <1>1, <1>6, <1>7, <1>8, <1>9, <2>1, OneWoken
    <3>2. b = [s |-> d, count |-> a.count + 1, requeue |-> a.requeue, stop |-> stop]
      BY <2>2, <2>5 DEF WakeOne, s
    <3> HIDE DEF d, b
    <3>3. /\ b.s = d /\ b.count = r + 1 /\ b.requeue = n2 /\ b.stop \in BOOLEAN
          /\ b.stop <=> r + 1 = n1 /\ n2 = 0
      <4>1. b.s = d /\ b.count = a.count + 1 /\ b.requeue = a.requeue /\ b.stop = stop
        BY <3>2
      <4>2. stop \in BOOLEAN /\ (stop <=> a.count + 1 = n1 /\ a.requeue = 0)
        BY <3>1
      <4> HIDE DEF stop
      <4> QED BY <2>2, <2>5, <4>1, <4>2
    <3>4. Some(o1, f1, i, 0, n1) = W \cup {t} /\ Some(o1, f1, i, n1, n1 + n2) = M
      <4>1. 0 <= r /\ r < n1 /\ ~(n1 <= r /\ r < n1 + n2)
        BY <1>2, <2>5
      <4> QED BY <1>4, <1>11, <4>1
    <3>5. ~NDEBUG => /\ IsInjective(d.waiters)
                     /\ Waiting(o1, f1) \ Seen(o1, f1, i) \subseteq ToSet(d.waiters)
      <4> SUFFICES ASSUME ~NDEBUG
                   PROVE  /\ IsInjective(d.waiters)
                          /\ Waiting(o1, f1) \ Seen(o1, f1, i) \subseteq ToSet(d.waiters)
        OBVIOUS
      <4> DEFINE S == Waiting(o1, f1) \ Seen(o1, f1, i - 1)
                 R == Waiting(o1, f1) \ Seen(o1, f1, i)
      <4>1. IsInjective(s.waiters) /\ S \subseteq ToSet(s.waiters) /\ R \subseteq S \ {t}
        BY <1>6, <2>3
      <4> HIDE DEF S, R
      <4>2. IsInjective(d.waiters) /\ ToSet(s.waiters) \ {t} \subseteq ToSet(d.waiters)
        BY <1>1, <2>4, <3>1, <4>1, WaitersShrink
      <4>3. R \subseteq ToSet(d.waiters)
        BY <4>1, <4>2
      <4> QED BY <4>2, <4>3 DEF R
    <3>6. /\ b.stop \in BOOLEAN /\ (b.stop => r + 1 >= n1 + n2)
          /\ ~b.stop => r + 1 < n1 + n2 /\ b.requeue = IF r + 1 < n1 THEN n2 ELSE n1 + n2 - (r + 1)
      BY <1>2, <2>5, <3>3
    <3>7. Exact(b, i, o1, f1, n1, o2, f2, n2)
      BY <2>2, <3>1, <3>3, <3>4, <3>5, <3>6 DEF Exact
    <3> QED BY <3>7 DEF b, t
  <2>6. CASE ~(r < n1)
    <3> DEFINE d == Attach([Detach(s, t) EXCEPT !.arg[t] = {f2}], o2, t)
               stop == d.failed # "no" \/ a.requeue - 1 = 0
    <3>0. o2 \in Oids
      BY <1>2, <2>2, <2>6
    <3>1. /\ d \in KStates /\ Represents(d.w, d.q) /\ d.failed = "no"
          /\ d.waiters = IF reason[t] = "futex" THEN Unlink(s.waiters, t) ELSE s.waiters
          /\ WokenAndMoved(d, W, M \cup {t}, o1, o2, f2)
      BY <1>1, <1>5, <1>6, <1>7, <1>9, <2>1, <3>0, OneMoved
    <3>2. b = [s |-> d, count |-> a.count + 1, requeue |-> a.requeue - 1, stop |-> stop]
      BY <2>2, <2>6 DEF WakeOne, s
    <3> HIDE DEF d, b
    <3>3. /\ b.s = d /\ b.count = r + 1 /\ b.requeue = n1 + n2 - r - 1
          /\ b.stop \in BOOLEAN /\ (b.stop <=> n1 + n2 - r - 1 = 0)
      <4>1. b.s = d /\ b.count = a.count + 1 /\ b.requeue = a.requeue - 1 /\ b.stop = stop
        BY <3>2
      <4>2. stop \in BOOLEAN /\ (stop <=> a.requeue - 1 = 0)
        BY <3>1
      <4> HIDE DEF stop
      <4>3. a.count = r /\ a.requeue = n1 + n2 - r
        BY <2>2, <2>6
      <4> QED BY <1>2, <4>1, <4>2, <4>3
    <3>4. Some(o1, f1, i, 0, n1) = W /\ Some(o1, f1, i, n1, n1 + n2) = M \cup {t}
      <4>1. ~(0 <= r /\ r < n1) /\ n1 <= r /\ r < n1 + n2
        BY <1>2, <2>2, <2>6
      <4> QED BY <1>4, <1>11, <4>1
    <3>5. ~NDEBUG => /\ IsInjective(d.waiters)
                     /\ Waiting(o1, f1) \ Seen(o1, f1, i) \subseteq ToSet(d.waiters)
      <4> SUFFICES ASSUME ~NDEBUG
                   PROVE  /\ IsInjective(d.waiters)
                          /\ Waiting(o1, f1) \ Seen(o1, f1, i) \subseteq ToSet(d.waiters)
        OBVIOUS
      <4> DEFINE S == Waiting(o1, f1) \ Seen(o1, f1, i - 1)
                 R == Waiting(o1, f1) \ Seen(o1, f1, i)
      <4>1. IsInjective(s.waiters) /\ S \subseteq ToSet(s.waiters) /\ R \subseteq S \ {t}
        BY <1>6, <2>3
      <4> HIDE DEF S, R
      <4>2. IsInjective(d.waiters) /\ ToSet(s.waiters) \ {t} \subseteq ToSet(d.waiters)
        BY <1>1, <2>4, <3>1, <4>1, WaitersShrink
      <4>3. R \subseteq ToSet(d.waiters)
        BY <4>1, <4>2
      <4> QED BY <4>2, <4>3 DEF R
    <3>6. /\ b.stop \in BOOLEAN /\ (b.stop => r + 1 >= n1 + n2)
          /\ ~b.stop => r + 1 < n1 + n2 /\ b.requeue = IF r + 1 < n1 THEN n2 ELSE n1 + n2 - (r + 1)
      BY <1>2, <2>2, <2>6, <3>3
    <3>7. Exact(b, i, o1, f1, n1, o2, f2, n2)
      BY <2>2, <3>1, <3>3, <3>4, <3>5, <3>6 DEF Exact
    <3> QED BY <3>7 DEF b, t
  <2> QED BY <2>5, <2>6
<1> QED BY <1>10, <1>11

\* The whole loop.
LEMMA WakeExactly ==
  ASSUME KInv, Peace, Peaceful, NEW o1 \in Oids, NEW f1, NEW n1 \in Nat, NEW n2 \in Nat, NEW o2,
         NEW f2 \in Offsets \cup {None}, n2 # 0 => o2 \in Oids, n1 + n2 > 0
  PROVE  WokenAndRequeued(Wake(Now, n1, o1, f1, n2, o2, f2), o1, f1, n1, o2, f2, n2)
<1> DEFINE list == queue[o1]
           n == Len(list)
           a0 == LoopStart(Now, n2)
<1>0. /\ Now \in KStates /\ Now.w \in Fields /\ Now.q \in Queues /\ Represents(Now.w, Now.q)
      /\ Now.q = queue /\ Now.w = wq /\ Now.failed = "no" /\ discarded = {}
  BY NowFields DEF KInv, Peace, Tight, Good, KStates
<1>1. list \in Seq(Threads) /\ IsInjective(list) /\ DOMAIN list = 1..n /\ Walk(Now.w, o1) = list
  BY <1>0, QueueSet, WalkIs
<1>2. ToSet(list) \subseteq blocked /\ \A t \in ToSet(list) : t \in Threads /\ wq.p[t]
  <2> SUFFICES ASSUME NEW t \in ToSet(list) PROVE t \in blocked /\ t \in Threads /\ wq.p[t]
    OBVIOUS
  <2>1. PICK k \in 1..n : list[k] = t
    BY <1>1 DEF ToSet
  <2>2. wq.p[t] /\ t \in Threads
    BY <1>0, <1>1, <2>1, LinkedFacts
  <2> QED BY <2>2, NowFields DEF Peace, Tight
<1>3. ~NDEBUG => IsInjective(waiters) /\ Waiting(o1, f1) \subseteq ToSet(waiters)
  <2> SUFFICES ASSUME ~NDEBUG PROVE IsInjective(waiters) /\ Waiting(o1, f1) \subseteq ToSet(waiters)
    OBVIOUS
  <2>1. Fine(wq.p, wq.fp, waiters, running, blocked, {}, alive, reason)
    BY <1>0, NowFields DEF KInv, Good
  <2>2. "requeue" \notin Calls
    BY DEF Peaceful
  <2>3. IsInjective(waiters) /\ \A t \in Threads : wq.p[t] /\ reason[t] = "futex" => t \in ToSet(waiters)
    BY <2>1, <2>2 DEF Fine, Listed
  <2> QED BY <1>2, <2>3 DEF Waiting, AtFutex
<1>4. IsList(queue[o1])
  BY <1>1 DEF IsList
<1>5. PICK g : /\ WakeRuns(g, a0, list, n1, f1, o2, f2, n)
               /\ Wake(Now, n1, o1, f1, n2, o2, f2) = g[n].s
  BY <1>1, WakeIs
<1>6. n \in Nat
  BY <1>1
<1>7. \A i \in 0..n : g[i] = IF i = 0 THEN a0 ELSE WakeOne(g[i - 1], list[i], n1, f1, o2, f2)
  BY <1>5 DEF WakeRuns
<1> DEFINE Right(i) == Exact(g[i], i, o1, f1, n1, o2, f2, n2)
           Bad == {i \in 0..n : ~Right(i)}
<1>8. Right(0)
  <2>1. g[0] = a0
    BY <1>6, <1>7
  <2>2. a0.s = Now /\ a0.count = 0 /\ a0.requeue = n2 /\ a0.stop = FALSE
    BY <1>0 DEF LoopStart
  <2> HIDE DEF a0
  <2>3. Seen(o1, f1, 0) = {} /\ Some(o1, f1, 0, 0, n1) = {} /\ Some(o1, f1, 0, n1, n1 + n2) = {}
    BY <1>4, SeenEnds
  <2>4. Cardinality(Seen(o1, f1, 0)) = 0
    BY <2>3, FS_EmptySet
  <2>5. WokenAndMoved(Now, {}, {}, o1, o2, f2)
    <3>1. arg = [t \in Threads |-> arg[t]]
      BY <1>0, NowFields DEF KStates
    <3>2. ASSUME NEW o \in Oids, NEW x \in Threads, NEW y \in Threads, Before(queue[o], x, y)
          PROVE  {x, y} \subseteq ToSet(queue[o])
      <4>1. x \in ToSet(queue[o]) /\ y \in ToSet(queue[o])
        BY <3>2 DEF Before, ToSet
      <4> QED BY <4>1
    <3> QED BY <3>1, <3>2, NowFields DEF WokenAndMoved
  <2>6. Exact(a0, 0, o1, f1, n1, o2, f2, n2)
    <3>1. ~NDEBUG => /\ IsInjective(a0.s.waiters)
                     /\ Waiting(o1, f1) \ Seen(o1, f1, 0) \subseteq ToSet(a0.s.waiters)
      BY <1>3, <2>2, NowFields
    <3>2. a0.requeue = IF 0 < n1 THEN n2 ELSE n1 + n2 - 0
      BY <2>2
    <3> QED BY <1>0, <2>2, <2>3, <2>4, <2>5, <3>1, <3>2 DEF Exact
  <2> QED BY <2>1, <2>6
<1>9. ASSUME NEW i \in 1..n, Right(i - 1) PROVE Right(i)
  <2>1. g[i] = WakeOne(g[i - 1], queue[o1][i], n1, f1, o2, f2)
    <3>1. i \in 0..n /\ i # 0
      BY <1>6
    <3> QED BY <1>7, <3>1
  <2>2. Exact(WakeOne(g[i - 1], queue[o1][i], n1, f1, o2, f2), i, o1, f1, n1, o2, f2, n2)
    BY <1>0, <1>2, <1>4, <1>9, ExactTurn
  <2> QED BY <2>1, <2>2
<1> HIDE DEF Right, n
<1>10. Bad = {}
  <2> SUFFICES ASSUME Bad # {} PROVE FALSE
    OBVIOUS
  <2>0. Bad \subseteq Nat
    BY <1>6
  <2>1. PICK x \in Bad : \A y \in Bad : ~(<<y, x>> \in OpToRel(<, Nat))
    BY <2>0, NatLessThanWellFounded, WFMin, Zenon
  <2>2. x \in 0..n /\ ~Right(x) /\ x # 0
    BY <1>8, <2>1
  <2>3. x \in 1..n /\ x - 1 \in 0..n /\ x - 1 \in Nat /\ x \in Nat /\ x - 1 < x
    BY <1>6, <2>2
  <2>4. <<x - 1, x>> \in OpToRel(<, Nat)
    BY <2>3 DEF OpToRel
  <2>5. Right(x - 1)
    BY <2>1, <2>3, <2>4
  <2> QED BY <1>9, <2>2, <2>3, <2>5
<1>11. Right(n)
  BY <1>6, <1>10
<1>12. /\ Some(o1, f1, n, 0, n1) = FutexWaiters(o1, f1, 0, n1)
       /\ Some(o1, f1, n, n1, n1 + n2) = FutexWaiters(o1, f1, n1, n1 + n2)
  BY <1>4, SeenEnds DEF n
<1>13. WokenAndMoved(g[n].s, Some(o1, f1, n, 0, n1), Some(o1, f1, n, n1, n1 + n2), o1, o2, f2)
  BY <1>11 DEF Right, Exact
<1> QED BY <1>5, <1>12, <1>13 DEF WokenAndRequeued

(***************************************************************************)
(* FUTEX_WAKE and FUTEX_CMP_REQUEUE wake and move exactly the waiters they *)
(* should, in the order of the queue, and leave every other waiter where   *)
(* it is, in every state that peaceful calls lead to.  (FUTEX_CMP_REQUEUE  *)
(* that is told to move none moves all, and is left out.)                  *)
(***************************************************************************)
THEOREM FutexExactHolds ==
  ASSUME Peaceful, \A n \in Counts : n[2] > 0
  PROVE  KernelSpec => []FutexExact
<1>1. (KInv /\ Peace) /\ [KernelNext]_vars => (KInv /\ Peace)'
  BY KernelStep
<1>2. KInv /\ Peace => FutexExact
  <2> SUFFICES ASSUME KInv, Peace PROVE FutexExact
    OBVIOUS
  <2>0. \A n \in Counts : n[1] \in Nat /\ n[2] \in Nat /\ n[2] > 0
    BY KernelWaitAssumption
  <2>1. ASSUME NEW o \in Pages, NEW f \in Offsets, NEW n \in Counts, n[1] > 0
        PROVE  WokenAndRequeued(Wake(Now, n[1], o, f, 0, None, None), o, f, n[1], None, None, 0)
    <3>1. o \in Oids /\ n[1] \in Nat /\ 0 \in Nat /\ n[1] + 0 > 0 /\ (0 # 0 => None \in Oids)
          /\ None \in Offsets \cup {None}
      BY <2>0, <2>1, KernelWaitAssumption
    <3> QED BY <3>1, WakeExactly
  <2>2. ASSUME NEW o1 \in Pages, NEW o2 \in Pages, NEW f1 \in Offsets, NEW f2 \in Offsets,
               NEW n \in Counts
        PROVE  WokenAndRequeued(Wake(Now, n[1], o1, f1, n[2], o2, f2), o1, f1, n[1], o2, f2, n[2])
    <3>1. o1 \in Oids /\ o2 \in Oids /\ n[1] \in Nat /\ n[2] \in Nat /\ n[1] + n[2] > 0
          /\ f2 \in Offsets \cup {None}
      BY <2>0, KernelWaitAssumption
    <3> QED BY <3>1, WakeExactly
  <2> QED BY <2>1, <2>2 DEF FutexExact, WakeExact, RequeueExact
<1> QED BY <1>1, <1>2, KInitInv, PTL DEF KernelSpec

=============================================================================
